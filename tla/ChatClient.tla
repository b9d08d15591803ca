----------------------------- MODULE ChatClient -----------------------------
(***************************************************************************)
(* The chat client: class ClientService                                    *)
(* (ChatServer/src/client/clientservice.cpp) on its two threads.  The menu *)
(* thread runs getStart and mainMenu, the loop thread runs readTaskHandler;*)
(* they share the data of the current user, the atomic g_isLoginSuccess    *)
(* and the semaphore rwsem.  The server is an environment that grants or   *)
(* refuses logins and keeps the accounts it granted on this connection.    *)
(*                                                                         *)
(* A step of the menu thread ends where the loop thread can see or do      *)
(* something that matters: at a send, at the write of the flag, at the     *)
(* semaphore.  isMainMenuRunning belongs to the menu thread alone and is   *)
(* part of ui.                                                             *)
(***************************************************************************)
EXTENDS Naturals, Sequences, FiniteSets

CONSTANTS
  Users,        \* user ids
  NoUser,       \* the id -1 of a default User
  MaxAsks,      \* bound: logins and registrations asked for
  MaxCommands,  \* bound: chat, groupchat, addfriend, creategroup, addgroup
  MaxPushes     \* bound: messages the server pushes

ASSUME ChatClientAssumption ==
  /\ NoUser \notin Users
  /\ MaxAsks \in Nat /\ MaxCommands \in Nat /\ MaxPushes \in Nat

Lists == {"friends", "groups"}

Request == [kind : {"login"}, id : Users]
             \cup [kind : {"command", "logout"}, id : Users \cup {NoUser}]
             \cup [kind : {"register"}, id : {NoUser}]

(* lists are the keys "friends" and "groups" that the answer contains.     *)
Answer == [kind : {"login"}, errno : {0}, id : Users, lists : SUBSET Lists]
            \cup [kind : {"login"}, errno : {1}, id : {NoUser}, lists : {{}}]
            \cup [kind : {"register", "push"}, errno : {0, 1}, id : {NoUser}, lists : {{}}]

VARIABLES
  ui,           \* where the menu thread is
  io,           \* the loop thread: in epoll_wait, or about to post
  loginSuccess, \* ClientService::g_isLoginSuccess
  rwsem,        \* ClientService::rwsem
  currentUser,  \* g_currentUser
  listOwner,    \* whose friends and groups the two cached lists hold
  link,         \* the connection
  toServer,     \* requests sent and not yet handled by the server
  toClient,     \* answers and messages on their way
  sessions,     \* accounts the server granted on this connection
  asks, commands, pushes

menuVars == <<ui, asks, commands>>
userVars == <<loginSuccess, currentUser, listOwner>>
netVars == <<link, toServer, toClient, sessions, pushes>>
vars == <<menuVars, io, userVars, rwsem, netVars>>

MenuSteps == {"start", "sent", "wait", "woken", "waitreg", "main"}
Ended == {"exited", "aborted"}

TypeOK ==
  /\ ui \in MenuSteps \cup Ended
  /\ io \in {"poll", "post"}
  /\ loginSuccess \in BOOLEAN
  /\ rwsem \in {0, 1}
  /\ currentUser \in Users \cup {NoUser}
  /\ listOwner \in [Lists -> Users \cup {NoUser}]
  /\ link \in {"up", "down"}
  /\ toServer \in Seq(Request)
  /\ toClient \in Seq(Answer)
  /\ sessions \subseteq Users
  /\ asks \in 0..MaxAsks /\ commands \in 0..MaxCommands /\ pushes \in 0..MaxPushes

Init ==
  /\ ui = "start" /\ io = "poll"
  /\ loginSuccess = FALSE /\ rwsem = 0
  /\ currentUser = NoUser /\ listOwner = [l \in Lists |-> NoUser]
  /\ link = "up" /\ toServer = <<>> /\ toClient = <<>> /\ sessions = {}
  /\ asks = 0 /\ commands = 0 /\ pushes = 0

-----------------------------------------------------------------------------
(* The menu thread: getStart, mainMenu and the commands.                   *)

(* conn->send; on a connection that ended it does nothing.                 *)
Send(r) ==
  /\ toServer' = IF link = "up" THEN Append(toServer, r) ELSE toServer
  /\ UNCHANGED <<link, toClient, sessions, pushes>>

Ask(r, next) ==
  /\ ui = "start" /\ asks < MaxAsks
  /\ Send(r)
  /\ ui' = next /\ asks' = asks + 1
  /\ UNCHANGED <<commands, io, userVars, rwsem>>

SendLogin(u) == Ask([kind |-> "login", id |-> u], "sent")

SendRegister == Ask([kind |-> "register", id |-> NoUser], "waitreg")

(* The flag is cleared after the request has left.                         *)
ClearFlagDoesNotWait ==
  /\ ui = "sent" /\ ui' = "woken"
  /\ loginSuccess' = FALSE
  /\ UNCHANGED <<asks, commands, io, currentUser, listOwner, rwsem, netVars>>
ClearFlag ==
  /\ ui = "sent" /\ ui' = "wait"
  /\ loginSuccess' = FALSE
  /\ UNCHANGED <<asks, commands, io, currentUser, listOwner, rwsem, netVars>>

(* sem_wait(&rwsem), for the login and for the registration.               *)
SemWait(from, to) ==
  /\ ui = from /\ rwsem > 0
  /\ rwsem' = rwsem - 1 /\ ui' = to
  /\ UNCHANGED <<asks, commands, io, userVars, netVars>>

WaitLogin == SemWait("wait", "woken")
WaitRegister == SemWait("waitreg", "start")

CheckFlag ==
  /\ ui = "woken"
  /\ ui' = IF loginSuccess THEN "main" ELSE "start"
  /\ UNCHANGED <<asks, commands, io, userVars, rwsem, netVars>>

(* Every command but help and logout sends one request in the name of the  *)
(* current user and expects no answer.                                     *)
Command ==
  /\ ui = "main" /\ commands < MaxCommands
  /\ Send([kind |-> "command", id |-> currentUser])
  /\ commands' = commands + 1
  /\ UNCHANGED <<ui, asks, io, userVars, rwsem>>

LogoutStaysInMenu ==
  /\ ui = "main"
  /\ Send([kind |-> "logout", id |-> currentUser])
  /\ loginSuccess' = FALSE
  /\ UNCHANGED <<menuVars, io, currentUser, listOwner, rwsem>>
Logout ==
  /\ ui = "main" /\ ui' = "start"
  /\ Send([kind |-> "logout", id |-> currentUser])
  /\ loginSuccess' = FALSE
  /\ UNCHANGED <<asks, commands, io, currentUser, listOwner, rwsem>>

(* The process ends, and with it the connection.                           *)
End(how) ==
  /\ ui' = how
  /\ link' = "down" /\ toServer' = <<>> /\ toClient' = <<>> /\ sessions' = {}
  /\ UNCHANGED <<asks, commands, io, userVars, rwsem, pushes>>

Quit == ui = "start" /\ End("exited")

-----------------------------------------------------------------------------
(* The loop thread: readTaskHandler.                                       *)

Read(kind) ==
  /\ ui \notin Ended
  /\ io = "poll" /\ toClient # <<>> /\ Head(toClient).kind = kind
  /\ toClient' = Tail(toClient)
  /\ UNCHANGED <<menuVars, rwsem, link, toServer, sessions, pushes>>

(* doLoginResponse replaces a list only when the answer contains a new one.*)
RecordUser(answer) ==
  /\ currentUser' = answer.id
  /\ listOwner' = [l \in Lists |-> IF l \in answer.lists THEN answer.id ELSE listOwner[l]]

KeepsOldUser(answer) == loginSuccess' = (answer.errno = 0) /\ UNCHANGED <<currentUser, listOwner>>
DoLoginResponse(answer) ==
  \/ answer.errno = 0 /\ loginSuccess' = TRUE /\ RecordUser(answer)
  \/ answer.errno # 0 /\ loginSuccess' = FALSE /\ UNCHANGED <<currentUser, listOwner>>

HandleLoginAck ==
  /\ Read("login")
  /\ DoLoginResponse(Head(toClient))
  /\ io' = "post"

HandleRegisterAckDoesNotPost == Read("register") /\ UNCHANGED <<io, userVars>>
HandleRegisterAck == Read("register") /\ io' = "post" /\ UNCHANGED userVars

ShowMessagePosts == Read("push") /\ io' = "post" /\ UNCHANGED userVars
ShowMessage == Read("push") /\ UNCHANGED <<io, userVars>>

SemPost ==
  /\ ui \notin Ended /\ io = "post"
  /\ rwsem' = rwsem + 1 /\ io' = "poll"
  /\ UNCHANGED <<menuVars, userVars, netVars>>

(* retrieveAllAsString returns what has arrived.  When that is not exactly *)
(* one message, json::parse throws and nobody catches.                     *)
ReadNotOneMessage ==
  /\ ui \notin Ended /\ io = "poll" /\ toClient # <<>>
  /\ End("aborted")

-----------------------------------------------------------------------------
(* The server and the network, as ChatService has them.                    *)

Take(kind) ==
  /\ link = "up" /\ toServer # <<>> /\ Head(toServer).kind = kind
  /\ toServer' = Tail(toServer)
  /\ UNCHANGED <<menuVars, io, userVars, rwsem, link, pushes>>

Reply(kind, errno, u, lists) ==
  toClient' = Append(toClient, [kind |-> kind, errno |-> errno, id |-> u, lists |-> lists])

(* An account that is online is refused; so is one with a wrong password.  *)
ServerGrants ==
  /\ Take("login") /\ Head(toServer).id \notin sessions
  /\ sessions' = sessions \cup {Head(toServer).id}
  /\ \E lists \in SUBSET Lists : Reply("login", 0, Head(toServer).id, lists)

ServerRefuses ==
  /\ Take("login")
  /\ Reply("login", 1, NoUser, {})
  /\ UNCHANGED sessions

ServerRegisters ==
  /\ Take("register")
  /\ \E errno \in {0, 1} : Reply("register", errno, NoUser, {})
  /\ UNCHANGED sessions

ServerServes == Take("command") /\ UNCHANGED <<sessions, toClient>>

ServerLogsOut ==
  /\ Take("logout")
  /\ sessions' = sessions \ {Head(toServer).id}
  /\ UNCHANGED toClient

(* A message that another user sent, or a late one after the logout.       *)
Push ==
  /\ link = "up" /\ pushes < MaxPushes /\ pushes' = pushes + 1
  /\ Reply("push", 0, NoUser, {})
  /\ UNCHANGED <<menuVars, io, userVars, rwsem, link, toServer, sessions>>

(* The connection ends.  What the server sent last may be lost; TcpClient  *)
(* does not connect again.                                                 *)
Break ==
  /\ link = "up" /\ link' = "down"
  /\ toServer' = <<>> /\ sessions' = {}
  /\ \E n \in 0..Len(toClient) : toClient' = SubSeq(toClient, 1, n)
  /\ UNCHANGED <<menuVars, io, userVars, rwsem, pushes>>

(* The two ways to stop: the process has ended, or the menu thread waits   *)
(* for an answer that the broken connection did not bring.                 *)
Stopped ==
  /\ \/ ui \in Ended
     \/ ui \in {"wait", "waitreg"} /\ rwsem = 0 /\ io = "poll" /\ link = "down" /\ toClient = <<>>
  /\ UNCHANGED vars

MenuThread ==
  \/ \E u \in Users : SendLogin(u)
  \/ SendRegister
  \/ ClearFlag
  \/ WaitLogin
  \/ WaitRegister
  \/ CheckFlag
  \/ Command
  \/ Logout
  \/ Quit

LoopThread ==
  \/ HandleLoginAck
  \/ HandleRegisterAck
  \/ ShowMessage
  \/ SemPost

Server ==
  \/ ServerGrants
  \/ ServerRefuses
  \/ ServerRegisters
  \/ ServerServes
  \/ ServerLogsOut

Next ==
  \/ MenuThread
  \/ LoopThread
  \/ ReadNotOneMessage
  \/ Server
  \/ Push
  \/ Break
  \/ Stopped

Spec == Init /\ [][Next]_vars

(* The menu thread runs when nothing but the scheduler holds it up (a      *)
(* person need not choose anything), the loop thread and the server handle *)
(* what has arrived.                                                       *)
Fairness ==
  /\ WF_vars(ClearFlag \/ WaitLogin \/ WaitRegister \/ CheckFlag)
  /\ WF_vars(LoopThread)
  /\ WF_vars(Server)

FairSpec == Spec /\ Fairness

-----------------------------------------------------------------------------
(* Properties                                                              *)

(* The chat menu is shown only to a user whose login the server granted on *)
(* this connection and has not ended.                                      *)
MenuMeansGranted == ui = "main" /\ link = "up" => currentUser \in sessions

(* Every command and logout that reaches the server is in the name of an   *)
(* account that the server granted on this connection: what ChatService    *)
(* assumes of its clients.                                                 *)
RequestsFitSession ==
  toServer # <<>> /\ Head(toServer).kind \in {"command", "logout"}
    => Head(toServer).id \in sessions

(* The positions of what brings, or will bring, a token of rwsem.          *)
Awaited(queue) == {i \in DOMAIN queue : queue[i].kind \in {"login", "register"}}
Asked == Awaited(toServer)
Replies == Awaited(toClient)
Outstanding == Cardinality(Asked) + Cardinality(Replies) + (IF io = "post" THEN 1 ELSE 0) + rwsem

(* The menu thread waits for exactly the one answer that is on its way:    *)
(* a stray token would let the next login go on before its answer.         *)
OneAnswerPerWait ==
  LET waits == IF ui \in {"sent", "wait", "waitreg"} THEN 1 ELSE 0 IN
  /\ ui \notin Ended => Outstanding <= waits
  /\ link = "up" => Outstanding = waits

(* While the menu thread reads the current user for its commands the loop  *)
(* thread does not write it: g_currentUser and the lists have no lock.     *)
UserStableInMenu == [][ui = "main" /\ ui' = "main" => UNCHANGED <<currentUser, listOwner>>]_vars

(* A person who waits for an answer gets on, unless the connection broke   *)
(* or the process ended.                                                   *)
WaitEnds == ui \in {"wait", "waitreg"} ~> ui \notin {"wait", "waitreg"} \/ link = "down"
=============================================================================
