-------------------------- MODULE ChatClientProofs --------------------------
(***************************************************************************)
(* Theorems about ChatClient for any number of users, questions, commands  *)
(* and pushes.                                                             *)
(***************************************************************************)
EXTENDS ChatClient, FiniteSetTheorems, TLAPS

(* Where the one answer that the menu thread waits for can be: with the    *)
(* server, as the last request; in the channel back; about to be posted;   *)
(* a token.  A broken connection may have lost it.                         *)
Still == io = "poll" /\ rwsem = 0
Nothing == Asked = {} /\ Replies = {} /\ Still
AtServer == toServer # <<>> /\ Asked = {Len(toServer)} /\ Replies = {} /\ Still
InChannel == toServer = <<>> /\ (\E i \in DOMAIN toClient : Replies = {i}) /\ Still
BeingPosted == toServer = <<>> /\ Replies = {} /\ io = "post" /\ rwsem = 0
Posted == toServer = <<>> /\ Replies = {} /\ io = "poll" /\ rwsem = 1
Lost == link = "down" /\ Nothing

Waits == ui \in {"sent", "wait", "waitreg"}

PendingInv ==
  /\ link = "down" => toServer = <<>>
  /\ ui \in Ended => link = "down"
  /\ ui \notin Ended /\ ~Waits => Nothing
  /\ Waits => AtServer \/ InChannel \/ BeingPosted \/ Posted \/ Lost

(* What the server knows of this client fits what the client will ask.     *)
Unlogged == \A i \in DOMAIN toServer : toServer[i].kind # "logout"
InName ==
  \A i \in DOMAIN toServer : toServer[i].kind \in {"command", "logout"}
    => toServer[i].id = currentUser /\ currentUser \in sessions
LogoutLast ==
  \A i, j \in DOMAIN toServer : toServer[i].kind = "logout" /\ i < j => j \in Asked
GrantsKept ==
  \A i \in DOMAIN toClient : toClient[i].kind = "login" /\ toClient[i].errno = 0 /\ link = "up"
    => toClient[i].id \in sessions
FlagMeansGranted ==
  ui \in {"wait", "woken"} /\ loginSuccess /\ link = "up"
    => currentUser \in sessions /\ toServer = <<>>
SessionInv ==
  /\ InName /\ LogoutLast /\ GrantsKept /\ FlagMeansGranted /\ MenuMeansGranted
  /\ ui = "main" => Unlogged

-----------------------------------------------------------------------------
(* Positions in a queue that grows, shrinks or is cut.                     *)

(* A request or an answer joins the end of its queue.                      *)
LEMMA AwaitedAppend ==
  ASSUME NEW S, NEW q \in Seq(S), NEW m \in S
  PROVE  /\ Append(q, m) \in Seq(S)
         /\ Append(q, m) # <<>>
         /\ Len(Append(q, m)) = Len(q) + 1
         /\ m.kind \in {"login", "register"} => Awaited(Append(q, m)) = Awaited(q) \cup {Len(q) + 1}
         /\ m.kind \notin {"login", "register"} => Awaited(Append(q, m)) = Awaited(q)
<1> DEFINE n == Len(q)
           a == Append(q, m)
<1>1. /\ a \in Seq(S) /\ Len(a) = n + 1 /\ n \in Nat /\ a # <<>>
      /\ DOMAIN q = 1..n /\ DOMAIN a = 1..n+1
      /\ a[n+1] = m /\ \A i \in 1..n : a[i] = q[i]
  OBVIOUS
<1>2. \A i \in DOMAIN a : i \in DOMAIN q \/ i = n + 1
  BY <1>1
<1>3. ASSUME m.kind \in {"login", "register"} PROVE Awaited(a) = Awaited(q) \cup {n + 1}
  BY <1>1, <1>2, <1>3 DEF Awaited
<1>4. ASSUME m.kind \notin {"login", "register"} PROVE Awaited(a) = Awaited(q)
  BY <1>1, <1>2, <1>4 DEF Awaited
<1> QED
  BY <1>1, <1>3, <1>4

(* The first one leaves: the others move up.                               *)
LEMMA AwaitedTail ==
  ASSUME NEW S, NEW q \in Seq(S), q # <<>>
  PROVE  /\ Tail(q) \in Seq(S) /\ Head(q) \in S /\ Head(q) = q[1] /\ 1 \in DOMAIN q
         /\ Len(q) \in Nat /\ Len(q) > 0 /\ Len(Tail(q)) = Len(q) - 1
         /\ \A i \in DOMAIN Tail(q) : i + 1 \in DOMAIN q /\ Tail(q)[i] = q[i+1]
         /\ \A i : i \in Awaited(Tail(q)) <=> i \in Nat \ {0} /\ i + 1 \in Awaited(q)
         /\ 1 \in Awaited(q) <=> Head(q).kind \in {"login", "register"}
<1>1. /\ Tail(q) \in Seq(S) /\ Head(q) \in S /\ Head(q) = q[1] /\ 1 \in DOMAIN q
      /\ Len(q) \in Nat /\ Len(q) > 0 /\ Len(Tail(q)) = Len(q) - 1
      /\ DOMAIN q = 1..Len(q) /\ DOMAIN Tail(q) = 1..Len(q)-1
      /\ \A i \in 1..Len(q)-1 : Tail(q)[i] = q[i+1]
  OBVIOUS
<1>2. \A i \in 1..Len(q)-1 : i + 1 \in 1..Len(q) /\ i \in Nat \ {0}
  BY <1>1
<1>3. \A i \in Nat \ {0} : i + 1 \in 1..Len(q) => i \in 1..Len(q)-1
  BY <1>1
<1>4. \A i : i \in Awaited(Tail(q)) <=> i \in Nat \ {0} /\ i + 1 \in Awaited(q)
  BY <1>1, <1>2, <1>3 DEF Awaited
<1>5. 1 \in Awaited(q) <=> Head(q).kind \in {"login", "register"}
  BY <1>1 DEF Awaited
<1> QED
  BY <1>1, <1>2, <1>4, <1>5

(* So when there is one, either it is the one that left or it still is the *)
(* only one.                                                               *)
LEMMA AwaitedTailOne ==
  ASSUME NEW S, NEW q \in Seq(S), q # <<>>
  PROVE  /\ Awaited(q) = {} => Awaited(Tail(q)) = {} /\ Head(q).kind \notin {"login", "register"}
         /\ \A k \in DOMAIN q : Awaited(q) = {k} /\ Head(q).kind \in {"login", "register"}
              => k = 1 /\ Awaited(Tail(q)) = {}
         /\ \A k \in DOMAIN q : Awaited(q) = {k} /\ Head(q).kind \notin {"login", "register"}
              => k - 1 \in DOMAIN Tail(q) /\ Awaited(Tail(q)) = {k - 1}
<1> USE AwaitedTail
<1>1. ASSUME Awaited(q) = {}
      PROVE  Awaited(Tail(q)) = {} /\ Head(q).kind \notin {"login", "register"}
  BY <1>1
<1>2. ASSUME NEW k \in DOMAIN q, Awaited(q) = {k}, Head(q).kind \in {"login", "register"}
      PROVE  k = 1 /\ Awaited(Tail(q)) = {}
  <2>1. k = 1
    BY <1>2
  <2>2. \A i \in Nat \ {0} : i + 1 # 1
    OBVIOUS
  <2> QED
    BY <1>2, <2>1, <2>2
<1>3. ASSUME NEW k \in DOMAIN q, Awaited(q) = {k}, Head(q).kind \notin {"login", "register"}
      PROVE  k - 1 \in DOMAIN Tail(q) /\ Awaited(Tail(q)) = {k - 1}
  <2>1. k # 1 /\ k \in 1..Len(q)
    BY <1>3
  <2>2. k - 1 \in Nat \ {0} /\ (k - 1) + 1 = k /\ k - 1 \in 1..Len(q)-1
    BY <2>1
  <2>3. \A i \in Nat \ {0} : i + 1 = k => i = k - 1
    BY <2>2
  <2>4. DOMAIN Tail(q) = 1..Len(q)-1
    BY DEF Awaited
  <2> QED
    BY <1>3, <2>2, <2>3, <2>4
<1> QED
  BY <1>1, <1>2, <1>3

(* What a broken connection still delivers is a beginning of the channel.  *)
LEMMA AwaitedCut ==
  ASSUME NEW S, NEW q \in Seq(S), NEW n \in 0..Len(q)
  PROVE  /\ SubSeq(q, 1, n) \in Seq(S)
         /\ DOMAIN SubSeq(q, 1, n) \subseteq DOMAIN q
         /\ Awaited(SubSeq(q, 1, n)) = Awaited(q) \cap DOMAIN SubSeq(q, 1, n)
<1>1. /\ Len(q) \in Nat /\ DOMAIN q = 1..Len(q) /\ n \in Nat /\ n <= Len(q)
      /\ SubSeq(q, 1, n) = [i \in 1..n |-> q[i]]
  OBVIOUS
<1>2. 1..n \subseteq 1..Len(q) /\ \A i \in 1..Len(q) : q[i] \in S
  BY <1>1
<1>3. [i \in 1..n |-> q[i]] \in Seq(S)
  BY <1>1, <1>2
<1> QED
  BY <1>1, <1>2, <1>3 DEF Awaited

-----------------------------------------------------------------------------
(* What the menu thread sends is a request, and what the server answers is *)
(* an answer.                                                              *)
LEMMA Requests ==
  /\ \A u \in Users : [kind |-> "login", id |-> u] \in Request
  /\ \A k \in {"command", "logout"}, u \in Users \cup {NoUser} : [kind |-> k, id |-> u] \in Request
  /\ [kind |-> "register", id |-> NoUser] \in Request
  /\ \A r \in Request : r.kind = "login" => r.id \in Users
  /\ \A r \in Request : r.id \in Users \cup {NoUser} /\ r.kind \in {"login", "command", "logout", "register"}
BY DEF Request

LEMMA Answers ==
  /\ \A u \in Users, ls \in SUBSET Lists :
        [kind |-> "login", errno |-> 0, id |-> u, lists |-> ls] \in Answer
  /\ [kind |-> "login", errno |-> 1, id |-> NoUser, lists |-> {}] \in Answer
  /\ \A k \in {"register", "push"}, e \in {0, 1} :
        [kind |-> k, errno |-> e, id |-> NoUser, lists |-> {}] \in Answer
  /\ \A a \in Answer : /\ a.errno \in {0, 1} /\ a.lists \in SUBSET Lists /\ a.id \in Users \cup {NoUser}
                        /\ a.kind \in {"login", "register", "push"}
BY DEF Answer

(* A started client is well typed and waits for nothing ...                *)
LEMMA TypeInit == Init => TypeOK /\ PendingInv
<1> SUFFICES ASSUME Init PROVE TypeOK /\ PendingInv
  OBVIOUS
<1>1. toServer \in Seq(Request) /\ toClient \in Seq(Answer)
  BY DEF Init
<1>2. TypeOK
  <2>1. 0 \in 0..MaxAsks /\ 0 \in 0..MaxCommands /\ 0 \in 0..MaxPushes
    BY ChatClientAssumption
  <2>2. listOwner \in [Lists -> Users \cup {NoUser}] /\ currentUser \in Users \cup {NoUser}
    BY DEF Init
  <2>3. asks = 0 /\ commands = 0 /\ pushes = 0 /\ sessions = {}
    BY DEF Init
  <2> QED
    BY <1>1, <2>1, <2>2, <2>3 DEF Init, TypeOK, MenuSteps
<1>3. Asked = {} /\ Replies = {}
  BY DEF Init, Asked, Replies, Awaited
<1> QED
  BY <1>2, <1>3 DEF Init, PendingInv, Waits, Nothing, Still, Ended

(* Sending is typed, and adds at most one request that is answered.        *)
LEMMA SendFacts ==
  ASSUME TypeOK, NEW r \in Request, Send(r)
  PROVE  /\ toServer' \in Seq(Request)
         /\ link = "down" => toServer' = toServer /\ Asked' = Asked
         /\ link = "up" => toServer' = Append(toServer, r) /\ toServer' # <<>>
         /\ link = "up" /\ r.kind \in {"login", "register"} => Asked' = Asked \cup {Len(toServer')}
         /\ r.kind \notin {"login", "register"} => Asked' = Asked
         /\ UNCHANGED <<link, toClient, sessions, pushes, Replies>>
<1>1. toServer \in Seq(Request)
  BY DEF TypeOK
<1> QED
  BY <1>1, AwaitedAppend DEF Send, Asked, Replies

(* ... and so is what each step of it leaves: types first.                 *)
LEMMA TypeNext == TypeOK /\ PendingInv /\ [Next]_vars => TypeOK'
<1> SUFFICES ASSUME TypeOK, PendingInv, [Next]_vars PROVE TypeOK'
  OBVIOUS
<1> USE ChatClientAssumption DEF TypeOK, MenuSteps, Ended, menuVars, userVars, netVars
<1>1. ASSUME NEW u \in Users, SendLogin(u) PROVE TypeOK'
  BY <1>1, SendFacts, Requests DEF SendLogin, Ask, Send
<1>2. CASE SendRegister
  BY <1>2, SendFacts, Requests DEF SendRegister, Ask, Send
<1>3. CASE ClearFlag \/ CheckFlag
  BY <1>3 DEF ClearFlag, CheckFlag
<1>12. CASE Quit \/ ReadNotOneMessage
  <2>1. <<>> \in Seq(Request) /\ <<>> \in Seq(Answer)
    OBVIOUS
  <2> QED
    BY <1>12, <2>1 DEF Quit, ReadNotOneMessage, End
<1>4. CASE WaitLogin \/ WaitRegister
  BY <1>4 DEF WaitLogin, WaitRegister, SemWait
<1>5. CASE Command
  BY <1>5, SendFacts, Requests DEF Command, Send
<1>6. CASE Logout
  BY <1>6, SendFacts, Requests DEF Logout, Send
<1>7. CASE LoopThread
  <2>1. ASSUME toClient # <<>> PROVE Tail(toClient) \in Seq(Answer) /\ Head(toClient) \in Answer
    BY <2>1
  <2>2. CASE HandleLoginAck
    <3>1. /\ toClient' \in Seq(Answer) /\ Head(toClient) \in Answer
          /\ UNCHANGED <<menuVars, rwsem, link, toServer, sessions, pushes>> /\ io' = "post"
      BY <2>1, <2>2 DEF HandleLoginAck, Read
    <3>2. /\ loginSuccess' \in BOOLEAN /\ currentUser' \in Users \cup {NoUser}
          /\ listOwner' \in [Lists -> Users \cup {NoUser}]
      BY <2>2, <3>1, Answers DEF HandleLoginAck, DoLoginResponse, RecordUser
    <3> QED
      BY <3>1, <3>2
  <2>3. CASE HandleRegisterAck \/ ShowMessage
    BY <2>1, <2>3 DEF HandleRegisterAck, ShowMessage, Read
  <2>4. CASE SemPost
    <3>1. rwsem = 0
      BY <2>4 DEF SemPost, PendingInv, Waits, Nothing, Still, AtServer, InChannel, BeingPosted, Posted, Lost
    <3> QED
      BY <2>4, <3>1 DEF SemPost
  <2> QED
    BY <1>7, <2>2, <2>3, <2>4 DEF LoopThread
<1>8. CASE Server
  <2>1. ASSUME NEW k, Take(k)
        PROVE  /\ Tail(toServer) \in Seq(Request) /\ Head(toServer) \in Request
               /\ toServer' = Tail(toServer) /\ Head(toServer).kind = k
               /\ UNCHANGED <<menuVars, io, userVars, rwsem, link, pushes>>
    BY <2>1 DEF Take
  <2>2. ASSUME NEW a \in Answer, toClient' = Append(toClient, a) PROVE toClient' \in Seq(Answer)
    BY <2>2
  <2>3. CASE ServerGrants
    <3>1. Head(toServer).id \in Users
      BY <2>1, <2>3, Requests DEF ServerGrants
    <3> QED
      BY <2>1, <2>2, <2>3, <3>1, Answers DEF ServerGrants, Reply
  <2>4. CASE ServerRefuses
    BY <2>1, <2>2, <2>4, Answers DEF ServerRefuses, Reply
  <2>5. CASE ServerRegisters
    BY <2>1, <2>2, <2>5, Answers DEF ServerRegisters, Reply
  <2>6. CASE ServerServes \/ ServerLogsOut
    BY <2>1, <2>6 DEF ServerServes, ServerLogsOut
  <2> QED
    BY <1>8, <2>3, <2>4, <2>5, <2>6 DEF Server
<1>9. CASE Push
  <2>1. toClient' \in Seq(Answer)
    BY <1>9, Answers DEF Push, Reply
  <2> QED
    BY <1>9, <2>1 DEF Push
<1>10. CASE Break
  <2>1. toClient' \in Seq(Answer)
    BY <1>10, AwaitedCut DEF Break
  <2> QED
    BY <1>10, <2>1 DEF Break
<1>11. CASE UNCHANGED vars
  BY <1>11 DEF vars
<1> QED
  BY <1>1, <1>2, <1>3, <1>4, <1>5, <1>6, <1>7, <1>8, <1>9, <1>10, <1>11, <1>12
     DEF Next, MenuThread, Stopped

(* The server takes its first request: an expected answer leaves Asked.    *)
LEMMA TakeFacts ==
  ASSUME TypeOK, NEW k \in {"login", "register", "command", "logout"}, Take(k)
  PROVE  /\ toServer' = Tail(toServer) /\ link = "up" /\ toServer # <<>>
         /\ UNCHANGED <<ui, io, loginSuccess, currentUser, listOwner, rwsem, link>>
         /\ Asked = {} => Asked' = {} /\ k \in {"command", "logout"}
         /\ Asked = {Len(toServer)} /\ k \in {"login", "register"}
              => toServer' = <<>> /\ Asked' = {}
         /\ Asked = {Len(toServer)} /\ k \in {"command", "logout"}
              => toServer' # <<>> /\ Asked' = {Len(toServer')}
<1>1. /\ toServer \in Seq(Request) /\ toServer # <<>> /\ toServer' = Tail(toServer)
      /\ Head(toServer).kind = k /\ link = "up"
      /\ UNCHANGED <<ui, io, loginSuccess, currentUser, listOwner, rwsem, link>>
  BY DEF Take, TypeOK, menuVars, userVars
<1>2. Asked = Awaited(toServer) /\ Asked' = Awaited(Tail(toServer))
  BY <1>1 DEF Asked, Awaited
<1>3. /\ Len(toServer) \in DOMAIN toServer /\ Len(toServer) \in Nat /\ Len(toServer') = Len(toServer) - 1
      /\ DOMAIN toServer' = 1..Len(toServer') /\ Tail(toServer) \in Seq(Request)
  BY <1>1
<1>4. ASSUME Asked = {} PROVE Asked' = {} /\ k \in {"command", "logout"}
  BY <1>1, <1>2, <1>4, AwaitedTailOne
<1>5. ASSUME Asked = {Len(toServer)}, k \in {"login", "register"}
      PROVE  toServer' = <<>> /\ Asked' = {}
  <2>1. Len(toServer) = 1 /\ Asked' = {}
    BY <1>1, <1>2, <1>3, <1>5, AwaitedTailOne
  <2> QED
    BY <1>1, <1>3, <2>1
<1>6. ASSUME Asked = {Len(toServer)}, k \in {"command", "logout"}
      PROVE  toServer' # <<>> /\ Asked' = {Len(toServer')}
  <2>1. Len(toServer) - 1 \in DOMAIN toServer' /\ Asked' = {Len(toServer) - 1}
    BY <1>1, <1>2, <1>3, <1>6, AwaitedTailOne
  <2> QED
    BY <1>3, <2>1
<1> QED
  BY <1>1, <1>4, <1>5, <1>6

(* The loop thread reads the first answer: an expected one leaves Replies. *)
LEMMA ReadFacts ==
  ASSUME TypeOK, NEW k \in {"login", "register", "push"}, Read(k)
  PROVE  /\ ui \notin Ended /\ io = "poll" /\ toClient # <<>>
         /\ toClient' = Tail(toClient)
         /\ Head(toClient) \in Answer /\ Head(toClient).kind = k
         /\ UNCHANGED <<ui, rwsem, link, toServer, sessions, Asked>>
         /\ Replies = {} => Replies' = {} /\ k = "push"
         /\ k \in {"login", "register"} => \A i \in DOMAIN toClient : Replies = {i} => Replies' = {}
         /\ k = "push" => \A i \in DOMAIN toClient : Replies = {i}
                            => \E j \in DOMAIN toClient' : Replies' = {j}
<1>1. /\ toClient \in Seq(Answer) /\ toClient # <<>> /\ toClient' = Tail(toClient)
      /\ Head(toClient).kind = k /\ Head(toClient) \in Answer /\ ui \notin Ended /\ io = "poll"
      /\ UNCHANGED <<ui, rwsem, link, toServer, sessions>>
  BY DEF Read, TypeOK, menuVars
<1>2. /\ Replies = Awaited(toClient) /\ Replies' = Awaited(Tail(toClient))
      /\ Asked' = Asked
  BY <1>1 DEF Asked, Replies, Awaited
<1>3. Replies = {} => Replies' = {} /\ k = "push"
  BY <1>1, <1>2, AwaitedTailOne
<1>4. ASSUME NEW i \in DOMAIN toClient, Replies = {i}, k \in {"login", "register"} PROVE Replies' = {}
  BY <1>1, <1>2, <1>4, AwaitedTailOne
<1>5. ASSUME NEW i \in DOMAIN toClient, Replies = {i}, k = "push"
      PROVE  \E j \in DOMAIN toClient' : Replies' = {j}
  BY <1>1, <1>2, <1>5, AwaitedTailOne
<1> QED
  BY <1>1, <1>2, <1>3, <1>4, <1>5

(* The server's answer joins the channel.                                  *)
LEMMA ReplyFacts ==
  ASSUME TypeOK, NEW a \in Answer, toClient' = Append(toClient, a)
  PROVE  /\ Replies = {} /\ a.kind \in {"login", "register"}
              => \E i \in DOMAIN toClient' : Replies' = {i}
         /\ a.kind = "push" => Replies' = Replies /\ DOMAIN toClient \subseteq DOMAIN toClient'
<1>1. toClient \in Seq(Answer) /\ Replies = Awaited(toClient) /\ Replies' = Awaited(Append(toClient, a))
  BY DEF TypeOK, Replies, Awaited
<1>2. Len(toClient) + 1 \in DOMAIN toClient' /\ DOMAIN toClient \subseteq DOMAIN toClient'
  BY <1>1
<1> QED
  BY <1>1, <1>2, AwaitedAppend

(* The token goes round: each step of the three parties moves it to its    *)
(* next place, and a new question is asked only when there is none.        *)
LEMMA PendingNext == TypeOK /\ PendingInv /\ [Next]_vars => PendingInv'
<1> SUFFICES ASSUME TypeOK, PendingInv, [Next]_vars PROVE PendingInv'
  OBVIOUS
<1> USE DEF PendingInv, Waits, Ended
<1>1. ASSUME NEW r \in Request, NEW next \in {"sent", "waitreg"}, Ask(r, next),
             r.kind \in {"login", "register"}
      PROVE  PendingInv'
  <2>1. /\ ui = "start" /\ ui' = next /\ UNCHANGED <<io, rwsem>> /\ Nothing
        /\ UNCHANGED <<link, Replies>>
        /\ link = "down" => toServer' = toServer /\ Asked' = Asked
        /\ link = "up" => toServer' # <<>> /\ Asked' = Asked \cup {Len(toServer')}
    BY <1>1, SendFacts DEF Ask
  <2>2. link \in {"up", "down"}
    BY DEF TypeOK
  <2>3. AtServer' \/ Lost'
    BY <2>1, <2>2 DEF Nothing, AtServer, Lost, Still
  <2> QED
    BY <2>1, <2>3
<1>2. CASE ClearFlag \/ CheckFlag \/ UNCHANGED vars
  <2>1. UNCHANGED <<io, rwsem, link, toServer, toClient, Asked, Replies>>
    BY <1>2 DEF ClearFlag, CheckFlag, vars, netVars, Asked, Replies
  <2>2. \/ ui = "sent" /\ ui' = "wait"
        \/ ui = "woken" /\ ui' \in {"main", "start"}
        \/ ui' = ui
    BY <1>2 DEF ClearFlag, CheckFlag, vars, menuVars
  <2> QED
    BY <2>1, <2>2 DEF Nothing, AtServer, InChannel, BeingPosted, Posted, Lost, Still
<1>3. ASSUME NEW from \in {"wait", "waitreg"}, NEW to \in {"woken", "start"}, SemWait(from, to)
      PROVE  PendingInv'
  <2>1. /\ UNCHANGED <<io, link, toServer, toClient, Asked, Replies>>
        /\ ui = from /\ ui' = to /\ rwsem > 0 /\ rwsem' = rwsem - 1
    BY <1>3 DEF SemWait, netVars, Asked, Replies
  <2>2. Posted
    BY <2>1 DEF Nothing, AtServer, InChannel, BeingPosted, Lost, Still
  <2>3. Asked = {}
    BY <2>2 DEF Posted, Asked, Awaited
  <2> QED
    BY <2>1, <2>2, <2>3 DEF Posted, Nothing, Still
<1>4. ASSUME NEW r \in Request, Send(r), r.kind \in {"command", "logout"}, ui = "main",
             ui' \in {"main", "start"}, UNCHANGED <<io, rwsem>>
      PROVE  PendingInv'
  <2>1. /\ UNCHANGED <<link, Replies, Asked>>
        /\ link = "down" => toServer' = toServer
    BY <1>4, SendFacts
  <2> QED
    BY <1>4, <2>1 DEF Nothing, Still
<1>5. CASE Quit \/ ReadNotOneMessage
  BY <1>5 DEF Quit, ReadNotOneMessage, End
<1>6. CASE HandleLoginAck \/ HandleRegisterAck
  <2>1. PICK k \in {"login", "register"} : Read(k) /\ io' = "post"
    BY <1>6 DEF HandleLoginAck, HandleRegisterAck
  <2>2. InChannel
    BY <2>1, ReadFacts DEF Nothing, AtServer, BeingPosted, Posted, Lost, Still
  <2>3. BeingPosted' /\ UNCHANGED <<ui, link, toServer>>
    BY <2>1, <2>2, ReadFacts DEF InChannel, BeingPosted, Still
  <2> QED
    BY <2>2, <2>3 DEF InChannel, Nothing, Still
<1>7. CASE ShowMessage
  <2>1. Read("push") /\ UNCHANGED io
    BY <1>7 DEF ShowMessage
  <2>2. /\ UNCHANGED <<ui, rwsem, link, toServer, Asked, io>>
        /\ Replies = {} => Replies' = {}
        /\ \A i \in DOMAIN toClient : Replies = {i} => \E j \in DOMAIN toClient' : Replies' = {j}
    BY <2>1, ReadFacts
  <2>3. InChannel => InChannel'
    BY <2>2 DEF InChannel, Still
  <2> QED
    BY <2>2, <2>3 DEF Nothing, AtServer, BeingPosted, Posted, Lost, Still
<1>8. CASE SemPost
  <2>1. /\ io = "post" /\ io' = "poll" /\ rwsem' = rwsem + 1
        /\ UNCHANGED <<ui, link, toServer, Asked, Replies>>
    BY <1>8 DEF SemPost, menuVars, netVars, Asked, Replies
  <2>2. BeingPosted \/ ui \in Ended
    BY <1>8, <2>1 DEF SemPost, Nothing, AtServer, InChannel, Posted, Lost, Still
  <2>3. ui \notin Ended
    BY <1>8 DEF SemPost
  <2>4. Posted'
    BY <2>1, <2>2, <2>3 DEF BeingPosted, Posted
  <2> QED
    BY <2>1, <2>2, <2>3, <2>4 DEF BeingPosted, Nothing, Still
<1>9. ASSUME NEW k \in {"login", "register"}, Take(k), NEW a \in Answer,
             toClient' = Append(toClient, a), a.kind \in {"login", "register"}
      PROVE  PendingInv'
  <2>1. AtServer
    <3>1. toServer # <<>> /\ Asked # {} /\ link = "up"
      BY <1>9, TakeFacts
    <3> QED
      BY <3>1 DEF Nothing, InChannel, BeingPosted, Posted, Lost
  <2>2. toServer' = <<>> /\ UNCHANGED <<ui, io, rwsem, link>> /\ link = "up"
    BY <1>9, <2>1, TakeFacts DEF AtServer
  <2>3. InChannel'
    BY <1>9, <2>1, <2>2, ReplyFacts DEF AtServer, InChannel, Still
  <2>4. Waits
    BY <2>1, <2>2 DEF AtServer, Nothing
  <2> QED
    BY <2>2, <2>3, <2>4
<1>10. CASE ServerServes \/ ServerLogsOut
  <2>1. PICK k \in {"command", "logout"} : Take(k) /\ UNCHANGED toClient
    BY <1>10 DEF ServerServes, ServerLogsOut
  <2>2. /\ UNCHANGED <<ui, io, rwsem, link, Replies>> /\ toServer # <<>> /\ link = "up"
        /\ Asked = {} => Asked' = {}
        /\ Asked = {Len(toServer)} => toServer' # <<>> /\ Asked' = {Len(toServer')}
    BY <2>1, TakeFacts DEF Replies
  <2>3. AtServer => AtServer'
    BY <2>2 DEF AtServer, Still
  <2>4. Nothing => Nothing'
    BY <2>2 DEF Nothing, Still
  <2>5. ~(InChannel \/ BeingPosted \/ Posted \/ Lost)
    BY <2>2 DEF InChannel, BeingPosted, Posted, Lost
  <2> QED
    BY <2>2, <2>3, <2>4, <2>5
<1>11. CASE Push
  <2>1. PICK a \in Answer : toClient' = Append(toClient, a) /\ a.kind = "push"
    BY <1>11, Answers DEF Push, Reply
  <2>2. Replies' = Replies /\ DOMAIN toClient \subseteq DOMAIN toClient'
    BY <2>1, ReplyFacts
  <2>3. UNCHANGED <<ui, io, rwsem, link, toServer, Asked>>
    BY <1>11 DEF Push, menuVars, Asked
  <2> QED
    BY <2>2, <2>3 DEF Nothing, AtServer, InChannel, BeingPosted, Posted, Lost, Still
<1>12. CASE Break
  <2>1. PICK n \in 0..Len(toClient) : toClient' = SubSeq(toClient, 1, n)
    BY <1>12 DEF Break
  <2>2. toClient \in Seq(Answer) /\ Replies' = Replies \cap DOMAIN toClient'
    BY <2>1, AwaitedCut DEF TypeOK, Replies, Awaited
  <2>3. /\ link' = "down" /\ toServer' = <<>> /\ Asked' = {} /\ UNCHANGED <<ui, io, rwsem>>
        /\ link = "up"
    BY <1>12 DEF Break, menuVars, Asked, Awaited
  <2>4. /\ Replies = {} => Replies' = {}
        /\ (\E i \in DOMAIN toClient : Replies = {i})
             => Replies' = {} \/ \E i \in DOMAIN toClient' : Replies' = {i}
    <3>1. ASSUME NEW i, Replies = {i}
          PROVE  Replies' = {} \/ (i \in DOMAIN toClient' /\ Replies' = {i})
      <4>1. CASE i \in DOMAIN toClient'
        BY <2>2, <3>1, <4>1
      <4>2. CASE i \notin DOMAIN toClient'
        BY <2>2, <3>1, <4>2
      <4> QED
        BY <4>1, <4>2
    <3>2. Replies = {} => Replies' = {}
      BY <2>2
    <3> QED
      BY <3>1, <3>2
  <2>5. Nothing => Lost'
    BY <2>3, <2>4 DEF Nothing, Lost, Still
  <2>6. AtServer => Lost'
    BY <2>3, <2>4 DEF AtServer, Nothing, Lost, Still
  <2>7. InChannel => InChannel' \/ Lost'
    BY <2>3, <2>4 DEF InChannel, Nothing, Lost, Still
  <2>8. (BeingPosted => BeingPosted') /\ (Posted => Posted') /\ ~Lost
    BY <2>3, <2>4 DEF BeingPosted, Posted, Lost
  <2> QED
    BY <2>3, <2>5, <2>6, <2>7, <2>8 DEF Lost
<1>13. CASE MenuThread
  <2>1. CASE (\E u \in Users : SendLogin(u)) \/ SendRegister
    BY <2>1, <1>1, Requests DEF SendLogin, SendRegister
  <2>2. CASE WaitLogin \/ WaitRegister
    BY <2>2, <1>3 DEF WaitLogin, WaitRegister
  <2>3. CASE Command \/ Logout
    <3>1. \A k \in {"command", "logout"} : [kind |-> k, id |-> currentUser] \in Request
      BY Requests DEF TypeOK
    <3> QED
      BY <2>3, <3>1, <1>4 DEF Command, Logout
  <2> QED
    BY <1>13, <2>1, <2>2, <2>3, <1>2, <1>5 DEF MenuThread
<1>14. CASE ServerGrants \/ ServerRefuses \/ ServerRegisters
  <2>1. CASE ServerGrants
    <3>1. Take("login") /\ toServer \in Seq(Request) /\ toServer # <<>> /\ Head(toServer).kind = "login"
      BY <2>1 DEF ServerGrants, Take, TypeOK
    <3>2. Head(toServer).id \in Users
      BY <3>1, Requests
    <3>3. PICK ls \in SUBSET Lists : Reply("login", 0, Head(toServer).id, ls)
      BY <2>1 DEF ServerGrants
    <3> QED
      BY <3>1, <3>2, <3>3, <1>9, Answers DEF Reply
  <2>2. CASE ServerRefuses
    BY <2>2, <1>9, Answers DEF ServerRefuses, Reply
  <2>3. CASE ServerRegisters
    BY <2>3, <1>9, Answers DEF ServerRegisters, Reply
  <2> QED
    BY <1>14, <2>1, <2>2, <2>3
<1> QED
  BY <1>2, <1>5, <1>6, <1>7, <1>8, <1>10, <1>11, <1>12, <1>13, <1>14
     DEF Next, LoopThread, Server, Stopped

(* Types and the way of the token are an invariant together: that rwsem is *)
(* at most one needs the token.                                            *)
LEMMA PendingCorrect == Spec => [](TypeOK /\ PendingInv)
BY TypeInit, TypeNext, PendingNext, PTL DEF Spec

(* The client's state is well typed; in particular rwsem is never above 1. *)
THEOREM ClientTypeCorrect == Spec => []TypeOK
BY PendingCorrect, PTL

(* The menu thread waits for exactly the one answer that is on its way,    *)
(* whatever was asked, pushed, refused or lost before.                     *)
THEOREM OneAnswer == Spec => []OneAnswerPerWait
<1>1. TypeOK /\ PendingInv => OneAnswerPerWait
  <2> SUFFICES ASSUME TypeOK, PendingInv PROVE OneAnswerPerWait
    OBVIOUS
  <2>1. Cardinality({}) = 0
    BY FS_EmptySet
  <2>2. \A i : Cardinality({i}) = 1
    BY FS_Singleton
  <2>12. /\ Asked = {} => Cardinality(Asked) = 0
         /\ Replies = {} => Cardinality(Replies) = 0
         /\ \A i : Asked = {i} => Cardinality(Asked) = 1
         /\ \A i : Replies = {i} => Cardinality(Replies) = 1
    BY <2>1, <2>2, Zenon
  <2>3. Nothing => Outstanding = 0
    BY <2>12 DEF Nothing, Outstanding, Still
  <2>4. AtServer => Outstanding = 1
    <3>1. AtServer => Cardinality(Asked) = 1 /\ Cardinality(Replies) = 0 /\ Still
      BY <2>12, Zenon DEF AtServer
    <3> QED
      BY <3>1 DEF Outstanding, Still
  <2>5. toServer = <<>> => Asked = {}
    BY DEF Asked, Awaited
  <2>6. InChannel => Outstanding = 1
    <3>1. InChannel => Cardinality(Asked) = 0 /\ Cardinality(Replies) = 1 /\ Still
      BY <2>12, <2>5, Zenon DEF InChannel
    <3> QED
      BY <3>1 DEF Outstanding, Still
  <2>7. BeingPosted \/ Posted => Outstanding = 1
    BY <2>12, <2>5 DEF BeingPosted, Posted, Outstanding
  <2>8. Lost => Outstanding = 0 /\ link # "up"
    BY <2>3 DEF Lost
  <2>9. link = "up" => ui \notin Ended
    BY DEF PendingInv
  <2>10. CASE Waits
    BY <2>4, <2>6, <2>7, <2>8, <2>10 DEF PendingInv, Waits, OneAnswerPerWait
  <2>11. CASE ~Waits
    BY <2>3, <2>9, <2>11 DEF PendingInv, Waits, OneAnswerPerWait
  <2> QED
    BY <2>10, <2>11
<1> QED
  BY <1>1, PendingCorrect, PTL

(* In the menu no login answer can be on its way, so the loop thread does  *)
(* not write the user's data while the menu thread reads it.               *)
THEOREM UserStable == Spec => UserStableInMenu
<1>1. TypeOK /\ PendingInv /\ [Next]_vars
        => [ui = "main" /\ ui' = "main" => UNCHANGED <<currentUser, listOwner>>]_vars
  <2> SUFFICES ASSUME TypeOK, PendingInv, [Next]_vars, ui = "main", ui' = "main"
               PROVE  UNCHANGED <<currentUser, listOwner>>
    OBVIOUS
  <2>1. ~HandleLoginAck
    <3>1. Nothing
      BY DEF PendingInv, Waits, Ended
    <3>2. HandleLoginAck => Read("login")
      BY DEF HandleLoginAck
    <3> QED
      BY <3>1, <3>2, ReadFacts DEF Nothing
  <2>2. HandleRegisterAck \/ ShowMessage \/ SemPost => UNCHANGED <<currentUser, listOwner>>
    BY DEF HandleRegisterAck, ShowMessage, SemPost, userVars
  <2>3. MenuThread => UNCHANGED <<currentUser, listOwner>>
    BY DEF MenuThread, SendLogin, SendRegister, Ask, ClearFlag, WaitLogin, WaitRegister, SemWait,
           CheckFlag, Command, Logout, Quit, End, userVars
  <2>4. Server \/ Push \/ Break \/ ReadNotOneMessage => UNCHANGED <<currentUser, listOwner>>
    BY DEF Server, ServerGrants, ServerRefuses, ServerRegisters, ServerServes, ServerLogsOut, Take,
           Push, Break, ReadNotOneMessage, End, userVars
  <2>5. Stopped \/ UNCHANGED vars => UNCHANGED <<currentUser, listOwner>>
    BY DEF Stopped, vars, userVars
  <2> QED
    BY <2>1, <2>2, <2>3, <2>4, <2>5 DEF Next, LoopThread
<1> QED
  BY <1>1, PendingCorrect, PTL DEF Spec, UserStableInMenu

-----------------------------------------------------------------------------
(* An element of a longer queue is an old one or the new one.              *)
LEMMA AppendIndices ==
  ASSUME NEW S, NEW q \in Seq(S), NEW m \in S
  PROVE  /\ \A i \in DOMAIN Append(q, m) :
              (i \in DOMAIN q /\ Append(q, m)[i] = q[i]) \/ (i = Len(q) + 1 /\ Append(q, m)[i] = m)
         /\ DOMAIN q = 1..Len(q) /\ Len(q) \in Nat
OBVIOUS

(* A step that leaves the requests, the grants and the user alone, and     *)
(* does not enter the menu, keeps the sessions in order.                   *)
LEMMA SessionKept ==
  ASSUME SessionInv,
         UNCHANGED <<toServer, toClient, sessions, link, currentUser, loginSuccess>>,
         ui' \in {ui, "sent", "waitreg", "start"} \/ (ui = "wait" /\ ui' = "woken")
  PROVE  SessionInv'
BY DEF SessionInv, InName, LogoutLast, GrantsKept, FlagMeansGranted, MenuMeansGranted, Unlogged, Asked, Awaited

(* What the client sends is in the name of the user, or asks.              *)
LEMMA SessionSend ==
  ASSUME TypeOK, PendingInv, SessionInv, NEW r \in Request, Send(r),
         UNCHANGED <<currentUser>>,
         \/ ui = "start" /\ ui' \in {"sent", "waitreg"} /\ r.kind \in {"login", "register"}
         \/ /\ ui = "main" /\ r.id = currentUser
            /\ (r.kind = "command" /\ ui' = "main") \/ (r.kind = "logout" /\ ui' = "start")
  PROVE  SessionInv'
<1>1. /\ UNCHANGED <<link, toClient, sessions>> /\ toServer \in Seq(Request)
      /\ link = "down" => toServer' = toServer /\ toServer = <<>>
      /\ link = "up" => toServer' = Append(toServer, r)
      /\ link \in {"up", "down"}
  BY SendFacts DEF TypeOK, PendingInv
<1>2. GrantsKept' /\ FlagMeansGranted' /\ MenuMeansGranted'
  BY <1>1 DEF SessionInv, GrantsKept, FlagMeansGranted, MenuMeansGranted
<1>3. CASE link = "down"
  BY <1>1, <1>2, <1>3 DEF SessionInv, InName, LogoutLast, Unlogged
<1>4. CASE link = "up"
  <2>1. \A i \in DOMAIN toServer' :
           (i \in DOMAIN toServer /\ toServer'[i] = toServer[i]) \/ (i = Len(toServer) + 1 /\ toServer'[i] = r)
    BY <1>1, <1>4, AppendIndices
  <2>2. DOMAIN toServer = 1..Len(toServer) /\ Len(toServer) \in Nat
    BY <1>1
  <2>3. ui = "main" => currentUser \in sessions
    BY <1>4 DEF SessionInv, MenuMeansGranted
  <2>4. InName'
    BY <1>1, <2>1, <2>3 DEF SessionInv, InName
  <2>5. ui' = "main" => Unlogged'
    BY <2>1 DEF SessionInv, Unlogged
  <2>6. LogoutLast'
    <3> SUFFICES ASSUME NEW i \in DOMAIN toServer', NEW j \in DOMAIN toServer',
                        toServer'[i].kind = "logout", i < j
                 PROVE  j \in Asked'
      BY DEF LogoutLast
    <3>1. i \in DOMAIN toServer /\ toServer'[i] = toServer[i]
      <4>1. i # Len(toServer) + 1
        <5>1. j <= Len(toServer) + 1 /\ j \in Nat
          BY <2>1, <2>2
        <5> QED
          BY <5>1, <2>2
      <4> QED
        BY <4>1, <2>1
    <3>2. ui # "main"
      BY <3>1 DEF SessionInv, Unlogged
    <3>3. CASE j \in DOMAIN toServer /\ toServer'[j] = toServer[j]
      BY <3>1, <3>3 DEF SessionInv, LogoutLast, Asked, Awaited
    <3>4. CASE j = Len(toServer) + 1 /\ toServer'[j] = r
      BY <3>2, <3>4 DEF Asked, Awaited
    <3> QED
      BY <2>1, <3>3, <3>4
  <2> QED
    BY <1>2, <2>4, <2>5, <2>6 DEF SessionInv
<1> QED
  BY <1>1, <1>3, <1>4

(* The server handles a command or a logout: what remains still fits.      *)
LEMMA SessionServe ==
  ASSUME TypeOK, PendingInv, SessionInv, NEW k \in {"command", "logout"}, Take(k),
         UNCHANGED toClient,
         k = "command" => sessions' = sessions,
         k = "logout" => sessions' = sessions \ {Head(toServer).id}
  PROVE  SessionInv'
<1>1. /\ UNCHANGED <<ui, io, loginSuccess, currentUser, rwsem, link>> /\ link = "up"
      /\ toServer' = Tail(toServer) /\ toServer # <<>> /\ toServer \in Seq(Request)
      /\ Head(toServer).kind = k
  BY TakeFacts DEF Take, TypeOK
<1>2. /\ 1 \in DOMAIN toServer /\ toServer[1].kind = k
      /\ \A i \in DOMAIN toServer' : i + 1 \in DOMAIN toServer /\ toServer'[i] = toServer[i+1]
      /\ DOMAIN toServer' \subseteq Nat \ {0}
      /\ \A i \in Nat \ {0} : i + 1 \in Asked => i \in Asked'
  <2>1. \A i : i \in Awaited(Tail(toServer)) <=> i \in Nat \ {0} /\ i + 1 \in Awaited(toServer)
    BY <1>1, AwaitedTail
  <2>2. DOMAIN Tail(toServer) \subseteq Nat \ {0}
    BY <1>1
  <2> QED
    BY <1>1, <2>1, <2>2, AwaitedTail DEF Asked, Awaited
<1>3. LogoutLast'
  <2> SUFFICES ASSUME NEW i \in DOMAIN toServer', NEW j \in DOMAIN toServer',
                      toServer'[i].kind = "logout", i < j
               PROVE  j \in Asked'
    BY DEF LogoutLast
  <2>1. toServer[i+1].kind = "logout" /\ i + 1 < j + 1 /\ i + 1 \in DOMAIN toServer /\ j + 1 \in DOMAIN toServer
    BY <1>2
  <2>2. j + 1 \in Asked
    BY <2>1 DEF SessionInv, LogoutLast
  <2> QED
    BY <1>2, <2>2
<1>4. FlagMeansGranted'
  BY <1>1 DEF SessionInv, FlagMeansGranted
<1>5. CASE k = "command"
  <2>1. InName' /\ GrantsKept' /\ MenuMeansGranted' /\ (ui' = "main" => Unlogged')
    BY <1>1, <1>2, <1>5 DEF SessionInv, InName, GrantsKept, MenuMeansGranted, Unlogged
  <2> QED
    BY <1>3, <1>4, <2>1 DEF SessionInv
<1>6. CASE k = "logout"
  <2>1. ui # "main"
    BY <1>2, <1>6 DEF SessionInv, Unlogged
  <2>2. \A i \in DOMAIN toServer' : toServer'[i].kind \in {"login", "register"}
    <3> SUFFICES ASSUME NEW i \in DOMAIN toServer' PROVE i + 1 \in Asked
      BY <1>2 DEF Asked, Awaited
    <3>1. 1 < i + 1 /\ i + 1 \in DOMAIN toServer
      BY <1>2
    <3> QED
      BY <1>2, <1>6, <3>1 DEF SessionInv, LogoutLast
  <2>3. Replies = {}
    BY <1>1 DEF PendingInv, Nothing, AtServer, InChannel, BeingPosted, Posted, Lost, Ended
  <2>4. GrantsKept'
    BY <1>1, <2>3 DEF GrantsKept, Replies, Awaited
  <2> QED
    BY <1>1, <1>3, <1>4, <2>1, <2>2, <2>4 DEF SessionInv, InName, MenuMeansGranted, Unlogged
<1> QED
  BY <1>5, <1>6

(* An answer or a message joins the channel: what it grants is granted.    *)
LEMMA SessionReply ==
  ASSUME TypeOK, SessionInv, NEW a \in Answer, toClient' = Append(toClient, a),
         a.kind = "login" /\ a.errno = 0 => a.id \in sessions',
         sessions \subseteq sessions',
         toServer' \in {toServer, <<>>},
         UNCHANGED <<ui, link, currentUser, loginSuccess>>
  PROVE  SessionInv'
<1>1. \A i \in DOMAIN toClient' : (i \in DOMAIN toClient /\ toClient'[i] = toClient[i]) \/ toClient'[i] = a
  BY AppendIndices DEF TypeOK
<1>2. GrantsKept'
  BY <1>1 DEF SessionInv, GrantsKept
<1>3. FlagMeansGranted' /\ MenuMeansGranted'
  BY DEF SessionInv, FlagMeansGranted, MenuMeansGranted
<1>4. InName' /\ LogoutLast' /\ (ui' = "main" => Unlogged')
  BY DEF SessionInv, InName, LogoutLast, Unlogged, Asked, Awaited
<1> QED
  BY <1>2, <1>3, <1>4 DEF SessionInv

(* Nothing is sent, granted or shown yet ...                               *)
LEMMA SessionInit == Init => SessionInv
BY DEF Init, SessionInv, InName, LogoutLast, GrantsKept, FlagMeansGranted, MenuMeansGranted, Unlogged

(* ... the answer to a login tells the user whom the server granted ...    *)
LEMMA SessionLogin ==
  ASSUME TypeOK, PendingInv, SessionInv, HandleLoginAck
  PROVE  SessionInv'
<1> DEFINE a == Head(toClient)
<1>1. /\ ui \notin Ended /\ toClient # <<>> /\ toClient \in Seq(Answer) /\ toClient' = Tail(toClient)
      /\ a.kind = "login" /\ UNCHANGED <<ui, link, toServer, sessions>>
  BY ReadFacts DEF HandleLoginAck, TypeOK
<1>2. InChannel
  BY ReadFacts DEF HandleLoginAck, PendingInv, Nothing, AtServer, BeingPosted, Posted, Lost, Still
<1>3. toServer' = <<>> /\ ui' \notin {"main", "woken"}
  BY <1>1, <1>2 DEF InChannel, PendingInv, Waits, Nothing, Ended
<1>4. /\ 1 \in DOMAIN toClient /\ toClient[1] = a
      /\ \A i \in DOMAIN toClient' : i + 1 \in DOMAIN toClient /\ toClient'[i] = toClient[i+1]
  BY <1>1, AwaitedTail
<1>5. GrantsKept'
  BY <1>1, <1>4 DEF SessionInv, GrantsKept
<1>6. loginSuccess' => a.errno = 0 /\ currentUser' = a.id
  BY DEF HandleLoginAck, DoLoginResponse, RecordUser
<1>7. link = "up" /\ loginSuccess' => currentUser' \in sessions
  BY <1>1, <1>4, <1>6 DEF SessionInv, GrantsKept
<1>8. FlagMeansGranted'
  BY <1>1, <1>3, <1>7 DEF FlagMeansGranted
<1> QED
  BY <1>3, <1>5, <1>8 DEF SessionInv, InName, LogoutLast, MenuMeansGranted, Unlogged

(* ... and each other step keeps what the server and the client know of    *)
(* each other in order.                                                    *)
LEMMA SessionNext == TypeOK /\ PendingInv /\ SessionInv /\ [Next]_vars => SessionInv'
<1> SUFFICES ASSUME TypeOK, PendingInv, SessionInv, [Next]_vars PROVE SessionInv'
  OBVIOUS
<1> USE DEF menuVars, userVars, netVars
<1>1. CASE (\E u \in Users : SendLogin(u)) \/ SendRegister
  <2>1. PICK r \in Request, next \in {"sent", "waitreg"} :
          Ask(r, next) /\ r.kind \in {"login", "register"}
    BY <1>1, Requests DEF SendLogin, SendRegister
  <2> QED
    BY <2>1, SessionSend DEF Ask
<1>2. CASE ClearFlag
  BY <1>2 DEF ClearFlag, SessionInv, InName, LogoutLast, GrantsKept, FlagMeansGranted, MenuMeansGranted,
              Unlogged, Asked
<1>3. CASE WaitLogin \/ WaitRegister
  BY <1>3, SessionKept DEF WaitLogin, WaitRegister, SemWait
<1>4. CASE CheckFlag
  <2>1. UNCHANGED <<toServer, toClient, sessions, link, currentUser, loginSuccess>>
    BY <1>4 DEF CheckFlag
  <2>2. CASE ~loginSuccess
    BY <1>4, <2>1, <2>2, SessionKept DEF CheckFlag
  <2>3. CASE loginSuccess
    <3>1. ui = "woken" /\ ui' = "main"
      BY <1>4, <2>3 DEF CheckFlag
    <3>2. toServer = <<>> /\ (link = "up" => currentUser \in sessions)
      <4>1. link \in {"up", "down"}
        BY DEF TypeOK
      <4> QED
        BY <2>3, <3>1, <4>1 DEF SessionInv, FlagMeansGranted, PendingInv
    <3> QED
      BY <2>1, <3>1, <3>2
         DEF SessionInv, InName, LogoutLast, GrantsKept, FlagMeansGranted, MenuMeansGranted, Unlogged
  <2> QED
    BY <2>2, <2>3
<1>5. CASE Command \/ Logout
  <2>1. PICK r \in Request :
          /\ Send(r) /\ UNCHANGED currentUser /\ ui = "main" /\ r.id = currentUser
          /\ (r.kind = "command" /\ ui' = "main") \/ (r.kind = "logout" /\ ui' = "start")
    <3>1. \A k \in {"command", "logout"} : [kind |-> k, id |-> currentUser] \in Request
      BY Requests DEF TypeOK
    <3> QED
      BY <1>5, <3>1 DEF Command, Logout
  <2> QED
    BY <2>1, SessionSend
<1>6. CASE Quit \/ ReadNotOneMessage
  BY <1>6 DEF Quit, ReadNotOneMessage, End, SessionInv, InName, LogoutLast, GrantsKept,
              FlagMeansGranted, MenuMeansGranted, Unlogged
<1>7. CASE HandleRegisterAck \/ ShowMessage
  <2>1. PICK k \in {"register", "push"} : Read(k) /\ UNCHANGED userVars
    BY <1>7 DEF HandleRegisterAck, ShowMessage
  <2>2. /\ toClient \in Seq(Answer) /\ toClient # <<>> /\ toClient' = Tail(toClient)
        /\ UNCHANGED <<ui, link, toServer, sessions, currentUser, loginSuccess, Asked>>
    BY <2>1, ReadFacts DEF TypeOK
  <2>3. \A i \in DOMAIN toClient' : i + 1 \in DOMAIN toClient /\ toClient'[i] = toClient[i+1]
    BY <2>2, AwaitedTail
  <2>4. GrantsKept'
    BY <2>2, <2>3 DEF SessionInv, GrantsKept
  <2> QED
    BY <2>2, <2>4 DEF SessionInv, InName, LogoutLast, FlagMeansGranted, MenuMeansGranted, Unlogged
<1>8. CASE SemPost \/ UNCHANGED vars
  BY <1>8, SessionKept DEF SemPost, vars
<1>9. CASE ServerGrants \/ ServerRefuses \/ ServerRegisters
  <2>1. PICK k \in {"login", "register"} :
          Take(k) /\ toServer' = <<>> /\ UNCHANGED <<ui, link, currentUser, loginSuccess>>
    <3>1. \A k \in {"login", "register"} :
             Take(k) => toServer' = <<>> /\ UNCHANGED <<ui, link, currentUser, loginSuccess>>
      <4> SUFFICES ASSUME NEW k \in {"login", "register"}, Take(k)
                   PROVE  toServer' = <<>> /\ UNCHANGED <<ui, link, currentUser, loginSuccess>>
        OBVIOUS
      <4>1. toServer # <<>> /\ Asked # {} /\ link = "up"
        BY TakeFacts
      <4>2. AtServer
        BY <4>1 DEF PendingInv, Ended, Nothing, InChannel, BeingPosted, Posted, Lost
      <4> QED
        BY <4>2, TakeFacts DEF AtServer
    <3> QED
      BY <1>9, <3>1 DEF ServerGrants, ServerRefuses, ServerRegisters
  <2>2. PICK a \in Answer :
          /\ toClient' = Append(toClient, a) /\ sessions \subseteq sessions'
          /\ a.kind = "login" /\ a.errno = 0 => a.id \in sessions'
    <3>1. CASE ServerGrants
      <4>1. Head(toServer).id \in Users
        <5>1. toServer \in Seq(Request) /\ toServer # <<>> /\ Head(toServer).kind = "login"
          BY <3>1 DEF ServerGrants, Take, TypeOK
        <5> QED
          BY <5>1, Requests
      <4>2. PICK ls \in SUBSET Lists : Reply("login", 0, Head(toServer).id, ls)
        BY <3>1 DEF ServerGrants
      <4> QED
        BY <3>1, <4>1, <4>2, Answers DEF ServerGrants, Reply
    <3>2. CASE ServerRefuses
      BY <3>2, Answers DEF ServerRefuses, Reply
    <3>3. CASE ServerRegisters
      BY <3>3, Answers DEF ServerRegisters, Reply
    <3> QED
      BY <1>9, <3>1, <3>2, <3>3
  <2> QED
    BY <2>1, <2>2, SessionReply
<1>10. CASE ServerServes
  BY <1>10, SessionServe DEF ServerServes
<1>11. CASE ServerLogsOut
  BY <1>11, SessionServe DEF ServerLogsOut
<1>12. CASE Push
  <2>1. PICK a \in Answer : toClient' = Append(toClient, a) /\ a.kind = "push"
    BY <1>12, Answers DEF Push, Reply
  <2> QED
    BY <1>12, <2>1, SessionReply DEF Push
<1>13. CASE Break
  BY <1>13 DEF Break, SessionInv, InName, LogoutLast, GrantsKept, FlagMeansGranted, MenuMeansGranted, Unlogged
<1> QED
  BY <1>1, <1>2, <1>3, <1>4, <1>5, <1>6, <1>7, <1>8, <1>9, <1>10, <1>11, <1>12, <1>13, SessionLogin
     DEF Next, MenuThread, LoopThread, Server, Stopped

(* The client's and the server's idea of who is logged in agree.           *)
LEMMA SessionCorrect == Spec => [](TypeOK /\ PendingInv /\ SessionInv)
BY PendingCorrect, SessionInit, SessionNext, PTL DEF Spec

(* Whoever sees the chat menu is a user whose login the server granted on  *)
(* this connection and has not ended.                                      *)
THEOREM MenuGranted == Spec => []MenuMeansGranted
<1>1. SessionInv => MenuMeansGranted
  BY DEF SessionInv
<1> QED
  BY <1>1, SessionCorrect, PTL

(* Every command and logout that the server handles is in the name of an   *)
(* account that it granted on this connection.                             *)
THEOREM RequestsFit == Spec => []RequestsFitSession
<1>1. TypeOK /\ SessionInv => RequestsFitSession
  <2> SUFFICES ASSUME TypeOK, SessionInv, toServer # <<>>, Head(toServer).kind \in {"command", "logout"}
               PROVE  Head(toServer).id \in sessions
    BY DEF RequestsFitSession
  <2>1. 1 \in DOMAIN toServer /\ toServer[1] = Head(toServer)
    BY AwaitedTail DEF TypeOK
  <2> QED
    BY <2>1 DEF SessionInv, InName
<1> QED
  BY <1>1, SessionCorrect, PTL
=============================================================================
