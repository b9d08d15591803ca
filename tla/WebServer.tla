----------------------------- MODULE WebServer -----------------------------
(***************************************************************************)
(* The web server's connection table: main's epoll loop                    *)
(* (WebServer/src/main.cpp), the closer of idle connections and the        *)
(* counter (checkConnect and getConnectCount of webServer.cpp), which      *)
(* share hash under mutex, over the descriptors of the kernel.  What       *)
(* http_request makes of a request is the business of WebRequest; here it  *)
(* is answered, refused, or ends the process.                              *)
(*                                                                         *)
(* A descriptor number names another connection once it was closed and     *)
(* accept returned it again.  epoll_wait reports events without the mutex; *)
(* by the time main holds it they may be stale.                            *)
(***************************************************************************)
EXTENDS Naturals, FiniteSets

CONSTANTS
  Fds,          \* numbers that the process may have open besides its own
  Listen,       \* sockfd
  NoFd,
  MaxConns,     \* bound: connections that clients make
  MaxRequests   \* bound: requests that clients send

ASSUME WebServerAssumption ==
  /\ Fds \subseteq Nat /\ Listen \notin Fds /\ NoFd \notin Fds
  /\ MaxConns \in Nat /\ MaxRequests \in Nat

VARIABLES
  hash,         \* lastActiveTime: "closed" is -1, "old" is longer ago than
                \* activeTimeInterval
  mutex,        \* its holder
  mainPc,       \* where main's loop is
  batch,        \* events not yet handled
  cfd,          \* the descriptor of the last event taken from the batch
  accepted,     \* history: accepted since the batch was begun
  closerPc,     \* where checkConnect is
  todo,         \* entries its iterator has not passed
  open,         \* sockets of connections, all of them watched by epfd
  inbox,        \* a request that recv has not returned; "empty" is one with
                \* nothing but delimiters
  peer,         \* the client's end: "up", or "gone" when it was closed
  backlog,      \* connections that wait for accept
  server,       \* "up", or "ended" when the process has
  conns, requests

mainVars == <<mainPc, batch, cfd, accepted>>
closerVars == <<closerPc, todo>>
sockVars == <<open, inbox, peer>>
clientVars == <<backlog, conns, requests>>
vars == <<hash, mutex, mainVars, closerVars, sockVars, server, clientVars>>

TypeOK ==
  /\ hash \in [Fds -> {"closed", "fresh", "old"}]
  /\ mutex \in {"free", "main", "closer"}
  /\ mainPc \in {"wait", "lock", "next", "recv", "send"}
  /\ batch \subseteq Fds \cup {Listen}
  /\ cfd \in Fds \cup {NoFd} /\ (mainPc \in {"recv", "send"} => cfd \in Fds)
  /\ accepted \subseteq Fds
  /\ closerPc \in {"sleep", "scan"} /\ todo \subseteq Fds
  /\ open \subseteq Fds
  /\ inbox \in [Fds -> {"none", "good", "bad", "empty"}]
  /\ peer \in [Fds -> {"up", "gone"}]
  /\ backlog \in Nat /\ conns \in 0..MaxConns /\ requests \in 0..MaxRequests
  /\ server \in {"up", "ended"}
  /\ mutex = "main" <=> mainPc \in {"next", "recv", "send"}
  /\ mutex = "closer" <=> closerPc = "scan"

Init ==
  /\ hash = [fd \in Fds |-> "closed"] /\ mutex = "free"
  /\ mainPc = "wait" /\ batch = {} /\ cfd = NoFd /\ accepted = {}
  /\ closerPc = "sleep" /\ todo = {}
  /\ open = {} /\ inbox = [fd \in Fds |-> "none"] /\ peer = [fd \in Fds |-> "up"]
  /\ backlog = 0 /\ server = "up" /\ conns = 0 /\ requests = 0

Marked == {fd \in Fds : hash[fd] # "closed"}

Readable(fd) == inbox[fd] # "none" \/ peer[fd] = "gone"

Ready == {fd \in open : Readable(fd)} \cup {l \in {Listen} : backlog > 0}

(* hash[fd].lastActiveTime = -1, EPOLL_CTL_DEL and close(fd).  On a number *)
(* that is not open the two calls fail and are not looked at.              *)
CloseForgetsMark(fd) == hash' = hash /\ open' = open \ {fd}
CloseConnection(fd) == hash' = [hash EXCEPT ![fd] = "closed"] /\ open' = open \ {fd}

-----------------------------------------------------------------------------
(* main                                                                    *)

(* Level triggered, and room for every descriptor: events[maxConnectNums]. *)
EpollWait ==
  /\ mainPc = "wait" /\ Ready # {}
  /\ batch' = Ready /\ mainPc' = "lock"
  /\ UNCHANGED <<hash, mutex, cfd, accepted, closerVars, sockVars, server, clientVars>>

LockIgnoresCloser ==
  /\ mainPc = "lock" /\ mainPc' = "next" /\ mutex' = "main"
  /\ UNCHANGED <<hash, batch, cfd, accepted, closerVars, sockVars, server, clientVars>>
Lock ==
  /\ mainPc = "lock" /\ mutex = "free"
  /\ mainPc' = "next" /\ mutex' = "main"
  /\ UNCHANGED <<hash, batch, cfd, accepted, closerVars, sockVars, server, clientVars>>

(* accept returns the lowest free number.                                  *)
Lowest(fds) == {fd \in fds : \A other \in fds : fd <= other}

Accept ==
  /\ mainPc = "next" /\ Listen \in batch
  /\ \E fd \in Lowest(Fds \ open) :
       /\ open' = open \cup {fd}
       /\ inbox' = [inbox EXCEPT ![fd] = "none"] /\ peer' = [peer EXCEPT ![fd] = "up"]
       /\ hash' = [hash EXCEPT ![fd] = "fresh"]
       /\ accepted' = accepted \cup {fd}
  /\ batch' = batch \ {Listen} /\ backlog' = backlog - 1
  /\ UNCHANGED <<mutex, mainPc, cfd, closerVars, server, conns, requests>>

(* With no number free accept returns -1, which epoll_ctl refuses: main    *)
(* returns, and with it the process ends.                                  *)
OutOfNumbers ==
  /\ mainPc = "next" /\ Listen \in batch /\ Fds \subseteq open
  /\ server' = "ended"
  /\ UNCHANGED <<hash, mutex, mainVars, closerVars, sockVars, clientVars>>

(* main returns as well when one of the three calls fails for a reason of  *)
(* the kernel's.                                                           *)
Fail ==
  /\ mainPc = "wait" \/ (mainPc = "next" /\ Listen \in batch)
  /\ server' = "ended"
  /\ UNCHANGED <<hash, mutex, mainVars, closerVars, sockVars, clientVars>>

EventStaysInBatch(fd) ==
  /\ mainPc = "next" /\ fd \in batch
  /\ hash' = [hash EXCEPT ![fd] = "fresh"]
  /\ cfd' = fd /\ mainPc' = "recv"
  /\ UNCHANGED <<mutex, batch, accepted, closerVars, sockVars, server, clientVars>>
TakeEvent(fd) ==
  /\ mainPc = "next" /\ fd \in batch
  /\ hash' = [hash EXCEPT ![fd] = "fresh"]
  /\ cfd' = fd /\ batch' = batch \ {fd} /\ mainPc' = "recv"
  /\ UNCHANGED <<mutex, accepted, closerVars, sockVars, server, clientVars>>

(* http_request up to its first send.  recv blocks on an open connection   *)
(* that has nothing to read.                                               *)
RecvFails ==
  /\ mainPc = "recv"
  /\ cfd \notin open \/ (inbox[cfd] = "none" /\ peer[cfd] = "gone")
  /\ CloseConnection(cfd)
  /\ mainPc' = "next"
  /\ UNCHANGED <<mutex, batch, cfd, accepted, closerVars, inbox, peer, server, clientVars>>

RecvBad ==
  /\ mainPc = "recv" /\ cfd \in open /\ inbox[cfd] = "bad"
  /\ CloseConnection(cfd)
  /\ mainPc' = "next"
  /\ UNCHANGED <<mutex, batch, cfd, accepted, closerVars, inbox, peer, server, clientVars>>

(* lines[0] of an empty vector: the process dies.                          *)
RecvEmpty ==
  /\ mainPc = "recv" /\ cfd \in open /\ inbox[cfd] = "empty"
  /\ server' = "ended"
  /\ UNCHANGED <<hash, mutex, mainVars, closerVars, sockVars, clientVars>>

RecvGood ==
  /\ mainPc = "recv" /\ cfd \in open /\ inbox[cfd] = "good"
  /\ inbox' = [inbox EXCEPT ![cfd] = "none"]
  /\ mainPc' = "send"
  /\ UNCHANGED <<hash, mutex, batch, cfd, accepted, closerVars, open, peer, server, clientVars>>

(* The answer is out when the client has read enough of it, or at once     *)
(* when it left: SIGPIPE is ignored, and so is what send returns.          *)
Answered ==
  /\ mainPc = "send" /\ mainPc' = "next"
  /\ UNCHANGED <<hash, mutex, batch, cfd, accepted, closerVars, sockVars, server, clientVars>>

ScandirFails ==
  /\ mainPc = "send"
  /\ CloseConnection(cfd)
  /\ mainPc' = "next"
  /\ UNCHANGED <<mutex, batch, cfd, accepted, closerVars, inbox, peer, server, clientVars>>

Unlock ==
  /\ mainPc = "next" /\ batch = {}
  /\ mainPc' = "wait" /\ mutex' = "free" /\ cfd' = NoFd /\ accepted' = {}
  /\ UNCHANGED <<hash, batch, closerVars, sockVars, server, clientVars>>

-----------------------------------------------------------------------------
(* checkConnect and getConnectCount                                        *)

CloserLock ==
  /\ closerPc = "sleep" /\ mutex = "free"
  /\ closerPc' = "scan" /\ mutex' = "closer" /\ todo' = Fds
  /\ UNCHANGED <<hash, mainVars, sockVars, server, clientVars>>

PassClosesFresh(fd) ==
  /\ closerPc = "scan" /\ fd \in todo
  /\ \/ hash[fd] = "fresh" /\ CloseConnection(fd)
     \/ hash[fd] # "fresh" /\ UNCHANGED <<hash, open>>
  /\ todo' = todo \ {fd}
  /\ UNCHANGED <<mutex, mainVars, closerPc, inbox, peer, server, clientVars>>
Pass(fd) ==
  /\ closerPc = "scan" /\ fd \in todo
  /\ \/ hash[fd] = "old" /\ CloseConnection(fd)
     \/ hash[fd] # "old" /\ UNCHANGED <<hash, open>>
  /\ todo' = todo \ {fd}
  /\ UNCHANGED <<mutex, mainVars, closerPc, inbox, peer, server, clientVars>>

CloserUnlock ==
  /\ closerPc = "scan" /\ todo = {}
  /\ closerPc' = "sleep" /\ mutex' = "free"
  /\ UNCHANGED <<hash, mainVars, todo, sockVars, server, clientVars>>

(* What getConnectCount prints: it takes the mutex, goes over hash and     *)
(* changes nothing.                                                        *)
ConnectCount == Cardinality(Marked)

-----------------------------------------------------------------------------
(* Clients and time                                                        *)

Connect ==
  /\ conns < MaxConns /\ conns' = conns + 1
  /\ backlog' = backlog + 1
  /\ UNCHANGED <<hash, mutex, mainVars, closerVars, sockVars, server, requests>>

Send(fd) ==
  /\ fd \in open /\ peer[fd] = "up" /\ inbox[fd] = "none"
  /\ requests < MaxRequests /\ requests' = requests + 1
  /\ \E request \in {"good", "bad", "empty"} : inbox' = [inbox EXCEPT ![fd] = request]
  /\ UNCHANGED <<hash, mutex, mainVars, closerVars, open, peer, server, backlog, conns>>

(* A reset takes with it what was sent.                                    *)
Leave(fd) ==
  /\ fd \in open /\ peer[fd] = "up"
  /\ peer' = [peer EXCEPT ![fd] = "gone"]
  /\ inbox' \in {inbox, [inbox EXCEPT ![fd] = "none"]}
  /\ UNCHANGED <<hash, mutex, mainVars, closerVars, open, server, clientVars>>

(* activeTimeInterval passes.                                              *)
Age(fd) ==
  /\ hash[fd] = "fresh" /\ hash' = [hash EXCEPT ![fd] = "old"]
  /\ UNCHANGED <<mutex, mainVars, closerVars, sockVars, server, clientVars>>

-----------------------------------------------------------------------------
Main ==
  \/ EpollWait
  \/ Lock
  \/ Accept
  \/ OutOfNumbers
  \/ \E fd \in Fds : TakeEvent(fd)
  \/ RecvFails
  \/ RecvBad
  \/ RecvEmpty
  \/ RecvGood
  \/ Answered
  \/ ScandirFails
  \/ Unlock

Closer ==
  \/ CloserLock
  \/ \E fd \in Fds : Pass(fd)
  \/ CloserUnlock

Clients ==
  \/ Connect
  \/ \E fd \in Fds : Send(fd)
  \/ \E fd \in Fds : Leave(fd)

Running ==
  \/ Main
  \/ Fail
  \/ Closer
  \/ Clients
  \/ \E fd \in Fds : Age(fd)

Ended == server = "ended" /\ UNCHANGED vars

Next == (server = "up" /\ Running) \/ Ended

Spec == Init /\ [][Next]_vars

(* Where main waits for a client, with the mutex in its hands.             *)
RecvBlocks == mainPc = "recv" /\ cfd \in open /\ ~Readable(cfd)
SendBlocks == mainPc = "send" /\ peer[cfd] = "up"
Stuck == RecvBlocks \/ SendBlocks

(* A thread runs on when nothing holds it up.  A client need not read its  *)
(* answer.  main gets the mutex in the end because the closer and the      *)
(* counter sleep long between their short visits; the closer because main  *)
(* gives the mutex back and waits whenever the clients let it.             *)
Fairness ==
  /\ WF_vars(server = "up" /\ ~SendBlocks /\ Main)
  /\ SF_vars(server = "up" /\ Lock)
  /\ WF_vars(server = "up" /\ Closer)
  /\ SF_vars(server = "up" /\ CloserLock)

FairSpec == Spec /\ Fairness

-----------------------------------------------------------------------------
(* Properties                                                              *)

(* hash marks exactly the open connections: a marked number that is not    *)
(* open is the one main has in its hands, where an event was stale.  So    *)
(* the closer closes connections only, and the counter counts all of them. *)
MarksMatchOpen ==
  /\ Marked = open \cup {fd \in {cfd} : mainPc = "recv"}
  /\ mutex # "main" => ConnectCount = Cardinality(open)

(* main waits in recv, with the mutex, only where the closer closed a      *)
(* connection after epoll_wait reported it and accept gave its number to a *)
(* new one: nothing else takes away what an event announced.               *)
BlockedOnlyByReuse == RecvBlocks => cfd \in accepted

(* A request is taken up, unless its connection is closed or main has      *)
(* come to wait for a client for ever.                                     *)
RequestTaken ==
  \A fd \in Fds :
    fd \in open /\ inbox[fd] # "none"
      ~> inbox[fd] = "none" \/ fd \notin open \/ server = "ended" \/ []Stuck

(* A connection that was idle too long is closed, or used again, unless    *)
(* main has come to wait for a client for ever.                            *)
IdleClosed ==
  \A fd \in Fds : hash[fd] = "old" ~> hash[fd] # "old" \/ server = "ended" \/ []Stuck
=============================================================================
