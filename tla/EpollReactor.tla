---------------------------- MODULE EpollReactor ----------------------------
(***************************************************************************)
(* The echo server of EpollReactor/src: main's loop over epoll_wait and    *)
(* the callbacks initAccept, readData and writrData of myEvents.cpp.  One  *)
(* thread runs it all.  Every connection has a myEvent whose pointer epoll *)
(* keeps; the callback to run next, the events to watch and the buffer     *)
(* have to change together.                                                *)
(*                                                                         *)
(* A byte is its code: a client sends a, b, c, and so on.  A blocking send *)
(* takes all of a buffer, for no signal of this program returns from its   *)
(* handler.                                                                *)
(***************************************************************************)
EXTENDS Naturals, Sequences

CONSTANTS
  Conns,        \* clients, each with one connection
  Listen,       \* the myEvent of sockfd
  BufferSize,   \* maxBufferNums
  MaxBytes,     \* bound: bytes that one client sends
  MaxFaults     \* bound: calls of the kernel that fail

ASSUME EpollReactorAssumption ==
  /\ Listen \notin Conns
  /\ BufferSize \in Nat \ {0} /\ MaxBytes \in 0..26 /\ MaxFaults \in Nat

VARIABLES
  conn,         \* "leaked": open, but nobody has its descriptor any more
  function,     \* the callback, or "deleted" when there is no myEvent
  watch,        \* what epoll reports of it
  buf,          \* the first n bytes
  listening,    \* sockfd is open and watched
  batch,        \* ep_events not yet handled
  server,       \* "up", or "ended" when the process has
  inbox,        \* bytes that recv may return
  peer,         \* the client's end: "up", or "gone"
  sent,         \* history: what the client sent
  echo,         \* history: what was sent to it
  faults

clientVars == <<inbox, peer, sent>>
vars == <<conn, function, watch, buf, listening, batch, server, clientVars, echo, faults>>

Byte == 65..122

TypeOK ==
  /\ conn \in [Conns -> {"new", "backlog", "open", "closed", "leaked"}]
  /\ function \in [Conns -> {"deleted", "readData", "writrData"}]
  /\ watch \in [Conns -> {"none", "EPOLLIN", "EPOLLOUT"}]
  /\ buf \in [Conns -> Seq(Byte)] /\ \A c \in Conns : Len(buf[c]) <= BufferSize
  /\ listening \in BOOLEAN
  /\ batch \subseteq Conns \cup {Listen}
  /\ server \in {"up", "ended"}
  /\ inbox \in [Conns -> Seq(Byte)] /\ peer \in [Conns -> {"up", "gone"}]
  /\ sent \in [Conns -> Seq(Byte)] /\ echo \in [Conns -> Seq(Byte)]
  /\ faults \in 0..MaxFaults

Init ==
  /\ conn = [c \in Conns |-> "new"] /\ function = [c \in Conns |-> "deleted"]
  /\ watch = [c \in Conns |-> "none"] /\ buf = [c \in Conns |-> <<>>]
  /\ listening = TRUE /\ batch = {} /\ server = "up"
  /\ inbox = [c \in Conns |-> <<>>] /\ peer = [c \in Conns |-> "up"]
  /\ sent = [c \in Conns |-> <<>>] /\ echo = [c \in Conns |-> <<>>]
  /\ faults = 0

toupper(byte) == IF byte \in 97..122 THEN byte - 32 ELSE byte
Upper(bytes) == [i \in 1..Len(bytes) |-> toupper(bytes[i])]

Fault == faults < MaxFaults /\ faults' = faults + 1
Works == UNCHANGED faults

Backlog == {c \in Conns : conn[c] = "backlog"}

(* Whatever is watched, the end of the client's side is reported.          *)
Ready ==
  {l \in {Listen} : listening /\ Backlog # {}}
    \cup {c \in Conns : \/ watch[c] # "none" /\ peer[c] = "gone"
                        \/ watch[c] = "EPOLLIN" /\ inbox[c] # <<>>
                        \/ watch[c] = "EPOLLOUT"}

-----------------------------------------------------------------------------
(* main                                                                    *)

EpollWait ==
  /\ batch = {} /\ Ready # {}
  /\ batch' = Ready
  /\ UNCHANGED <<conn, function, watch, buf, listening, server, clientVars, echo, faults>>

EpollWaitFails ==
  /\ batch = {} /\ Fault
  /\ server' = "ended"
  /\ UNCHANGED <<conn, function, watch, buf, listening, batch, clientVars, echo>>

(* tempMyevent->function(...) of the next event.                           *)
TakeEvent(e) == e \in batch /\ batch' = batch \ {e}

-----------------------------------------------------------------------------
(* initAccept                                                              *)

AcceptFails ==
  /\ TakeEvent(Listen) /\ Fault
  /\ UNCHANGED <<conn, function, watch, buf, listening, server, clientVars, echo>>

initAccept(c) ==
  /\ TakeEvent(Listen) /\ c \in Backlog /\ Works
  /\ conn' = [conn EXCEPT ![c] = "open"]
  /\ function' = [function EXCEPT ![c] = "readData"]
  /\ watch' = [watch EXCEPT ![c] = "EPOLLIN"]
  /\ buf' = [buf EXCEPT ![c] = <<>>]
  /\ UNCHANGED <<listening, server, clientVars, echo>>

(* EPOLL_CTL_ADD fails: close(fd) is the listening descriptor's.  Who      *)
(* waits for accept is turned away, and the new connection stays open.     *)
AddFails(c) ==
  /\ TakeEvent(Listen) /\ c \in Backlog /\ Fault
  /\ listening' = FALSE
  /\ conn' = [d \in Conns |-> IF d = c THEN "leaked"
                              ELSE IF d \in Backlog THEN "closed" ELSE conn[d]]
  /\ UNCHANGED <<function, watch, buf, server, clientVars, echo>>

-----------------------------------------------------------------------------
(* readData and writrData                                                  *)

(* EPOLL_CTL_DEL, close(fd) and delete.                                    *)
DropKeepsWatch(c) ==
  /\ conn' = [conn EXCEPT ![c] = "closed"]
  /\ function' = [function EXCEPT ![c] = "deleted"]
  /\ UNCHANGED watch
Drop(c) ==
  /\ conn' = [conn EXCEPT ![c] = "closed"]
  /\ function' = [function EXCEPT ![c] = "deleted"]
  /\ watch' = [watch EXCEPT ![c] = "none"]

(* EPOLL_CTL_MOD with the other callback, or everything goes when it fails.*)
SwitchKeepsWatch(c, callback, events) ==
  /\ Works /\ function' = [function EXCEPT ![c] = callback]
  /\ UNCHANGED <<conn, watch>>
Switch(c, callback, events) ==
  \/ /\ Works
     /\ function' = [function EXCEPT ![c] = callback]
     /\ watch' = [watch EXCEPT ![c] = events]
     /\ UNCHANGED conn
  \/ Fault /\ Drop(c)

(* recv returns what is there, as far as the buffer goes, or less.         *)
readData(c) ==
  /\ TakeEvent(c) /\ function[c] = "readData"
  /\ \E n \in 1..BufferSize :
       /\ n <= Len(inbox[c])
       /\ buf' = [buf EXCEPT ![c] = Upper(SubSeq(inbox[c], 1, n))]
       /\ inbox' = [inbox EXCEPT ![c] = SubSeq(@, n + 1, Len(@))]
  /\ Switch(c, "writrData", "EPOLLOUT")
  /\ UNCHANGED <<listening, server, peer, sent, echo>>

(* The end of the stream, or a reset, ahead of what is left to read.       *)
ReadFails(c) ==
  /\ TakeEvent(c) /\ function[c] = "readData" /\ peer[c] = "gone"
  /\ Drop(c) /\ Works
  /\ UNCHANGED <<buf, listening, server, clientVars, echo>>

writrDataTwice(c) ==
  /\ TakeEvent(c) /\ function[c] = "writrData"
  /\ echo' = [echo EXCEPT ![c] = @ \o buf[c] \o buf[c]]
  /\ Switch(c, "readData", "EPOLLIN")
  /\ UNCHANGED <<buf, listening, server, clientVars>>
writrData(c) ==
  /\ TakeEvent(c) /\ function[c] = "writrData"
  /\ echo' = [echo EXCEPT ![c] = @ \o buf[c]]
  /\ Switch(c, "readData", "EPOLLIN")
  /\ UNCHANGED <<buf, listening, server, clientVars>>

WriteFails(c) ==
  /\ TakeEvent(c) /\ function[c] = "writrData" /\ peer[c] = "gone"
  /\ Drop(c) /\ Works
  /\ UNCHANGED <<buf, listening, server, clientVars, echo>>

(* Nobody ignores SIGPIPE: a send after the client's reset ends the        *)
(* process.                                                                *)
Sigpipe(c) ==
  /\ TakeEvent(c) /\ function[c] = "writrData" /\ peer[c] = "gone"
  /\ server' = "ended"
  /\ UNCHANGED <<conn, function, watch, buf, listening, clientVars, echo, faults>>

-----------------------------------------------------------------------------
(* Clients                                                                 *)

Connect(c) ==
  /\ conn[c] = "new" /\ listening
  /\ conn' = [conn EXCEPT ![c] = "backlog"]
  /\ UNCHANGED <<function, watch, buf, listening, batch, server, clientVars, echo, faults>>

SendByte(c) ==
  /\ conn[c] \in {"backlog", "open", "leaked"} /\ peer[c] = "up" /\ Len(sent[c]) < MaxBytes
  /\ LET byte == 97 + Len(sent[c]) IN
       /\ sent' = [sent EXCEPT ![c] = Append(@, byte)]
       /\ inbox' = [inbox EXCEPT ![c] = Append(@, byte)]
  /\ UNCHANGED <<conn, function, watch, buf, listening, batch, server, peer, echo, faults>>

Leave(c) ==
  /\ conn[c] \in {"backlog", "open", "leaked"} /\ peer[c] = "up"
  /\ peer' = [peer EXCEPT ![c] = "gone"]
  /\ UNCHANGED <<conn, function, watch, buf, listening, batch, server, inbox, sent, echo, faults>>

-----------------------------------------------------------------------------
Server ==
  \/ EpollWait
  \/ EpollWaitFails
  \/ AcceptFails
  \/ \E c \in Conns : initAccept(c)
  \/ \E c \in Conns : AddFails(c)
  \/ \E c \in Conns : readData(c)
  \/ \E c \in Conns : ReadFails(c)
  \/ \E c \in Conns : writrData(c)
  \/ \E c \in Conns : WriteFails(c)
  \/ \E c \in Conns : Sigpipe(c)

Clients ==
  \/ \E c \in Conns : Connect(c)
  \/ \E c \in Conns : SendByte(c)
  \/ \E c \in Conns : Leave(c)

Next == server = "up" /\ (Server \/ Clients)

Spec == Init /\ [][Next]_vars

(* The thread runs on when something is to be done: it blocks nowhere but  *)
(* in epoll_wait, for accept and recv are called where epoll announced     *)
(* them and a buffer of bytes always finds room in the socket.             *)
FairSpec == Spec /\ WF_vars(server = "up" /\ Server)

-----------------------------------------------------------------------------
(* Properties                                                              *)

Watches(c) ==
  CASE function[c] = "readData" -> "EPOLLIN"
    [] function[c] = "writrData" -> "EPOLLOUT"
    [] function[c] = "deleted" -> "none"

(* The callback that runs next is the one for the event that is watched,   *)
(* and a connection has a myEvent exactly while it is served.  Every       *)
(* pointer left in ep_events leads to one that still exists, though the    *)
(* callbacks ahead of it have deleted theirs, and what it announced is     *)
(* still true: neither accept nor recv ever blocks the only thread.        *)
EventMatchesWatch ==
  /\ TypeOK
  /\ \A c \in Conns : watch[c] = Watches(c) /\ (function[c] # "deleted" <=> conn[c] = "open")
  /\ Listen \in batch => Backlog # {}
  /\ \A c \in batch \cap Conns :
       \/ function[c] = "writrData"
       \/ function[c] = "readData" /\ (inbox[c] # <<>> \/ peer[c] = "gone")

Unanswered(c) == IF function[c] = "writrData" THEN buf[c] ELSE <<>>

(* What a client has been sent is what it sent, in capitals: while it is   *)
(* served, the answers, the buffer and what recv has yet to return are all *)
(* of it, in order; afterwards the answers are a beginning of it.          *)
EchoInOrder ==
  \A c \in Conns :
    /\ conn[c] = "open" => echo[c] \o Unanswered(c) \o Upper(inbox[c]) = Upper(sent[c])
    /\ Len(echo[c]) <= Len(sent[c])
    /\ echo[c] = SubSeq(Upper(sent[c]), 1, Len(echo[c]))

(* Every byte comes back, unless the connection or the server ends, or the *)
(* connection was never watched.                                           *)
EchoArrives ==
  \A c \in Conns : \A k \in 1..MaxBytes :
    Len(sent[c]) >= k
      ~> Len(echo[c]) >= k \/ conn[c] \in {"closed", "leaked"} \/ server = "ended"
=============================================================================
