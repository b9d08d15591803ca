------------------------- MODULE EpollReactorProofs -------------------------
(***************************************************************************)
(* That every connection's callback, watched event and myEvent change      *)
(* together, for any number of clients, bytes and failing calls, and that  *)
(* a client is sent back what it sent, in upper case and in order.  The    *)
(* first invariant is inductive as it stands; a step disturbs the data of  *)
(* one connection and takes its event out of the batch.  The second says   *)
(* where each byte of a connection is.                                     *)
(***************************************************************************)
EXTENDS EpollReactor, SequenceTheorems, TLAPS

(* The types of what a client has sent, is sent, and of what is on the way.*)
LEMMA ToUpper == \A bytes \in Seq(Byte) : Upper(bytes) \in Seq(Byte) /\ Len(Upper(bytes)) = Len(bytes)
<1> SUFFICES ASSUME NEW bytes \in Seq(Byte)
             PROVE Upper(bytes) \in Seq(Byte) /\ Len(Upper(bytes)) = Len(bytes)
  OBVIOUS
<1>1. \A byte \in Byte : toupper(byte) \in Byte
  BY DEF toupper, Byte
<1>2. Len(bytes) \in Nat /\ \A i \in 1..Len(bytes) : bytes[i] \in Byte
  OBVIOUS
<1>3. Upper(bytes) \in [1..Len(bytes) -> Byte]
  BY <1>1, <1>2 DEF Upper
<1> QED
  BY <1>2, <1>3

(* What recv takes from the inbox, and what it leaves.                     *)
LEMMA Taken ==
  ASSUME NEW s \in Seq(Byte), NEW n \in 1..BufferSize, n <= Len(s)
  PROVE  /\ Upper(SubSeq(s, 1, n)) \in Seq(Byte) /\ Len(Upper(SubSeq(s, 1, n))) <= BufferSize
         /\ SubSeq(s, n + 1, Len(s)) \in Seq(Byte)
<1>1. n \in Nat /\ n <= BufferSize /\ Len(s) \in Nat
  BY EpollReactorAssumption
<1>2. SubSeq(s, 1, n) \in Seq(Byte) /\ Len(SubSeq(s, 1, n)) = n
  BY <1>1
<1>3. SubSeq(s, n + 1, Len(s)) \in Seq(Byte)
  BY <1>1
<1> QED
  BY <1>1, <1>2, <1>3, ToUpper

(* One more byte.                                                          *)
LEMMA OneMore ==
  /\ \A k \in Nat, m \in 0..26 : k < m => 97 + k \in Byte
  /\ \A s \in Seq(Byte), b \in Byte : Append(s, b) \in Seq(Byte) /\ Append(s, b) # <<>>
<1>1. \A k \in Nat, m \in 0..26 : k < m => 97 + k \in Byte
  BY DEF Byte
<1>2. \A s \in Seq(Byte), b \in Byte : Append(s, b) \in Seq(Byte) /\ Append(s, b) # <<>>
  <2> SUFFICES ASSUME NEW s \in Seq(Byte), NEW b \in Byte
               PROVE Append(s, b) \in Seq(Byte) /\ Append(s, b) # <<>>
    OBVIOUS
  <2>1. Append(s, b) \in Seq(Byte) /\ Len(Append(s, b)) = Len(s) + 1 /\ Len(s) \in Nat
    OBVIOUS
  <2>2. Len(<<>>) = 0 /\ Len(Append(s, b)) # 0
    BY <2>1
  <2> QED
    BY <2>1, <2>2
<1> QED
  BY <1>1, <1>2

LEMMA FaultsCounted == TypeOK /\ (Works \/ Fault) => faults' \in 0..MaxFaults
<1>1. \A k, m \in Nat : k < m => k + 1 \in 0..m
  OBVIOUS
<1>2. \A k, m \in Nat : k \in 0..m => k \in Nat
  OBVIOUS
<1> SUFFICES ASSUME TypeOK, Works \/ Fault PROVE faults' \in 0..MaxFaults
  OBVIOUS
<1>3. faults \in 0..MaxFaults /\ MaxFaults \in Nat /\ faults \in Nat
  BY EpollReactorAssumption DEF TypeOK
<1>4. CASE Works
  BY <1>3, <1>4 DEF Works
<1>5. CASE Fault
  BY <1>1, <1>3, <1>5 DEF Fault
<1> QED
  BY <1>4, <1>5

(* What Switch and Drop write has its type.                                *)
LEMMA ServedTypes ==
  ASSUME TypeOK, NEW c \in Conns, NEW callback \in {"readData", "writrData"},
         NEW events \in {"EPOLLIN", "EPOLLOUT"},
         Switch(c, callback, events)
  PROVE  /\ conn' \in [Conns -> {"new", "backlog", "open", "closed", "leaked"}]
         /\ function' \in [Conns -> {"deleted", "readData", "writrData"}]
         /\ watch' \in [Conns -> {"none", "EPOLLIN", "EPOLLOUT"}]
         /\ faults' \in 0..MaxFaults
<1>1. faults' \in 0..MaxFaults
  BY FaultsCounted DEF Switch
<1>2. /\ conn \in [Conns -> {"new", "backlog", "open", "closed", "leaked"}]
      /\ function \in [Conns -> {"deleted", "readData", "writrData"}]
      /\ watch \in [Conns -> {"none", "EPOLLIN", "EPOLLOUT"}]
  BY DEF TypeOK
<1>3. CASE Drop(c)
  BY <1>1, <1>2, <1>3 DEF Drop
<1>4. CASE ~Drop(c)
  BY <1>1, <1>2, <1>4 DEF Switch
<1> QED
  BY <1>3, <1>4

LEMMA ReactorInit == Init => EventMatchesWatch
<1> SUFFICES ASSUME Init PROVE EventMatchesWatch
  OBVIOUS
<1>1. <<>> \in Seq(Byte) /\ Len(<<>>) <= BufferSize
  BY EpollReactorAssumption
<1>2. TypeOK
  BY <1>1, EpollReactorAssumption DEF Init, TypeOK
<1> QED
  BY <1>2 DEF Init, EventMatchesWatch, Watches

(* A step that puts the connection of an event it has taken from one       *)
(* consistent state to another leaves the events of the others true.       *)
LEMMA OthersKeep ==
  ASSUME EventMatchesWatch, NEW c \in Conns, TakeEvent(c), TypeOK',
         \A d \in Conns \ {c} : /\ conn'[d] = conn[d] /\ function'[d] = function[d]
                                /\ watch'[d] = watch[d] /\ inbox'[d] = inbox[d]
                                /\ peer'[d] = peer[d],
         conn'[c] # "backlog", conn[c] # "backlog",
         watch'[c] = Watches(c)', function'[c] # "deleted" <=> conn'[c] = "open"
  PROVE  EventMatchesWatch'
<1>1. batch' = batch \ {c} /\ Listen \notin Conns
  BY EpollReactorAssumption DEF TakeEvent
<1>2. \A d \in Conns : watch'[d] = Watches(d)' /\ (function'[d] # "deleted" <=> conn'[d] = "open")
  <2>1. ASSUME NEW d \in Conns \ {c} PROVE watch'[d] = Watches(d)'
    <3>1. watch[d] = Watches(d)
      BY DEF EventMatchesWatch
    <3>2. Watches(d)' = Watches(d)
      BY DEF Watches
    <3> QED
      BY <3>1, <3>2
  <2>2. ASSUME NEW d \in Conns \ {c} PROVE function'[d] # "deleted" <=> conn'[d] = "open"
    <3>1. function[d] # "deleted" <=> conn[d] = "open"
      BY DEF EventMatchesWatch
    <3> QED
      BY <3>1
  <2> QED
    BY <2>1, <2>2
<1>3. Backlog' = Backlog
  BY DEF Backlog
<1>4. Listen \in batch' => Backlog' # {}
  BY <1>1, <1>3 DEF EventMatchesWatch
<1>5. \A d \in batch' \cap Conns :
         \/ function'[d] = "writrData"
         \/ function'[d] = "readData" /\ (inbox'[d] # <<>> \/ peer'[d] = "gone")
  BY <1>1 DEF EventMatchesWatch
<1> QED
  BY <1>2, <1>4, <1>5 DEF EventMatchesWatch

(* A connection with a callback is open and so none of the backlog.        *)
LEMMA Served ==
  ASSUME EventMatchesWatch, NEW c \in Conns, function[c] # "deleted"
  PROVE  conn[c] = "open" /\ conn[c] # "backlog"
BY DEF EventMatchesWatch

(* A step that leaves callbacks and watched events alone only has to keep  *)
(* what the batch announces.                                               *)
LEMMA ConnectionsKeep ==
  ASSUME EventMatchesWatch, TypeOK', UNCHANGED <<function, watch>>,
         \A d \in Conns : conn'[d] = "open" <=> conn[d] = "open",
         Listen \in batch' => Backlog' # {},
         \A d \in batch' \cap Conns :
            \/ function[d] = "writrData"
            \/ function[d] = "readData" /\ (inbox'[d] # <<>> \/ peer'[d] = "gone")
  PROVE  EventMatchesWatch'
<1>1. ASSUME NEW d \in Conns
      PROVE  watch'[d] = Watches(d)' /\ (function'[d] # "deleted" <=> conn'[d] = "open")
  <2>1. watch[d] = Watches(d) /\ (function[d] # "deleted" <=> conn[d] = "open")
    BY DEF EventMatchesWatch
  <2>2. Watches(d)' = Watches(d)
    BY DEF Watches
  <2> QED
    BY <2>1, <2>2
<1>2. \A d \in batch' \cap Conns :
         \/ function'[d] = "writrData"
         \/ function'[d] = "readData" /\ (inbox'[d] # <<>> \/ peer'[d] = "gone")
  OBVIOUS
<1> QED
  BY <1>1, <1>2 DEF EventMatchesWatch

(* The same for one that announces nothing new.                            *)
LEMMA QuietStep ==
  ASSUME EventMatchesWatch, TypeOK', UNCHANGED <<function, watch>>, batch' \subseteq batch,
         \A d \in Conns : conn'[d] = "open" <=> conn[d] = "open",
         Listen \in batch' => Backlog' = Backlog \/ Backlog' # {},
         \A d \in Conns : inbox[d] # <<>> => inbox'[d] # <<>>,
         \A d \in Conns : peer[d] = "gone" => peer'[d] = "gone"
  PROVE  EventMatchesWatch'
<1>1. Listen \in batch' => Backlog' # {}
  BY DEF EventMatchesWatch
<1>2. ASSUME NEW d \in batch' \cap Conns
      PROVE  \/ function[d] = "writrData"
             \/ function[d] = "readData" /\ (inbox'[d] # <<>> \/ peer'[d] = "gone")
  <2>1. \/ function[d] = "writrData"
        \/ function[d] = "readData" /\ (inbox[d] # <<>> \/ peer[d] = "gone")
    BY DEF EventMatchesWatch
  <2> QED
    BY <2>1
<1> QED
  BY <1>1, <1>2, ConnectionsKeep

LEMMA ReactorNext == EventMatchesWatch /\ [Next]_vars => EventMatchesWatch'
<1> SUFFICES ASSUME EventMatchesWatch, [Next]_vars PROVE EventMatchesWatch'
  OBVIOUS
<1>0. TypeOK /\ Listen \notin Conns /\ MaxFaults \in Nat /\ BufferSize \in Nat
  BY EpollReactorAssumption DEF EventMatchesWatch
<1>1. CASE EpollWait
  <2>1. TypeOK'
    BY <1>0, <1>1 DEF EpollWait, Ready, TypeOK, clientVars
  <2>2. Listen \in batch' => Backlog' # {}
    BY <1>0, <1>1 DEF EpollWait, Ready, Backlog
  <2>3. \A c \in batch' \cap Conns :
          \/ function'[c] = "writrData"
          \/ function'[c] = "readData" /\ (inbox'[c] # <<>> \/ peer'[c] = "gone")
    <3> SUFFICES ASSUME NEW c \in batch' \cap Conns
                 PROVE  \/ function[c] = "writrData"
                        \/ function[c] = "readData" /\ (inbox[c] # <<>> \/ peer[c] = "gone")
      BY <1>1 DEF EpollWait, clientVars
    <3>1. \/ watch[c] # "none" /\ peer[c] = "gone"
          \/ watch[c] = "EPOLLIN" /\ inbox[c] # <<>>
          \/ watch[c] = "EPOLLOUT"
      BY <1>0, <1>1 DEF EpollWait, Ready
    <3>2. watch[c] = Watches(c) /\ function[c] \in {"deleted", "readData", "writrData"}
      BY <1>0 DEF EventMatchesWatch, TypeOK
    <3> QED
      BY <3>1, <3>2 DEF Watches
  <2> QED
    <3>1. UNCHANGED <<conn, function, watch, inbox, peer>>
      BY <1>1 DEF EpollWait, clientVars
    <3> QED
      BY <2>1, <2>2, <2>3, <3>1, ConnectionsKeep
<1>2. CASE EpollWaitFails
  <2>1. TypeOK'
    BY <1>0, <1>2 DEF EpollWaitFails, Fault, TypeOK, clientVars
  <2> QED
    BY <1>2, <2>1, QuietStep DEF EpollWaitFails, Backlog, clientVars
<1>3. CASE AcceptFails
  <2>1. TypeOK'
    BY <1>0, <1>3 DEF AcceptFails, TakeEvent, Fault, TypeOK, clientVars
  <2> QED
    BY <1>3, <2>1, QuietStep DEF AcceptFails, TakeEvent, Backlog, clientVars
<1>4. ASSUME NEW c \in Conns, initAccept(c) PROVE EventMatchesWatch'
  <2>1. <<>> \in Seq(Byte) /\ Len(<<>>) <= BufferSize
    BY <1>0
  <2>2. TypeOK'
    BY <1>0, <1>4, <2>1 DEF initAccept, TakeEvent, Works, TypeOK, clientVars
  <2>3. \A d \in Conns : watch'[d] = Watches(d)' /\ (function'[d] # "deleted" <=> conn'[d] = "open")
    BY <1>0, <1>4 DEF initAccept, TypeOK, EventMatchesWatch, Watches
  <2>4. c \notin batch
    BY <1>4, Served DEF initAccept, Backlog, EventMatchesWatch
  <2>5. Listen \notin batch' /\ batch' \cap Conns = batch \cap Conns
    BY <1>0, <1>4 DEF initAccept, TakeEvent
  <2>6. \A d \in batch' \cap Conns :
          \/ function'[d] = "writrData"
          \/ function'[d] = "readData" /\ (inbox'[d] # <<>> \/ peer'[d] = "gone")
    BY <1>0, <1>4, <2>4, <2>5 DEF initAccept, TypeOK, EventMatchesWatch, clientVars
  <2> QED
    BY <2>2, <2>3, <2>5, <2>6 DEF EventMatchesWatch
<1>5. ASSUME NEW c \in Conns, AddFails(c) PROVE EventMatchesWatch'
  <2>1. \A d \in Conns : conn'[d] = "open" <=> conn[d] = "open"
    BY <1>0, <1>5 DEF AddFails, Backlog, TypeOK
  <2>2. TypeOK'
    <3>1. conn' \in [Conns -> {"new", "backlog", "open", "closed", "leaked"}]
      <4>1. \A d \in Conns : conn[d] \in {"new", "backlog", "open", "closed", "leaked"}
        BY <1>0 DEF TypeOK
      <4> QED
        BY <1>5, <4>1 DEF AddFails
    <3>2. faults' \in 0..MaxFaults
      BY <1>0, <1>5, FaultsCounted DEF AddFails
    <3>3. batch' \subseteq Conns \cup {Listen}
      BY <1>0, <1>5 DEF AddFails, TakeEvent, TypeOK
    <3> QED
      BY <1>0, <1>5, <3>1, <3>2, <3>3 DEF AddFails, TypeOK, clientVars
  <2>3. Listen \notin batch' /\ batch' \cap Conns = batch \cap Conns
    BY <1>0, <1>5 DEF AddFails, TakeEvent
  <2> QED
    BY <1>5, <2>1, <2>2, <2>3, QuietStep DEF AddFails, TakeEvent, clientVars
<1>6. ASSUME NEW c \in Conns, readData(c) PROVE EventMatchesWatch'
  <2>1. PICK n \in 1..BufferSize :
          /\ n <= Len(inbox[c])
          /\ buf' = [buf EXCEPT ![c] = Upper(SubSeq(inbox[c], 1, n))]
          /\ inbox' = [inbox EXCEPT ![c] = SubSeq(@, n + 1, Len(@))]
    BY <1>6 DEF readData
  <2>2. /\ Upper(SubSeq(inbox[c], 1, n)) \in Seq(Byte)
        /\ Len(Upper(SubSeq(inbox[c], 1, n))) <= BufferSize
        /\ SubSeq(inbox[c], n + 1, Len(inbox[c])) \in Seq(Byte)
    BY <1>0, <2>1, Taken DEF TypeOK
  <2>3. buf' \in [Conns -> Seq(Byte)] /\ \A d \in Conns : Len(buf'[d]) <= BufferSize
    BY <1>0, <2>1, <2>2 DEF TypeOK
  <2>4. inbox' \in [Conns -> Seq(Byte)]
    BY <1>0, <2>1, <2>2 DEF TypeOK
  <2>5. TypeOK'
    <3>1. Switch(c, "writrData", "EPOLLOUT")
      BY <1>6 DEF readData
    <3>2. /\ conn' \in [Conns -> {"new", "backlog", "open", "closed", "leaked"}]
          /\ function' \in [Conns -> {"deleted", "readData", "writrData"}]
          /\ watch' \in [Conns -> {"none", "EPOLLIN", "EPOLLOUT"}]
          /\ faults' \in 0..MaxFaults
      BY <1>0, <3>1, ServedTypes
    <3>3. batch' \subseteq Conns \cup {Listen}
      BY <1>0, <1>6 DEF readData, TakeEvent, TypeOK
    <3> QED
      BY <1>0, <1>6, <2>3, <2>4, <3>2, <3>3 DEF readData, TypeOK
  <2>6. conn[c] = "open"
    BY <1>6, Served DEF readData
  <2>7. /\ conn'[c] # "backlog" /\ watch'[c] = Watches(c)'
        /\ function'[c] # "deleted" <=> conn'[c] = "open"
    BY <1>0, <1>6, <2>6 DEF readData, Switch, Drop, Watches, TypeOK
  <2>8. \A d \in Conns \ {c} : /\ conn'[d] = conn[d] /\ function'[d] = function[d]
                               /\ watch'[d] = watch[d] /\ inbox'[d] = inbox[d]
                               /\ peer'[d] = peer[d]
    BY <1>0, <1>6, <2>1 DEF readData, Switch, Drop, TypeOK
  <2> QED
    BY <1>6, <2>5, <2>6, <2>7, <2>8, OthersKeep DEF readData
<1>7. ASSUME NEW c \in Conns, writrData(c) PROVE EventMatchesWatch'
  <2>1. echo' \in [Conns -> Seq(Byte)]
    <3>1. echo[c] \o buf[c] \in Seq(Byte)
      BY <1>0 DEF TypeOK
    <3> QED
      BY <1>0, <1>7, <3>1 DEF writrData, TypeOK
  <2>2. TypeOK'
    <3>1. Switch(c, "readData", "EPOLLIN")
      BY <1>7 DEF writrData
    <3>2. /\ conn' \in [Conns -> {"new", "backlog", "open", "closed", "leaked"}]
          /\ function' \in [Conns -> {"deleted", "readData", "writrData"}]
          /\ watch' \in [Conns -> {"none", "EPOLLIN", "EPOLLOUT"}]
          /\ faults' \in 0..MaxFaults
      BY <1>0, <3>1, ServedTypes
    <3>3. batch' \subseteq Conns \cup {Listen}
      BY <1>0, <1>7 DEF writrData, TakeEvent, TypeOK
    <3> QED
      BY <1>0, <1>7, <2>1, <3>2, <3>3 DEF writrData, TypeOK, clientVars
  <2>3. conn[c] = "open"
    BY <1>7, Served DEF writrData
  <2>4. /\ conn'[c] # "backlog" /\ watch'[c] = Watches(c)'
        /\ function'[c] # "deleted" <=> conn'[c] = "open"
    BY <1>0, <1>7, <2>3 DEF writrData, Switch, Drop, Watches, TypeOK
  <2>5. \A d \in Conns \ {c} : /\ conn'[d] = conn[d] /\ function'[d] = function[d]
                               /\ watch'[d] = watch[d] /\ inbox'[d] = inbox[d]
                               /\ peer'[d] = peer[d]
    BY <1>0, <1>7 DEF writrData, Switch, Drop, TypeOK, clientVars
  <2> QED
    BY <1>7, <2>2, <2>3, <2>4, <2>5, OthersKeep DEF writrData
<1>8. ASSUME NEW c \in Conns, ReadFails(c) \/ WriteFails(c) PROVE EventMatchesWatch'
  <2>1. TypeOK'
    BY <1>0, <1>8 DEF ReadFails, WriteFails, TakeEvent, Drop, Works, TypeOK, clientVars
  <2>2. conn[c] = "open"
    BY <1>8, Served DEF ReadFails, WriteFails
  <2>3. /\ conn'[c] # "backlog" /\ watch'[c] = Watches(c)'
        /\ function'[c] # "deleted" <=> conn'[c] = "open"
    BY <1>0, <1>8 DEF ReadFails, WriteFails, Drop, Watches, TypeOK
  <2>4. \A d \in Conns \ {c} : /\ conn'[d] = conn[d] /\ function'[d] = function[d]
                               /\ watch'[d] = watch[d] /\ inbox'[d] = inbox[d]
                               /\ peer'[d] = peer[d]
    BY <1>0, <1>8 DEF ReadFails, WriteFails, Drop, TypeOK, clientVars
  <2> QED
    BY <1>8, <2>1, <2>2, <2>3, <2>4, OthersKeep DEF ReadFails, WriteFails
<1>9. ASSUME NEW c \in Conns, Sigpipe(c) PROVE EventMatchesWatch'
  <2>1. TypeOK'
    BY <1>0, <1>9 DEF Sigpipe, TakeEvent, TypeOK, clientVars
  <2> QED
    BY <1>9, <2>1, QuietStep DEF Sigpipe, TakeEvent, Backlog, clientVars
<1>10. ASSUME NEW c \in Conns, Connect(c) PROVE EventMatchesWatch'
  <2>1. TypeOK'
    BY <1>0, <1>10 DEF Connect, TypeOK, clientVars
  <2>2. c \in Backlog'
    BY <1>0, <1>10 DEF Connect, Backlog, TypeOK
  <2>3. \A d \in Conns : conn'[d] = "open" <=> conn[d] = "open"
    BY <1>0, <1>10 DEF Connect, TypeOK
  <2> QED
    BY <1>10, <2>1, <2>2, <2>3, QuietStep DEF Connect, clientVars
<1>11. ASSUME NEW c \in Conns, SendByte(c) PROVE EventMatchesWatch'
  <2>1. MaxBytes \in 0..26 /\ Len(sent[c]) \in Nat /\ Len(sent[c]) < MaxBytes
    BY <1>0, <1>11, EpollReactorAssumption DEF SendByte, TypeOK
  <2>2. 97 + Len(sent[c]) \in Byte
    BY <2>1, OneMore
  <2>3. /\ Append(sent[c], 97 + Len(sent[c])) \in Seq(Byte)
        /\ Append(inbox[c], 97 + Len(sent[c])) \in Seq(Byte)
        /\ Append(inbox[c], 97 + Len(sent[c])) # <<>>
    BY <1>0, <2>2, OneMore DEF TypeOK
  <2>4. TypeOK'
    BY <1>0, <1>11, <2>3 DEF SendByte, TypeOK
  <2>5. \A d \in Conns : inbox[d] # <<>> => inbox'[d] # <<>>
    BY <1>0, <1>11, <2>3 DEF SendByte, TypeOK
  <2> QED
    BY <1>11, <2>4, <2>5, QuietStep DEF SendByte, Backlog
<1>12. ASSUME NEW c \in Conns, Leave(c) PROVE EventMatchesWatch'
  <2>1. TypeOK'
    BY <1>0, <1>12 DEF Leave, TypeOK
  <2>2. \A d \in Conns : peer[d] = "gone" => peer'[d] = "gone"
    BY <1>0, <1>12 DEF Leave, TypeOK
  <2> QED
    BY <1>12, <2>1, <2>2, QuietStep DEF Leave, Backlog
<1>13. CASE UNCHANGED vars
  <2>1. TypeOK'
    BY <1>0, <1>13 DEF TypeOK, vars, clientVars
  <2> QED
    BY <1>13, <2>1, QuietStep DEF vars, clientVars, Backlog
<1> QED
  BY <1>1, <1>2, <1>3, <1>4, <1>5, <1>6, <1>7, <1>8, <1>9, <1>10, <1>11, <1>12, <1>13
     DEF Next, Server, Clients

(* A callback never meets a myEvent that is deleted, an event it does not  *)
(* expect, or a call that would block the server's only thread.            *)
THEOREM CallbackMatchesEvent == Spec => []EventMatchesWatch
BY ReactorInit, ReactorNext, PTL DEF Spec

-----------------------------------------------------------------------------
(* Where each byte is: answered ones are a beginning of what the client    *)
(* sent, then come those in the buffer, then those recv has yet to return. *)
InOrder(c) ==
  LET held == Unanswered(c) IN
  /\ Len(echo[c]) + Len(held) + Len(inbox[c]) = Len(sent[c])
  /\ \A i \in 1..Len(held) : held[i] = toupper(sent[c][Len(echo[c]) + i])
  /\ \A i \in 1..Len(inbox[c]) : inbox[c][i] = sent[c][Len(echo[c]) + Len(held) + i]
Beginning(c) ==
  Len(echo[c]) <= Len(sent[c]) /\ \A i \in 1..Len(echo[c]) : echo[c][i] = toupper(sent[c][i])
Untouched(c) == inbox[c] = sent[c] /\ echo[c] = <<>>

EchoAt(c) ==
  /\ conn[c] = "open" => InOrder(c)
  /\ conn[c] \in {"new", "backlog"} => Untouched(c)
  /\ Beginning(c)
EchoInv == \A c \in Conns : EchoAt(c)

(* No byte is sent yet ...                                                 *)
LEMMA EchoInit == Init => EchoInv
<1>1. Len(<<>>) = 0
  OBVIOUS
<1> SUFFICES ASSUME Init, NEW c \in Conns PROVE EchoAt(c)
  BY DEF EchoInv
<1>2. conn[c] = "new" /\ inbox[c] = <<>> /\ sent[c] = <<>> /\ echo[c] = <<>>
  BY DEF Init
<1> QED
  BY <1>1, <1>2 DEF EchoAt, Untouched, Beginning

(* A step that neither moves a byte of c nor begins to serve it.           *)
LEMMA EchoKept ==
  ASSUME NEW c \in Conns, EchoAt(c),
         echo'[c] = echo[c], sent'[c] = sent[c], inbox'[c] = inbox[c],
         conn'[c] = "open" => conn[c] = "open" /\ function'[c] = function[c] /\ buf'[c] = buf[c],
         conn'[c] \in {"new", "backlog"} => conn[c] \in {"new", "backlog"}
  PROVE  EchoAt(c)'
BY DEF EchoAt, InOrder, Beginning, Untouched, Unanswered

(* The end of c: what it was sent remains a beginning.                     *)
LEMMA EchoEnds ==
  ASSUME NEW c \in Conns, Beginning(c)', conn'[c] = "closed"
  PROVE  EchoAt(c)'
BY DEF EchoAt

(* The kinds of a connection's state, and what a byte sequence is made of. *)
LEMMA BytesOf ==
  ASSUME TypeOK, NEW c \in Conns
  PROVE  /\ echo[c] \in Seq(Byte) /\ sent[c] \in Seq(Byte) /\ inbox[c] \in Seq(Byte) /\ buf[c] \in Seq(Byte)
         /\ Len(echo[c]) \in Nat /\ Len(sent[c]) \in Nat /\ Len(inbox[c]) \in Nat /\ Len(buf[c]) \in Nat
BY DEF TypeOK

(* What is appended to a sequence comes after all of it.                   *)
LEMMA Joined ==
  ASSUME NEW s \in Seq(Byte), NEW t \in Seq(Byte)
  PROVE  /\ Len(s \o t) = Len(s) + Len(t)
         /\ \A i \in 1..Len(s) : (s \o t)[i] = s[i]
         /\ \A i \in 1..Len(t) : (s \o t)[Len(s) + i] = t[i]
<1>1. /\ Len(s) \in Nat /\ Len(t) \in Nat
      /\ \A i \in 1..Len(s) + Len(t) : (s \o t)[i] = IF i <= Len(s) THEN s[i] ELSE t[i - Len(s)]
  OBVIOUS
<1> DEFINE m == Len(s)
           n == Len(t)
<1> HIDE DEF m, n
<1>2. m \in Nat /\ n \in Nat
  BY <1>1 DEF m, n
<1>3. /\ \A i \in 1..m : i \in 1..m+n /\ i <= m
      /\ \A i \in 1..n : m + i \in 1..m+n /\ ~(m + i <= m) /\ (m + i) - m = i
  BY <1>2
<1>4. Len(s \o t) = m + n
  BY ConcatProperties DEF m, n
<1>5. /\ \A i \in 1..m : (s \o t)[i] = s[i]
      /\ \A i \in 1..n : (s \o t)[m + i] = t[i]
  BY <1>1, <1>3 DEF m, n
<1> QED
  BY <1>4, <1>5 DEF m, n

(* recv: the first n bytes move from the inbox into the buffer.            *)
LEMMA EchoRead ==
  ASSUME TypeOK, EventMatchesWatch, NEW c \in Conns, EchoAt(c), readData(c)
  PROVE  EchoAt(c)'
<1>1. conn[c] = "open" /\ function[c] = "readData"
  BY Served DEF readData
<1>2. echo'[c] = echo[c] /\ sent'[c] = sent[c]
  BY DEF readData
<1>3. PICK n \in 1..BufferSize :
        /\ n <= Len(inbox[c])
        /\ buf'[c] = Upper(SubSeq(inbox[c], 1, n))
        /\ inbox'[c] = SubSeq(inbox[c], n + 1, Len(inbox[c]))
  BY DEF readData, TypeOK
<1>4. n \in Nat /\ n > 0 /\ Len(inbox[c]) \in Nat /\ inbox[c] \in Seq(Byte)
      /\ Len(echo[c]) \in Nat /\ Len(sent[c]) \in Nat
  BY EpollReactorAssumption, BytesOf
<1>5. /\ Len(buf'[c]) = n
      /\ \A i \in 1..n : buf'[c][i] = toupper(inbox[c][i])
  <2>1. /\ Len(SubSeq(inbox[c], 1, n)) = n
        /\ \A i \in 1..n : SubSeq(inbox[c], 1, n)[i] = inbox[c][i]
    BY <1>3, <1>4
  <2>2. buf'[c] = [i \in 1..n |-> toupper(SubSeq(inbox[c], 1, n)[i])]
    BY <1>3, <2>1 DEF Upper
  <2>3. Len(buf'[c]) = n
    BY <1>4, <2>2
  <2> QED
    BY <2>1, <2>2, <2>3
<1>6. /\ Len(inbox'[c]) = Len(inbox[c]) - n
      /\ \A i \in 1..Len(inbox[c])-n : inbox'[c][i] = inbox[c][n + i]
  BY <1>3, <1>4
<1>7. Beginning(c)'
  BY <1>2 DEF EchoAt, Beginning
<1>8. /\ Len(echo[c]) + Len(inbox[c]) = Len(sent[c])
      /\ \A i \in 1..Len(inbox[c]) : inbox[c][i] = sent[c][Len(echo[c]) + i]
  <2>1. Len(Unanswered(c)) = 0
    BY <1>1 DEF Unanswered
  <2>2. InOrder(c)
    BY <1>1 DEF EchoAt
  <2>3. \A k \in Nat : k + 0 = k
    OBVIOUS
  <2>4. Len(echo[c]) + 0 = Len(echo[c])
    BY <1>4, <2>3
  <2>5. /\ Len(echo[c]) + 0 + Len(inbox[c]) = Len(sent[c])
        /\ \A i \in 1..Len(inbox[c]) : inbox[c][i] = sent[c][Len(echo[c]) + 0 + i]
    BY <2>1, <2>2, Zenon DEF InOrder
  <2> QED
    BY <2>4, <2>5, Zenon
<1>9. CASE conn'[c] = "closed"
  BY <1>7, <1>9, EchoEnds
<1>10. CASE conn'[c] = "open" /\ function'[c] = "writrData"
  <2>1. Unanswered(c)' = buf'[c]
    BY <1>10 DEF Unanswered
  <2>2. \A i \in 1..n : i \in 1..Len(inbox[c])
    BY <1>3, <1>4
  <2>3. \A i \in 1..n : buf'[c][i] = toupper(sent[c][Len(echo[c]) + i])
    BY <1>5, <1>8, <2>2
  <2>4. ASSUME NEW i \in 1..Len(inbox'[c])
        PROVE  inbox'[c][i] = sent[c][Len(echo[c]) + n + i]
    <3>1. n + i \in 1..Len(inbox[c]) /\ inbox'[c][i] = inbox[c][n + i]
      BY <1>3, <1>4, <1>6
    <3>2. inbox[c][n + i] = sent[c][Len(echo[c]) + (n + i)]
      BY <1>8, <3>1
    <3>3. Len(echo[c]) + (n + i) = Len(echo[c]) + n + i
      BY <1>4, <1>6
    <3> QED
      BY <3>1, <3>2, <3>3
  <2>5. Len(echo[c]) + n + Len(inbox'[c]) = Len(sent[c])
    <3>1. \A k, l, m \in Nat : k + l + (m - l) = k + m
      OBVIOUS
    <3>2. Len(echo[c]) + n + (Len(inbox[c]) - n) = Len(echo[c]) + Len(inbox[c])
      BY <1>4, <3>1
    <3> QED
      BY <1>6, <1>8, <3>2, Zenon
  <2>6. InOrder(c)'
    BY <1>2, <1>5, <2>1, <2>3, <2>4, <2>5 DEF InOrder
  <2> QED
    BY <1>7, <1>10, <2>6 DEF EchoAt
<1>11. conn'[c] = "closed" \/ (conn'[c] = "open" /\ function'[c] = "writrData")
  BY <1>1 DEF readData, Switch, Drop, TypeOK
<1> QED
  BY <1>9, <1>10, <1>11

(* send: the buffer moves to the end of what the client was sent.          *)
LEMMA EchoWrite ==
  ASSUME TypeOK, EventMatchesWatch, NEW c \in Conns, EchoAt(c), writrData(c)
  PROVE  EchoAt(c)'
<1> DEFINE e == Len(echo[c])
           b == Len(buf[c])
           n == Len(inbox[c])
           s == Len(sent[c])
<1> HIDE DEF e, b, n, s
<1>1. conn[c] = "open" /\ function[c] = "writrData" /\ Unanswered(c) = buf[c]
  BY Served DEF writrData, Unanswered
<1>2. sent'[c] = sent[c] /\ inbox'[c] = inbox[c] /\ echo'[c] = echo[c] \o buf[c]
  BY DEF writrData, TypeOK, clientVars
<1>3. /\ Len(echo'[c]) = e + b
      /\ \A i \in 1..e : echo'[c][i] = echo[c][i]
      /\ \A i \in 1..b : echo'[c][e + i] = buf[c][i]
  <2>1. echo[c] \in Seq(Byte) /\ buf[c] \in Seq(Byte)
    BY BytesOf
  <2>2. /\ Len(echo[c] \o buf[c]) = Len(echo[c]) + Len(buf[c])
        /\ \A i \in 1..Len(echo[c]) : (echo[c] \o buf[c])[i] = echo[c][i]
        /\ \A i \in 1..Len(buf[c]) : (echo[c] \o buf[c])[Len(echo[c]) + i] = buf[c][i]
    BY <2>1, Joined, Zenon
  <2> QED
    BY <1>2, <2>2, Zenon DEF e, b
<1>9. e \in Nat /\ b \in Nat /\ n \in Nat /\ s \in Nat
  BY BytesOf DEF e, b, n, s
<1>4. /\ e + b + n = s
      /\ \A i \in 1..b : buf[c][i] = toupper(sent[c][e + i])
      /\ \A i \in 1..n : inbox[c][i] = sent[c][e + b + i]
  BY <1>1 DEF EchoAt, InOrder, e, b, n, s
<1>5. Beginning(c)'
  <2>1. ASSUME NEW i \in 1..e+b PROVE echo'[c][i] = toupper(sent[c][i])
    <3>1. CASE i \in 1..e
      BY <1>3, <3>1 DEF EchoAt, Beginning, e
    <3>2. CASE i \notin 1..e
      <4>1. i - e \in 1..b /\ e + (i - e) = i
        BY <1>9, <3>2
      <4>2. echo'[c][e + (i - e)] = toupper(sent[c][e + (i - e)])
        BY <1>3, <1>4, <4>1
      <4> QED
        BY <4>1, <4>2
    <3> QED
      BY <3>1, <3>2
  <2>2. e + b + n = s
    BY <1>4
  <2>3. e + b <= s
    BY <1>9, <2>2
  <2> QED
    BY <1>2, <1>3, <2>1, <2>3 DEF Beginning, s
<1>6. CASE conn'[c] = "closed"
  BY <1>5, <1>6, EchoEnds
<1>7. CASE conn'[c] = "open" /\ function'[c] = "readData"
  <2>1. Unanswered(c)' = <<>> /\ Len(<<>>) = 0
    BY <1>7 DEF Unanswered
  <2>2. Len(Unanswered(c)') = 0 /\ \A i \in 1..0 : FALSE
    BY <2>1
  <2>3. e + b + 0 = e + b
    BY <1>9
  <2>4. /\ Len(echo'[c]) + Len(Unanswered(c)') + Len(inbox'[c]) = Len(sent'[c])
        /\ \A i \in 1..Len(inbox'[c]) :
              inbox'[c][i] = sent'[c][Len(echo'[c]) + Len(Unanswered(c)') + i]
    BY <1>2, <1>3, <1>4, <2>2, <2>3, Zenon DEF n, s
  <2>5. InOrder(c)'
    BY <2>2, <2>4 DEF InOrder
  <2> QED
    BY <1>5, <1>7, <2>5 DEF EchoAt
<1>8. conn'[c] = "closed" \/ (conn'[c] = "open" /\ function'[c] = "readData")
  BY <1>1 DEF writrData, Switch, Drop, TypeOK
<1> QED
  BY <1>6, <1>7, <1>8

(* The client sends one more byte: it joins both the inbox and sent.       *)
LEMMA EchoByte ==
  ASSUME TypeOK, NEW c \in Conns, EchoAt(c), SendByte(c)
  PROVE  EchoAt(c)'
<1> DEFINE s == Len(sent[c])
           n == Len(inbox[c])
           e == Len(echo[c])
           byte == 97 + s
           h == Len(Unanswered(c))
<1> HIDE DEF s, n, e, h, byte
<1>1. /\ UNCHANGED <<conn, function, buf, echo>> /\ Unanswered(c)' = Unanswered(c)
      /\ sent'[c] = Append(sent[c], byte) /\ inbox'[c] = Append(inbox[c], byte)
  BY DEF SendByte, TypeOK, Unanswered, byte, s
<1>2. e \in Nat /\ s \in Nat /\ n \in Nat /\ h \in Nat
  BY BytesOf DEF Unanswered, e, s, n, h
<1>7. byte \in Byte
  <2>1. MaxBytes \in 0..26 /\ s < MaxBytes
    BY EpollReactorAssumption DEF SendByte, s
  <2> QED
    BY <1>2, <2>1, OneMore DEF byte
<1>3. /\ Len(sent'[c]) = s + 1 /\ Len(inbox'[c]) = n + 1
      /\ \A i \in 1..s : sent'[c][i] = sent[c][i]
      /\ \A i \in 1..n : inbox'[c][i] = inbox[c][i]
      /\ sent'[c][s+1] = byte /\ inbox'[c][n+1] = byte
  BY <1>1, <1>7, BytesOf DEF s, n
<1>4. Beginning(c)'
  <2>1. e <= s /\ \A i \in 1..e : echo[c][i] = toupper(sent[c][i])
    BY DEF EchoAt, Beginning, e, s
  <2>2. e <= s + 1 /\ \A i \in 1..e : i \in 1..s
    BY <1>2, <2>1
  <2> QED
    BY <1>1, <1>3, <2>1, <2>2 DEF Beginning, e
<1>5. ASSUME conn[c] = "open" PROVE InOrder(c)'
  <2>1. /\ e + h + n = s
        /\ \A i \in 1..h : Unanswered(c)[i] = toupper(sent[c][e + i])
        /\ \A i \in 1..n : inbox[c][i] = sent[c][e + h + i]
    BY <1>5 DEF EchoAt, InOrder, e, h, n, s
  <2>2. /\ e + h + (n + 1) = s + 1 /\ e + h + (n + 1) = (e + h + n) + 1
        /\ \A i \in 1..h : e + i \in 1..s
        /\ \A i \in 1..n : e + h + i \in 1..s
        /\ \A i \in 1..n+1 : i \in 1..n \/ i = n + 1
    <3>1. e + h + n = s
      BY <2>1
    <3> QED
      BY <1>2, <3>1
  <2>3. \A i \in 1..h : Unanswered(c)[i] = toupper(sent'[c][e + i])
    BY <1>3, <2>1, <2>2
  <2>4. ASSUME NEW i \in 1..n+1 PROVE inbox'[c][i] = sent'[c][e + h + i]
    <3>1. CASE i \in 1..n
      BY <1>3, <2>1, <2>2, <3>1
    <3>2. CASE i = n + 1
      BY <1>3, <2>2, <3>2
    <3> QED
      BY <2>2, <3>1, <3>2
  <2> QED
    BY <1>1, <1>3, <2>2, <2>3, <2>4 DEF InOrder, e, h
<1>6. conn[c] \in {"new", "backlog"} => Untouched(c)'
  BY <1>1 DEF EchoAt, Untouched
<1> QED
  BY <1>1, <1>4, <1>5, <1>6 DEF EchoAt

(* Only the connection of the event that is handled has its bytes moved.   *)
LEMMA EchoNext == EventMatchesWatch /\ EchoInv /\ [Next]_vars => EchoInv'
<1> SUFFICES ASSUME EventMatchesWatch, EchoInv, [Next]_vars, NEW c \in Conns PROVE EchoAt(c)'
  BY DEF EchoInv
<1>0. TypeOK /\ EchoAt(c)
  BY DEF EventMatchesWatch, EchoInv
<1> USE <1>0
<1>1. CASE EpollWait \/ EpollWaitFails \/ AcceptFails \/ UNCHANGED vars
  BY <1>1, EchoKept DEF EpollWait, EpollWaitFails, AcceptFails, clientVars, vars
<1>2. ASSUME NEW d \in Conns, initAccept(d) PROVE EchoAt(c)'
  <2>1. UNCHANGED <<inbox, sent, echo>>
    BY <1>2 DEF initAccept, clientVars
  <2>2. CASE c # d
    <3>1. conn'[c] = conn[c] /\ function'[c] = function[c] /\ buf'[c] = buf[c]
      BY <1>2, <2>2 DEF initAccept, TypeOK
    <3> QED
      BY <2>1, <3>1, EchoKept
  <2>3. CASE c = d
    <3>1. conn[c] = "backlog" /\ conn'[c] = "open" /\ function'[c] = "readData"
      BY <1>2, <2>3 DEF initAccept, Backlog, TypeOK
    <3>2. Untouched(c)
      BY <3>1 DEF EchoAt
    <3>3. Unanswered(c)' = <<>> /\ Len(<<>>) = 0
      BY <3>1 DEF Unanswered
    <3>4. Len(sent[c]) \in Nat /\ \A i \in 1..Len(sent[c]) : 0 + 0 + i = i
      BY BytesOf
    <3>5. InOrder(c)'
      <4>1. /\ Len(Unanswered(c)') = 0 /\ Len(echo'[c]) = 0 /\ inbox'[c] = sent[c] /\ sent'[c] = sent[c]
            /\ 0 + 0 + Len(sent[c]) = Len(sent[c]) /\ \A i \in 1..0 : FALSE
        BY <2>1, <3>2, <3>3, <3>4 DEF Untouched
      <4> QED
        BY <3>4, <4>1 DEF InOrder
    <3> QED
      BY <2>1, <3>1, <3>5 DEF EchoAt, Beginning
  <2> QED
    BY <2>2, <2>3
<1>3. ASSUME NEW d \in Conns, AddFails(d) PROVE EchoAt(c)'
  <2>1. UNCHANGED <<inbox, sent, echo, function, buf>>
    BY <1>3 DEF AddFails, clientVars
  <2>2. conn'[c] \in {conn[c], "leaked", "closed"}
    BY <1>3 DEF AddFails
  <2> QED
    BY <2>1, <2>2, EchoKept
<1>4. ASSUME NEW d \in Conns, readData(d) PROVE EchoAt(c)'
  <2>1. CASE c = d
    BY <1>4, <2>1, EchoRead
  <2>2. CASE c # d
    <3>1. /\ echo'[c] = echo[c] /\ sent'[c] = sent[c] /\ inbox'[c] = inbox[c] /\ buf'[c] = buf[c]
          /\ conn'[c] = conn[c] /\ function'[c] = function[c]
      BY <1>4, <2>2 DEF readData, Switch, Drop, TypeOK
    <3> QED
      BY <3>1, EchoKept
  <2> QED
    BY <2>1, <2>2
<1>5. ASSUME NEW d \in Conns, writrData(d) PROVE EchoAt(c)'
  <2>1. CASE c = d
    BY <1>5, <2>1, EchoWrite
  <2>2. CASE c # d
    <3>1. /\ echo'[c] = echo[c] /\ sent'[c] = sent[c] /\ inbox'[c] = inbox[c] /\ buf'[c] = buf[c]
          /\ conn'[c] = conn[c] /\ function'[c] = function[c]
      BY <1>5, <2>2 DEF writrData, Switch, Drop, TypeOK, clientVars
    <3> QED
      BY <3>1, EchoKept
  <2> QED
    BY <2>1, <2>2
<1>6. ASSUME NEW d \in Conns, ReadFails(d) \/ WriteFails(d) PROVE EchoAt(c)'
  <2>1. UNCHANGED <<inbox, sent, echo, buf>> /\ Drop(d)
    BY <1>6 DEF ReadFails, WriteFails, clientVars
  <2>2. conn'[c] = "closed" \/ (conn'[c] = conn[c] /\ function'[c] = function[c])
    BY <2>1 DEF Drop, TypeOK
  <2> QED
    BY <2>1, <2>2, EchoKept
<1>7. ASSUME NEW d \in Conns, Sigpipe(d) \/ Leave(d) PROVE EchoAt(c)'
  BY <1>7, EchoKept DEF Sigpipe, Leave, clientVars
<1>8. ASSUME NEW d \in Conns, Connect(d) PROVE EchoAt(c)'
  <2>1. UNCHANGED <<inbox, sent, echo, function, buf>>
    BY <1>8 DEF Connect, clientVars
  <2>2. conn'[c] = conn[c] \/ (conn[c] = "new" /\ conn'[c] = "backlog")
    BY <1>8 DEF Connect, TypeOK
  <2> QED
    BY <2>1, <2>2, EchoKept
<1>9. ASSUME NEW d \in Conns, SendByte(d) PROVE EchoAt(c)'
  <2>1. CASE c = d
    BY <1>9, <2>1, EchoByte
  <2>2. CASE c # d
    BY <1>9, <2>2, EchoKept DEF SendByte, TypeOK
  <2> QED
    BY <2>1, <2>2
<1> QED
  BY <1>1, <1>2, <1>3, <1>4, <1>5, <1>6, <1>7, <1>8, <1>9 DEF Next, Server, Clients

(* What the position of each byte says of the sequences.                   *)
LEMMA EchoSequences ==
  ASSUME TypeOK, NEW c \in Conns, EchoAt(c)
  PROVE  /\ conn[c] = "open" => echo[c] \o Unanswered(c) \o Upper(inbox[c]) = Upper(sent[c])
         /\ Len(echo[c]) <= Len(sent[c])
         /\ echo[c] = SubSeq(Upper(sent[c]), 1, Len(echo[c]))
<1> DEFINE e == Len(echo[c])
           h == Len(Unanswered(c))
           n == Len(inbox[c])
           s == Len(sent[c])
           U == Upper(sent[c])
           H == Unanswered(c)
           N == Upper(inbox[c])
<1> HIDE DEF e, h, n, s, U, H, N
<1>1. /\ e \in Nat /\ s \in Nat /\ n \in Nat /\ h \in Nat
      /\ echo[c] \in Seq(Byte) /\ H \in Seq(Byte) /\ N \in Seq(Byte) /\ U \in Seq(Byte)
      /\ Len(H) = h /\ Len(N) = n /\ Len(U) = s /\ Len(echo[c]) = e
  BY BytesOf, ToUpper DEF Unanswered, e, h, n, s, U, H, N
<1>2. /\ \A i \in 1..s : U[i] = toupper(sent[c][i])
      /\ \A i \in 1..n : N[i] = toupper(inbox[c][i])
  BY DEF Upper, U, N, s, n
<1>3. e <= s /\ \A i \in 1..e : echo[c][i] = U[i]
  <2>1. e <= s /\ \A i \in 1..e : echo[c][i] = toupper(sent[c][i])
    BY DEF EchoAt, Beginning, e, s
  <2>2. \A i \in 1..e : i \in 1..s
    BY <1>1, <2>1
  <2> QED
    BY <1>2, <2>1, <2>2
<1>4. echo[c] = SubSeq(U, 1, e)
  <2>1. SubSeq(U, 1, e) \in Seq(Byte) /\ Len(SubSeq(U, 1, e)) = e /\ \A i \in 1..e : SubSeq(U, 1, e)[i] = U[i]
    BY <1>1, <1>3
  <2> QED
    BY <1>1, <1>3, <2>1, SeqEqual
<1>5. ASSUME conn[c] = "open" PROVE echo[c] \o H \o N = U
  <2>1. /\ e + h + n = s
        /\ \A i \in 1..h : H[i] = toupper(sent[c][e + i])
        /\ \A i \in 1..n : inbox[c][i] = sent[c][e + h + i]
    BY <1>5 DEF EchoAt, InOrder, e, h, n, s, H
  <2>2. /\ \A i \in 1..h : e + i \in 1..s
        /\ \A i \in 1..n : e + h + i \in 1..s
    BY <1>1, <2>1
  <2>3. /\ \A i \in 1..h : H[i] = U[e + i]
        /\ \A i \in 1..n : N[i] = U[e + h + i]
    BY <1>2, <2>1, <2>2
  <2> DEFINE A == echo[c] \o H
             B == A \o N
  <2> HIDE DEF A, B
  <2>4. A \in Seq(Byte) /\ Len(A) = e + h /\ \A i \in 1..e+h : A[i] = U[i]
    <3>1. /\ A \in Seq(Byte) /\ Len(A) = e + h
          /\ \A i \in 1..e : A[i] = echo[c][i]
          /\ \A i \in 1..h : A[e + i] = H[i]
      <4>1. echo[c] \o H \in Seq(Byte)
        BY <1>1
      <4> QED
        BY <1>1, <4>1, Joined, Zenon DEF A
    <3>2. ASSUME NEW i \in 1..e+h PROVE A[i] = U[i]
      <4>1. CASE i \in 1..e
        BY <1>3, <3>1, <4>1
      <4>2. CASE i \notin 1..e
        <5>1. i - e \in 1..h /\ e + (i - e) = i
          BY <1>1, <4>2
        <5>2. A[e + (i - e)] = U[e + (i - e)]
          BY <2>3, <3>1, <5>1
        <5> QED
          BY <5>1, <5>2
      <4> QED
        BY <4>1, <4>2
    <3> QED
      BY <3>1, <3>2
  <2>5. B \in Seq(Byte) /\ Len(B) = s /\ \A i \in 1..s : B[i] = U[i]
    <3>1. /\ B \in Seq(Byte) /\ Len(B) = e + h + n
          /\ \A i \in 1..e+h : B[i] = A[i]
          /\ \A i \in 1..n : B[e + h + i] = N[i]
      <4>1. A \o N \in Seq(Byte)
        BY <1>1, <2>4
      <4> QED
        <5>1. /\ Len(A \o N) = Len(A) + Len(N)
              /\ \A i \in 1..Len(A) : (A \o N)[i] = A[i]
              /\ \A i \in 1..Len(N) : (A \o N)[Len(A) + i] = N[i]
          BY <1>1, <2>4, Joined
        <5> QED
          BY <1>1, <2>4, <4>1, <5>1, Zenon DEF B
    <3>2. ASSUME NEW i \in 1..s PROVE B[i] = U[i]
      <4>1. CASE i \in 1..e+h
        BY <2>4, <3>1, <4>1
      <4>2. CASE i \notin 1..e+h
        <5>1. i - (e + h) \in 1..n /\ e + h + (i - (e + h)) = i
          <6>1. e + h + n = s
            BY <2>1
          <6> QED
            BY <1>1, <4>2, <6>1
        <5>2. B[e + h + (i - (e + h))] = U[e + h + (i - (e + h))]
          BY <2>3, <3>1, <5>1
        <5> QED
          BY <5>1, <5>2
      <4> QED
        BY <4>1, <4>2
    <3> QED
      BY <2>1, <3>1, <3>2
  <2> QED
    BY <1>1, <2>5, SeqEqual DEF A, B
<1> QED
  BY <1>3, <1>4, <1>5 DEF e, s, U, H, N

(* What a client has been sent is what it sent, in capitals and in order,  *)
(* however recv and the callbacks cut it.                                  *)
THEOREM EchoesInOrder == Spec => []EchoInOrder
<1>1. EventMatchesWatch /\ EchoInv => EchoInOrder
  BY EchoSequences DEF EventMatchesWatch, EchoInv, EchoInOrder
<1> QED
  BY <1>1, EchoInit, EchoNext, CallbackMatchesEvent, PTL DEF Spec
=============================================================================
