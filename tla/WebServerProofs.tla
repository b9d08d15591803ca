-------------------------- MODULE WebServerProofs --------------------------
(***************************************************************************)
(* Theorems about WebServer for any set of descriptors and any number of   *)
(* connections and requests.                                               *)
(***************************************************************************)
EXTENDS WebServer, TLAPS

(* What main holds of the last epoll_wait: a connection that waits, and    *)
(* numbers that were closed, were taken again, or have something to read.  *)
(* The number in hand has left the batch.                                  *)
EventsAnnounced ==
  /\ Listen \in batch => backlog > 0
  /\ mainPc \in {"recv", "send"} => cfd \notin batch
  /\ \A fd \in Fds :
       (fd \in batch \/ (mainPc = "recv" /\ fd = cfd)) /\ fd \in open
         => Readable(fd) \/ fd \in accepted

MarksInv == Marked = open \cup {fd \in {cfd} : mainPc = "recv"}

(* An empty table marks no connection, and nothing is announced yet.       *)
LEMMA InvInit == Init => TypeOK /\ EventsAnnounced /\ MarksInv
<1> SUFFICES ASSUME Init PROVE TypeOK /\ EventsAnnounced /\ MarksInv
  OBVIOUS
<1> USE WebServerAssumption DEF Init
<1>1. TypeOK
  BY DEF TypeOK
<1>2. EventsAnnounced
  BY DEF EventsAnnounced
<1>3. MarksInv
  BY DEF MarksInv, Marked
<1> QED
  BY <1>1, <1>2, <1>3

(* Every step keeps the types, and with them who holds the mutex.          *)
LEMMA TypeNext == TypeOK /\ EventsAnnounced /\ [Next]_vars => TypeOK'
<1> SUFFICES ASSUME TypeOK, EventsAnnounced, [Next]_vars PROVE TypeOK'
  OBVIOUS
<1> USE WebServerAssumption DEF TypeOK, mainVars, closerVars, sockVars, clientVars
<1>1. ASSUME EpollWait PROVE TypeOK'
  BY <1>1 DEF EpollWait, Ready
<1>2. ASSUME Lock PROVE TypeOK'
  BY <1>2 DEF Lock
<1>3. ASSUME Accept PROVE TypeOK'
  BY <1>3 DEF Accept, Lowest, EventsAnnounced
<1>4. ASSUME OutOfNumbers \/ Fail PROVE TypeOK'
  BY <1>4 DEF OutOfNumbers, Fail
<1>5. ASSUME NEW fd \in Fds, TakeEvent(fd) PROVE TypeOK'
  BY <1>5 DEF TakeEvent
<1>6. ASSUME RecvFails \/ RecvBad \/ ScandirFails PROVE TypeOK'
  BY <1>6 DEF RecvFails, RecvBad, ScandirFails, CloseConnection
<1>7. ASSUME RecvGood \/ RecvEmpty \/ Answered PROVE TypeOK'
  BY <1>7 DEF RecvGood, RecvEmpty, Answered
<1>8. ASSUME Unlock PROVE TypeOK'
  BY <1>8 DEF Unlock
<1>9. ASSUME CloserLock \/ CloserUnlock PROVE TypeOK'
  BY <1>9 DEF CloserLock, CloserUnlock
<1>10. ASSUME NEW fd \in Fds, Pass(fd) PROVE TypeOK'
  BY <1>10 DEF Pass, CloseConnection
<1>11. ASSUME NEW fd \in Fds, Send(fd) \/ Leave(fd) \/ Age(fd) PROVE TypeOK'
  <2>1. CASE Send(fd)
    BY <2>1 DEF Send
  <2>2. CASE Leave(fd)
    <3>1. inbox' \in [Fds -> {"none", "good", "bad", "empty"}]
      BY <2>2 DEF Leave
    <3> QED
      BY <2>2, <3>1 DEF Leave
  <2>3. CASE Age(fd)
    BY <2>3 DEF Age
  <2> QED
    BY <1>11, <2>1, <2>2, <2>3
<1>12. ASSUME Connect PROVE TypeOK'
  BY <1>12 DEF Connect
<1>13. ASSUME UNCHANGED vars PROVE TypeOK'
  BY <1>13 DEF vars
<1> QED
  BY <1>1, <1>2, <1>3, <1>4, <1>5, <1>6, <1>7, <1>8, <1>9, <1>10, <1>11, <1>12, <1>13
     DEF Next, Running, Main, Closer, Clients, Ended

(* Only accept takes away what an event announced, and it says so.         *)
LEMMA EventsNext == TypeOK /\ EventsAnnounced /\ [Next]_vars => EventsAnnounced'
<1> SUFFICES ASSUME TypeOK, EventsAnnounced, [Next]_vars PROVE EventsAnnounced'
  OBVIOUS
<1> USE WebServerAssumption DEF TypeOK, EventsAnnounced, Readable, mainVars, closerVars, sockVars, clientVars
<1>1. ASSUME EpollWait PROVE EventsAnnounced'
  BY <1>1 DEF EpollWait, Ready
<1>2. ASSUME Lock PROVE EventsAnnounced'
  BY <1>2 DEF Lock
<1>3. ASSUME Accept PROVE EventsAnnounced'
  BY <1>3 DEF Accept, Lowest
<1>4. ASSUME OutOfNumbers \/ Fail PROVE EventsAnnounced'
  BY <1>4 DEF OutOfNumbers, Fail
<1>5. ASSUME NEW fd \in Fds, TakeEvent(fd) PROVE EventsAnnounced'
  BY <1>5 DEF TakeEvent
<1>6. ASSUME RecvFails \/ RecvBad \/ ScandirFails PROVE EventsAnnounced'
  BY <1>6 DEF RecvFails, RecvBad, ScandirFails, CloseConnection
<1>7. ASSUME RecvGood \/ RecvEmpty \/ Answered PROVE EventsAnnounced'
  BY <1>7 DEF RecvGood, RecvEmpty, Answered
<1>8. ASSUME Unlock PROVE EventsAnnounced'
  BY <1>8 DEF Unlock
<1>9. ASSUME CloserLock \/ CloserUnlock PROVE EventsAnnounced'
  BY <1>9 DEF CloserLock, CloserUnlock
<1>10. ASSUME NEW fd \in Fds, Pass(fd) PROVE EventsAnnounced'
  BY <1>10 DEF Pass, CloseConnection
<1>11. ASSUME NEW fd \in Fds, Send(fd) \/ Leave(fd) \/ Age(fd) PROVE EventsAnnounced'
  BY <1>11 DEF Send, Leave, Age
<1>12. ASSUME Connect PROVE EventsAnnounced'
  BY <1>12 DEF Connect
<1>13. ASSUME UNCHANGED vars PROVE EventsAnnounced'
  BY <1>13 DEF vars
<1> QED
  BY <1>1, <1>2, <1>3, <1>4, <1>5, <1>6, <1>7, <1>8, <1>9, <1>10, <1>11, <1>12, <1>13
     DEF Next, Running, Main, Closer, Clients, Ended

(* A mark is set and taken off together with the connection, but for the   *)
(* stale event in main's hands, which no other thread sees.                *)
LEMMA MarksNext == TypeOK /\ MarksInv /\ [Next]_vars => MarksInv'
<1> SUFFICES ASSUME TypeOK, MarksInv, [Next]_vars PROVE MarksInv'
  OBVIOUS
<1> USE WebServerAssumption DEF TypeOK, MarksInv, Marked, mainVars, closerVars, sockVars, clientVars
<1>1. ASSUME EpollWait \/ Lock \/ Unlock PROVE MarksInv'
  BY <1>1 DEF EpollWait, Lock, Unlock
<1>3. ASSUME Accept PROVE MarksInv'
  BY <1>3 DEF Accept, Lowest
<1>4. ASSUME OutOfNumbers \/ Fail PROVE MarksInv'
  BY <1>4 DEF OutOfNumbers, Fail
<1>5. ASSUME NEW fd \in Fds, TakeEvent(fd) PROVE MarksInv'
  BY <1>5 DEF TakeEvent
<1>6. ASSUME RecvFails \/ RecvBad \/ ScandirFails PROVE MarksInv'
  BY <1>6 DEF RecvFails, RecvBad, ScandirFails, CloseConnection
<1>7. ASSUME RecvGood \/ RecvEmpty \/ Answered PROVE MarksInv'
  BY <1>7 DEF RecvGood, RecvEmpty, Answered
<1>9. ASSUME CloserLock \/ CloserUnlock PROVE MarksInv'
  BY <1>9 DEF CloserLock, CloserUnlock
<1>10. ASSUME NEW fd \in Fds, Pass(fd) PROVE MarksInv'
  BY <1>10 DEF Pass, CloseConnection
<1>11. ASSUME NEW fd \in Fds, Send(fd) \/ Leave(fd) \/ Age(fd) PROVE MarksInv'
  BY <1>11 DEF Send, Leave, Age
<1>12. ASSUME Connect PROVE MarksInv'
  BY <1>12 DEF Connect
<1>13. ASSUME UNCHANGED vars PROVE MarksInv'
  BY <1>13 DEF vars
<1> QED
  BY <1>1, <1>3, <1>4, <1>5, <1>6, <1>7, <1>9, <1>10, <1>11, <1>12, <1>13
     DEF Next, Running, Main, Closer, Clients, Ended

(* The types, and the mutex with who holds it: main and the closer are     *)
(* never in their critical sections together.                              *)
THEOREM TypeCorrect == Spec => []TypeOK
<1>1. TypeOK /\ EventsAnnounced /\ [Next]_vars => TypeOK' /\ EventsAnnounced'
  BY TypeNext, EventsNext
<1> QED
  BY InvInit, <1>1, PTL DEF Spec

(* hash marks the open connections, and main's stale event at most; whoever*)
(* counts them under the mutex counts the connections.                     *)
THEOREM MarksAreConnections == Spec => []MarksMatchOpen
<1>1. TypeOK /\ MarksInv => MarksMatchOpen
  <2> SUFFICES ASSUME TypeOK, MarksInv PROVE MarksMatchOpen
    OBVIOUS
  <2>1. mutex # "main" => Marked = open
    BY DEF TypeOK, MarksInv
  <2> QED
    BY <2>1 DEF MarksInv, MarksMatchOpen, ConnectCount
<1>2. TypeOK /\ MarksInv /\ [Next]_vars => MarksInv'
  BY MarksNext
<1> QED
  BY InvInit, <1>1, <1>2, TypeCorrect, PTL DEF Spec

(* main waits in recv only for a connection whose number was closed and    *)
(* given out again behind its batch.                                       *)
THEOREM RecvBlocksOnReuseOnly == Spec => []BlockedOnlyByReuse
<1>1. TypeOK /\ EventsAnnounced => BlockedOnlyByReuse
  BY DEF TypeOK, EventsAnnounced, BlockedOnlyByReuse, RecvBlocks
<1>2. TypeOK /\ EventsAnnounced /\ [Next]_vars => EventsAnnounced'
  BY EventsNext
<1> QED
  BY InvInit, <1>1, <1>2, TypeCorrect, PTL DEF Spec
=============================================================================
