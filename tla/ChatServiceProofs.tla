------------------------- MODULE ChatServiceProofs -------------------------
(***************************************************************************)
(* Theorems about ChatService for any number of users, connections, loops, *)
(* messages, failing statements and restarts.                              *)
(***************************************************************************)
EXTENDS ChatService, SequenceTheorems, TLAPS

(* The empty sequence is a sequence over any set.                          *)
LEMMA EmptyIsSeq == \A S : <<>> \in Seq(S)
OBVIOUS

(* Writing to a connection and queueing a functor keep the types of what   *)
(* they touch.                                                             *)
LEMMA WriteType ==
  ASSUME HistoryType, NEW c \in Conns, NEW m \in Copy, Write(c, m)
  PROVE  recv' \in [Conns -> Seq(Copy)] /\ dropped' \in SUBSET Copy
<1>1. CASE link[c] = "up"
  <2>1. Append(recv[c], m) \in Seq(Copy)
    BY DEF HistoryType
  <2> QED
    BY <1>1, <2>1 DEF Write, HistoryType
<1>2. CASE link[c] # "up"
  BY <1>2 DEF Write, HistoryType
<1> QED
  BY <1>1, <1>2

(* TcpConnection::send, which writes or queues, keeps the same types.      *)
LEMMA SendType ==
  ASSUME LoopType, HistoryType, NEW t \in Threads, NEW c \in Conns, NEW m \in Copy, Send(t, c, m)
  PROVE  /\ pending' \in [Threads -> Seq(Functor)]
         /\ recv' \in [Conns -> Seq(Copy)] /\ dropped' \in SUBSET Copy
<1>1. CASE LoopOf[c] = t \/ link[c] = "down"
  BY <1>1, WriteType DEF Send, LoopType
<1>2. CASE ~(LoopOf[c] = t \/ link[c] = "down")
  <2> DEFINE f == [conn |-> c, copy |-> m]
  <2>1. f \in Functor
    BY DEF Functor
  <2>2. LoopOf[c] \in Threads
    BY ChatServiceAssumption
  <2>3. Append(pending[LoopOf[c]], f) \in Seq(Functor)
    BY <2>1, <2>2 DEF LoopType
  <2>4. pending' = [pending EXCEPT ![LoopOf[c]] = Append(pending[LoopOf[c]], f)]
    BY <1>2 DEF Send
  <2> HIDE DEF f
  <2>5. pending' \in [Threads -> Seq(Functor)]
    BY <2>3, <2>4 DEF LoopType
  <2> QED
    BY <1>2, <2>5 DEF Send, HistoryType
<1> QED
  BY <1>1, <1>2

(* One more failed statement stays within the bound.                       *)
LEMMA FaultsType ==
  ASSUME DbType, Works \/ Fails
  PROVE  faults' \in 0..MaxDbFaults
BY ChatServiceAssumption DEF DbType, Works, Fails

(* Accepting a request counts it and hands well-typed copies to Deliver.   *)
LEMMA AcceptType ==
  ASSUME TypeOK, NEW t \in Threads, NEW c \in Conns, phase[c] = "main",
         NEW copies \in SUBSET [n : {nsent + 1}, from : {session[c]}, to : Users],
         Accept(t, c, copies)
  PROVE  HistoryType' /\ MailType'
<1>1. nsent + 1 \in 1..MaxMsgs /\ nsent' = nsent + 1
  BY ChatServiceAssumption DEF Accept, TypeOK, HistoryType
<1>2. session[c] \in Users
  BY DEF TypeOK, ClientType
<1>3. copies \in SUBSET Copy
  BY <1>1, <1>2 DEF Copy
<1>4. HistoryType'
  BY <1>1, <1>3 DEF Accept, TypeOK, HistoryType
<1>5. MailType'
  BY <1>3 DEF Accept, TypeOK, MailType
<1> QED
  BY <1>4, <1>5

(* The server starts well typed ...                                        *)
LEMMA TypeInit == Init => TypeOK
BY ChatServiceAssumption DEF Init, TypeOK, DbType, MapType, LoopType, RequestType, MailType, ClientType, ProcessType,
       HistoryType, LoopSteps, LoginSteps

(* ... and every step of a loop, a client or the process keeps it so.      *)
LEMMA TypeNext == TypeOK /\ [Next]_vars => TypeOK'
<1> SUFFICES ASSUME TypeOK, [Next]_vars PROVE TypeOK'
  OBVIOUS
<1> USE DEF LoopSteps, LoginSteps, Goto
<1>1. ASSUME NEW t \in Threads, Poll(t) PROVE TypeOK'
  <2>1. LoopType'
    BY <1>1 DEF Poll, Ready, TypeOK, LoopType, dbVars, mapVars, loopVars, reqVars, cliVars, procVars, histVars
  <2>2. RequestType'
    BY <1>1 DEF Poll, Ready, TypeOK, RequestType, dbVars, mapVars, loopVars, reqVars, cliVars, procVars, histVars
  <2>3. DbType' /\ MapType' /\ MailType' /\ ClientType' /\ ProcessType' /\ HistoryType'
    BY <1>1 DEF Poll, Ready, TypeOK, DbType, MapType, MailType, ClientType, ProcessType, HistoryType, dbVars, mapVars, loopVars, reqVars, cliVars, procVars, histVars
  <2> QED
    BY <2>1, <2>2, <2>3 DEF TypeOK
<1>2. ASSUME NEW t \in Threads, SwapFunctors(t) PROVE TypeOK'
  <2>1. LoopType'
    BY <1>2 DEF SwapFunctors, TypeOK, LoopType, dbVars, mapVars, loopVars, reqVars, cliVars, procVars, histVars
  <2>2. RequestType'
    BY <1>2 DEF SwapFunctors, TypeOK, RequestType, dbVars, mapVars, loopVars, reqVars, cliVars, procVars, histVars
  <2>3. DbType' /\ MapType' /\ MailType' /\ ClientType' /\ ProcessType' /\ HistoryType'
    BY <1>2 DEF SwapFunctors, TypeOK, DbType, MapType, MailType, ClientType, ProcessType, HistoryType, dbVars, mapVars, loopVars, reqVars, cliVars, procVars, histVars
  <2> QED
    BY <2>1, <2>2, <2>3 DEF TypeOK
<1>3. ASSUME NEW t \in Threads, RunFunctor(t) PROVE TypeOK'
  <2>1. Head(batch[t]) \in Functor /\ Tail(batch[t]) \in Seq(Functor)
    BY <1>3 DEF RunFunctor, TypeOK, LoopType
  <2>2. Head(batch[t]).conn \in Conns /\ Head(batch[t]).copy \in Copy
    BY <2>1 DEF Functor
  <2>3. HistoryType'
    BY <1>3, <2>2, WriteType DEF RunFunctor, TypeOK, HistoryType
  <2>4. LoopType'
    BY <1>3, <2>1 DEF RunFunctor, TypeOK, LoopType
  <2>5. RequestType'
    BY <1>3 DEF RunFunctor, TypeOK, RequestType, reqVars
  <2>6. DbType' /\ MapType' /\ MailType' /\ ClientType' /\ ProcessType'
    BY <1>3 DEF RunFunctor, TypeOK, DbType, MapType, MailType, ClientType, ProcessType, dbVars, mapVars,
                reqVars, cliVars, procVars
  <2> QED
    BY <2>3, <2>4, <2>5, <2>6 DEF TypeOK
<1>4. ASSUME NEW t \in Threads, NEW c \in Conns, NEW u \in Users, LoginGranted(t, c, u) PROVE TypeOK'
  <2>1. LoopType'
    BY <1>4 DEF LoginGranted, Take, TypeOK, LoopType, dbVars, mapVars, loopVars, reqVars, cliVars, procVars, histVars
  <2>2. RequestType'
    BY <1>4 DEF LoginGranted, Take, TypeOK, RequestType, dbVars, mapVars, loopVars, reqVars, cliVars, procVars, histVars
  <2>3. ClientType'
    BY <1>4, ChatServiceAssumption DEF LoginGranted, Take, TypeOK, RequestType, ClientType, dbVars, mapVars, loopVars, reqVars, cliVars, procVars, histVars
  <2>4. DbType' /\ MapType' /\ MailType' /\ ProcessType' /\ HistoryType'
    BY <1>4 DEF LoginGranted, Take, TypeOK, DbType, MapType, MailType, ProcessType, HistoryType, dbVars, mapVars, loopVars, reqVars, cliVars, procVars, histVars
  <2> QED
    BY <2>1, <2>2, <2>3, <2>4 DEF TypeOK
<1>5. ASSUME NEW t \in Threads, NEW c \in Conns, NEW u \in Users, LoginRefused(t, c, u) PROVE TypeOK'
  <2>1. DbType'
    BY <1>5, FaultsType DEF LoginRefused, Take, TypeOK, DbType, dbVars, mapVars, loopVars, reqVars, cliVars, procVars, histVars
  <2>2. LoopType'
    BY <1>5 DEF LoginRefused, Take, TypeOK, LoopType, dbVars, mapVars, loopVars, reqVars, cliVars, procVars, histVars
  <2>3. ClientType'
    BY <1>5 DEF LoginRefused, Take, TypeOK, ClientType, dbVars, mapVars, loopVars, reqVars, cliVars, procVars, histVars
  <2>4. MapType' /\ RequestType' /\ MailType' /\ ProcessType' /\ HistoryType'
    BY <1>5 DEF LoginRefused, Take, TypeOK, MapType, RequestType, MailType, ProcessType, HistoryType, dbVars, mapVars, loopVars, reqVars, cliVars, procVars, histVars
  <2> QED
    BY <2>1, <2>2, <2>3, <2>4 DEF TypeOK
<1>6. ASSUME NEW t \in Threads, LoginInsert(t) PROVE TypeOK'
  <2>1. MapType'
    BY <1>6 DEF LoginInsert, TypeOK, RequestType, MapType, dbVars, mapVars, loopVars, reqVars, cliVars, procVars, histVars
  <2>2. RequestType'
    BY <1>6 DEF LoginInsert, TypeOK, RequestType, dbVars, mapVars, loopVars, reqVars, cliVars, procVars, histVars
  <2>3. DbType' /\ LoopType' /\ MailType' /\ ClientType' /\ ProcessType' /\ HistoryType'
    BY <1>6 DEF LoginInsert, TypeOK, DbType, LoopType, MailType, ClientType, ProcessType, HistoryType, dbVars, mapVars, loopVars, reqVars, cliVars, procVars, histVars
  <2> QED
    BY <2>1, <2>2, <2>3 DEF TypeOK
<1>7. ASSUME NEW t \in Threads, LoginSetOnline(t) PROVE TypeOK'
  <2>1. DbType'
    BY <1>7, FaultsType DEF LoginSetOnline, UpdateState, TypeOK, RequestType, DbType, dbVars, mapVars, loopVars, reqVars, cliVars, procVars, histVars
  <2>2. RequestType'
    BY <1>7 DEF LoginSetOnline, UpdateState, TypeOK, RequestType, dbVars, mapVars, loopVars, reqVars, cliVars, procVars, histVars
  <2>3. MapType' /\ LoopType' /\ MailType' /\ ClientType' /\ ProcessType' /\ HistoryType'
    BY <1>7 DEF LoginSetOnline, UpdateState, TypeOK, MapType, LoopType, MailType, ClientType, ProcessType, HistoryType, dbVars, mapVars, loopVars, reqVars, cliVars, procVars, histVars
  <2> QED
    BY <2>1, <2>2, <2>3 DEF TypeOK
<1>8. ASSUME NEW t \in Threads, LoginFetch(t) PROVE TypeOK'
  <2>1. DbType'
    BY <1>8, FaultsType DEF LoginFetch, QueryOffline, TypeOK, DbType, dbVars, mapVars, loopVars, reqVars, cliVars, procVars, histVars
  <2>2. RequestType'
    BY <1>8 DEF LoginFetch, QueryOffline, TypeOK, RequestType, dbVars, mapVars, loopVars, reqVars, cliVars, procVars, histVars
  <2>3. MailType' /\ cut' \in SUBSET Copy
    <3>1. id[t] \in Users /\ dbOffline[id[t]] \in Seq(Copy) /\ UNCHANGED outbox
      BY <1>8 DEF LoginFetch, TypeOK, RequestType, DbType
    <3>2. CASE mail' = [mail EXCEPT ![t] = dbOffline[id[t]]] /\ UNCHANGED cut
      BY <3>1, <3>2 DEF TypeOK, MailType, HistoryType
    <3>3. ASSUME NEW k \in 0..Len(dbOffline[id[t]]),
                 mail' = [mail EXCEPT ![t] = SubSeq(dbOffline[id[t]], 1, k)],
                 cut' = IF k = 0 THEN cut
                        ELSE cut \cup {dbOffline[id[t]][i] : i \in k+1..Len(dbOffline[id[t]])}
          PROVE  MailType' /\ cut' \in SUBSET Copy
      <4>1. SubSeq(dbOffline[id[t]], 1, k) \in Seq(Copy)
        <5>1. \A i \in 1..k : dbOffline[id[t]][i] \in Copy
          BY <3>1
        <5>2. 1 \in Int /\ k \in Int
          BY <3>1
        <5> QED
          BY <5>1, <5>2, SubSeqProperties
      <4>2. \A i \in k+1..Len(dbOffline[id[t]]) : dbOffline[id[t]][i] \in Copy
        BY <3>1
      <4>3. cut' \in SUBSET Copy
        BY <3>3, <4>2 DEF TypeOK, HistoryType
      <4>4. MailType'
        BY <3>1, <3>3, <4>1 DEF TypeOK, MailType
      <4> QED
        BY <4>3, <4>4
    <3> QED
      BY <1>8, <3>2, <3>3 DEF LoginFetch, QueryOffline
  <2>4. MapType' /\ LoopType' /\ ClientType' /\ ProcessType' /\ HistoryType'
    BY <1>8, <2>3 DEF LoginFetch, TypeOK, MapType, LoopType, ClientType, ProcessType, HistoryType, dbVars, mapVars, loopVars, reqVars, cliVars, procVars, histVars
  <2> QED
    BY <2>1, <2>2, <2>3, <2>4 DEF TypeOK
<1>9. ASSUME NEW t \in Threads, LoginRemove(t) PROVE TypeOK'
  <2>1. DbType'
    <3>1. dbOffline' \in [Users -> Seq(Copy)]
      BY <1>9, EmptyIsSeq DEF LoginRemove, RemoveOffline, TypeOK, DbType
    <3> QED
      BY <1>9, <3>1, FaultsType DEF LoginRemove, RemoveOffline, TypeOK, DbType
  <2>2. RequestType'
    BY <1>9 DEF LoginRemove, RemoveOffline, TypeOK, RequestType, dbVars, mapVars, loopVars, reqVars, cliVars, procVars, histVars
  <2>3. MapType' /\ LoopType' /\ MailType' /\ ClientType' /\ ProcessType' /\ HistoryType'
    BY <1>9 DEF LoginRemove, RemoveOffline, TypeOK, MapType, LoopType, MailType, ClientType, ProcessType, HistoryType, dbVars, mapVars, loopVars, reqVars, cliVars, procVars, histVars
  <2> QED
    BY <2>1, <2>2, <2>3 DEF TypeOK
<1>10. ASSUME NEW t \in Threads, LoginReply(t) PROVE TypeOK'
  <2>1. RequestType'
    BY <1>10 DEF LoginReply, Return, TypeOK, RequestType, dbVars, mapVars, loopVars, reqVars, cliVars, procVars, histVars
  <2>2. MailType'
    BY <1>10 DEF LoginReply, Return, TypeOK, MailType, dbVars, mapVars, loopVars, reqVars, cliVars, procVars, histVars
  <2>3. ClientType'
    BY <1>10 DEF LoginReply, Return, TypeOK, RequestType, ClientType, dbVars, mapVars, loopVars, reqVars, cliVars, procVars, histVars
  <2>4. HistoryType'
    <3>1. recv[cur[t]] \o mail[t] \in Seq(Copy) /\ Range(mail[t]) \in SUBSET Copy
      BY <1>10 DEF LoginReply, TypeOK, RequestType, HistoryType, MailType, Range
    <3>2. CASE link[cur[t]] = "up"
      BY <1>10, <3>1, <3>2 DEF LoginReply, TypeOK, HistoryType
    <3>3. CASE link[cur[t]] # "up"
      BY <1>10, <3>1, <3>3 DEF LoginReply, TypeOK, HistoryType
    <3> QED
      BY <3>2, <3>3
  <2>5. DbType' /\ MapType' /\ LoopType' /\ ProcessType'
    BY <1>10 DEF LoginReply, Return, TypeOK, DbType, MapType, LoopType, ProcessType, dbVars, mapVars, loopVars, reqVars, cliVars, procVars, histVars
  <2> QED
    BY <2>1, <2>2, <2>3, <2>4, <2>5 DEF TypeOK
<1>11. ASSUME NEW t \in Threads, NEW c \in Conns, NEW u \in Users, OneChat(t, c, u) PROVE TypeOK'
  <2>1. DbType'
    BY <1>11, FaultsType DEF OneChat, Accept, Take, TypeOK, DbType, dbVars, mapVars, loopVars, reqVars, cliVars, procVars, histVars
  <2>2. LoopType'
    BY <1>11 DEF OneChat, Accept, Take, TypeOK, LoopType, dbVars, mapVars, loopVars, reqVars, cliVars, procVars, histVars
  <2>3. RequestType'
    BY <1>11 DEF OneChat, Accept, Take, TypeOK, RequestType, dbVars, mapVars, loopVars, reqVars, cliVars, procVars, histVars
  <2>4. MailType'
    BY <1>11, AcceptType DEF OneChat
  <2>5. HistoryType'
    BY <1>11, AcceptType DEF OneChat
  <2>6. MapType' /\ ClientType' /\ ProcessType'
    BY <1>11 DEF OneChat, Accept, Take, TypeOK, MapType, ClientType, ProcessType, dbVars, mapVars, loopVars, reqVars, cliVars, procVars, histVars
  <2> QED
    BY <2>1, <2>2, <2>3, <2>4, <2>5, <2>6 DEF TypeOK
<1>12. ASSUME NEW t \in Threads, NEW c \in Conns, GroupChat(t, c) PROVE TypeOK'
  <2>1. DbType'
    BY <1>12, FaultsType DEF GroupChat, QueryGroupUsers, Accept, Take, TypeOK, DbType, dbVars, mapVars, loopVars, reqVars, cliVars, procVars, histVars
  <2>2. LoopType'
    BY <1>12 DEF GroupChat, QueryGroupUsers, Accept, Take, TypeOK, LoopType, dbVars, mapVars, loopVars, reqVars, cliVars, procVars, histVars
  <2>3. RequestType'
    BY <1>12 DEF GroupChat, QueryGroupUsers, Accept, Take, TypeOK, RequestType, dbVars, mapVars, loopVars, reqVars, cliVars, procVars, histVars
  <2>4. MailType'
    BY <1>12, AcceptType DEF GroupChat, QueryGroupUsers
  <2>5. HistoryType'
    BY <1>12, AcceptType DEF GroupChat, QueryGroupUsers
  <2>6. MapType' /\ ClientType' /\ ProcessType'
    BY <1>12 DEF GroupChat, QueryGroupUsers, Accept, Take, TypeOK, MapType, ClientType, ProcessType, dbVars, mapVars, loopVars, reqVars, cliVars, procVars, histVars
  <2> QED
    BY <2>1, <2>2, <2>3, <2>4, <2>5, <2>6 DEF TypeOK
<1>13. ASSUME NEW t \in Threads, Deliver(t) PROVE TypeOK'
  <2>1. PICK m \in outbox[t] :
          /\ \/ userConnMap[m.to] = NoConn /\ InsertOffline(m) /\ UNCHANGED <<pending, recv>>
             \/ /\ userConnMap[m.to] # NoConn
                /\ Send(t, userConnMap[m.to], m)
                /\ Works /\ UNCHANGED dbOffline
          /\ outbox' = [outbox EXCEPT ![t] = Remaining(t, m)]
          /\ connMutex' = IF Remaining(t, m) = {} THEN NoThread ELSE t
          /\ pc' = [pc EXCEPT ![t] = IF Remaining(t, m) = {} THEN "dispatch" ELSE "deliver"]
    BY <1>13 DEF Deliver
  <2>2. m \in Copy /\ m.to \in Users
    BY DEF TypeOK, MailType, Copy
  <2>3. faults' \in 0..MaxDbFaults
    BY <2>1, FaultsType DEF InsertOffline, TypeOK
  <2>4. Append(dbOffline[m.to], m) \in Seq(Copy)
    BY <2>2 DEF TypeOK, DbType
  <2>5. DbType'
    <3>1. dbOffline' \in [Users -> Seq(Copy)]
      BY <2>1, <2>2, <2>4 DEF InsertOffline, TypeOK, DbType
    <3> QED
      BY <1>13, <2>3, <3>1 DEF Deliver, TypeOK, DbType
  <2>6. /\ pending' \in [Threads -> Seq(Functor)]
        /\ recv' \in [Conns -> Seq(Copy)] /\ dropped' \in SUBSET Copy
    <3>1. CASE userConnMap[m.to] = NoConn
      BY <2>1, <2>2, <3>1 DEF InsertOffline, TypeOK, LoopType, HistoryType
    <3>2. CASE userConnMap[m.to] # NoConn
      BY <2>1, <2>2, <3>2, SendType DEF TypeOK, MapType
    <3> QED
      BY <3>1, <3>2
  <2>7. MapType'
    BY <1>13, <2>1 DEF Deliver, TypeOK, MapType
  <2>8. LoopType' /\ HistoryType'
    BY <1>13, <2>6 DEF Deliver, TypeOK, LoopType, HistoryType
  <2>9. RequestType' /\ MailType'
    BY <1>13, <2>1 DEF Deliver, Remaining, TypeOK, RequestType, MailType
  <2>10. ClientType' /\ ProcessType'
    BY <1>13, <2>1 DEF Deliver, TypeOK, ClientType, ProcessType, cliVars, procVars
  <2> QED
    BY <2>5, <2>7, <2>8, <2>9, <2>10 DEF TypeOK
<1>14. ASSUME NEW t \in Threads, NEW c \in Conns, Logout(t, c) PROVE TypeOK'
  <2>1. MapType'
    BY <1>14 DEF Logout, EraseEntry, Take, TypeOK, MapType, dbVars, mapVars, loopVars, reqVars, cliVars, procVars, histVars
  <2>2. LoopType'
    BY <1>14 DEF Logout, EraseEntry, Take, TypeOK, LoopType, dbVars, mapVars, loopVars, reqVars, cliVars, procVars, histVars
  <2>3. RequestType'
    BY <1>14 DEF Logout, EraseEntry, Take, TypeOK, ClientType, RequestType, dbVars, mapVars, loopVars, reqVars, cliVars, procVars, histVars
  <2>4. ClientType'
    BY <1>14 DEF Logout, EraseEntry, Take, TypeOK, ClientType, dbVars, mapVars, loopVars, reqVars, cliVars, procVars, histVars
  <2>5. DbType' /\ MailType' /\ ProcessType' /\ HistoryType'
    BY <1>14 DEF Logout, EraseEntry, Take, TypeOK, DbType, MailType, ProcessType, HistoryType, dbVars, mapVars, loopVars, reqVars, cliVars, procVars, histVars
  <2> QED
    BY <2>1, <2>2, <2>3, <2>4, <2>5 DEF TypeOK
<1>15. ASSUME NEW t \in Threads, NEW c \in Conns, CloseException(t, c) PROVE TypeOK'
  <2>1. MapType'
    BY <1>15 DEF CloseException, EraseEntry, Take, TypeOK, MapType, dbVars, mapVars, loopVars, reqVars, cliVars, procVars, histVars
  <2>2. LoopType'
    BY <1>15 DEF CloseException, EraseEntry, Take, TypeOK, LoopType, dbVars, mapVars, loopVars, reqVars, cliVars, procVars, histVars
  <2>3. RequestType'
    BY <1>15 DEF CloseException, EraseEntry, Take, TypeOK, RequestType, dbVars, mapVars, loopVars, reqVars, cliVars, procVars, histVars
  <2>4. ClientType'
    BY <1>15 DEF CloseException, EraseEntry, Take, TypeOK, RequestType, ClientType, dbVars, mapVars, loopVars, reqVars, cliVars, procVars, histVars
  <2>5. DbType' /\ MailType' /\ ProcessType' /\ HistoryType'
    BY <1>15 DEF CloseException, EraseEntry, Take, TypeOK, DbType, MailType, ProcessType, HistoryType, dbVars, mapVars, loopVars, reqVars, cliVars, procVars, histVars
  <2> QED
    BY <2>1, <2>2, <2>3, <2>4, <2>5 DEF TypeOK
<1>16. ASSUME NEW t \in Threads, SetOffline(t) PROVE TypeOK'
  <2>1. DbType'
    BY <1>16, FaultsType DEF SetOffline, UpdateState, Return, TypeOK, RequestType, DbType, dbVars, mapVars, loopVars, reqVars, cliVars, procVars, histVars
  <2>2. RequestType'
    BY <1>16 DEF SetOffline, UpdateState, Return, TypeOK, RequestType, dbVars, mapVars, loopVars, reqVars, cliVars, procVars, histVars
  <2>3. MapType' /\ LoopType' /\ MailType' /\ ClientType' /\ ProcessType' /\ HistoryType'
    BY <1>16 DEF SetOffline, UpdateState, Return, TypeOK, MapType, LoopType, MailType, ClientType, ProcessType, HistoryType, dbVars, mapVars, loopVars, reqVars, cliVars, procVars, histVars
  <2> QED
    BY <2>1, <2>2, <2>3 DEF TypeOK
<1>17. ASSUME NEW c \in Conns, Connect(c) \/ Quit(c) PROVE TypeOK'
  <2>1. ClientType'
    BY <1>17 DEF Connect, Quit, TypeOK, ClientType, reqVars
  <2>2. DbType' /\ MapType' /\ LoopType' /\ RequestType' /\ MailType' /\ ProcessType' /\ HistoryType'
    BY <1>17 DEF Connect, Quit, TypeOK, DbType, MapType, LoopType, RequestType, MailType,
                 ProcessType, HistoryType, dbVars, mapVars, loopVars, reqVars, procVars, histVars
  <2> QED
    BY <2>1, <2>2 DEF TypeOK
<1>18. CASE Sigint \/ ResetState \/ Restart
  <2>1. DbType'
    BY <1>18, FaultsType DEF Sigint, ResetState, Restart, TypeOK, DbType, dbVars
  <2>2. ProcessType'
    BY <1>18, ChatServiceAssumption DEF Sigint, ResetState, Restart, TypeOK, ProcessType
  <2>3. MapType' /\ LoopType' /\ RequestType' /\ MailType' /\ ClientType' /\ HistoryType'
    BY <1>18 DEF Sigint, ResetState, Restart, TypeOK, MapType, LoopType, RequestType, MailType,
                 ClientType, HistoryType, mapVars, loopVars, reqVars, cliVars, histVars
  <2> QED
    BY <2>1, <2>2, <2>3 DEF TypeOK
<1>19. CASE Exit \/ Kill
  <2>1. ASSUME NEW t \in Threads PROVE InFlight(t) \in SUBSET Copy
    <3>1. Range(pending[t]) \cup Range(batch[t]) \in SUBSET Functor
      BY DEF TypeOK, LoopType, Range
    <3>2. Range(mail[t]) \in SUBSET Copy
      BY DEF TypeOK, MailType, Range
    <3> QED
      BY <3>1, <3>2 DEF InFlight, Functor, TypeOK, MailType
  <2>2. HistoryType'
    BY <1>19, <2>1 DEF Exit, Kill, ProcessEnds, TypeOK, HistoryType
  <2>3. DbType' /\ ProcessType'
    BY <1>19, ChatServiceAssumption DEF Exit, Kill, ProcessEnds, TypeOK, DbType, ProcessType, dbVars
  <2>4. MapType' /\ RequestType'
    BY <1>19 DEF Exit, Kill, ProcessEnds, MapType, RequestType
  <2>6. ProcessEnds
    BY <1>19 DEF Exit, Kill
  <2>7. LoopType'
    BY <2>6, EmptyIsSeq DEF ProcessEnds, LoopType
  <2>8. MailType'
    BY <2>6, EmptyIsSeq DEF ProcessEnds, MailType
  <2>5. ClientType'
    BY <1>19 DEF Exit, Kill, ProcessEnds, TypeOK, ClientType
  <2> QED
    BY <2>2, <2>3, <2>4, <2>5, <2>7, <2>8 DEF TypeOK
<1>20. CASE Idle \/ UNCHANGED vars
  BY <1>20 DEF Idle, TypeOK, DbType, MapType, LoopType, RequestType, MailType, ClientType, ProcessType, HistoryType, vars, dbVars, mapVars, loopVars, reqVars, cliVars, procVars, histVars
<1> QED
  BY <1>1, <1>2, <1>3, <1>4, <1>5, <1>6, <1>7, <1>8, <1>9, <1>10, <1>11, <1>12, <1>13,
     <1>14, <1>15, <1>16, <1>17, <1>18, <1>19, <1>20 DEF Next, LoopThread, Handle

(* Every reachable state is well typed, and a handler that runs has the    *)
(* connection and the user it works for.                                   *)
THEOREM TypeCorrect == Spec => []TypeOK
BY TypeInit, TypeNext, PTL DEF Spec

-----------------------------------------------------------------------------
(* The empty map satisfies the session invariant ...                       *)
LEMMA SessionInit == Init => SessionInv
BY DEF Init, SessionInv, LoginServesItsClient, ActiveOnOwnLoop, EntryHasReason,
       MapPointsAtLiveSession, LoginSteps

(* ... and each handler keeps it, if its client waits for the login answer. *)
LEMMA SessionNext ==
  ASSUME MissedAck = FALSE, TypeOK, SessionInv, [Next]_vars
  PROVE  SessionInv'
<1> USE DEF LoopSteps, LoginSteps, Goto
<1>0. /\ MapType /\ LoopType /\ RequestType /\ ClientType
  BY DEF TypeOK
<1> USE <1>0 DEF MapType, LoopType, RequestType, ClientType
<1>1. ASSUME NEW t \in Threads, Poll(t) PROVE SessionInv'
  <2>1. LoginServesItsClient'
    BY <1>1, ChatServiceAssumption DEF Poll, Ready, SessionInv, LoginServesItsClient, ActiveOnOwnLoop, mapVars, loopVars, reqVars, cliVars
  <2>2. ActiveOnOwnLoop'
    BY <1>1, ChatServiceAssumption DEF Poll, Ready, SessionInv, ActiveOnOwnLoop, mapVars, loopVars, reqVars, cliVars
  <2>3. EntryHasReason'
    BY <1>1, ChatServiceAssumption DEF Poll, Ready, SessionInv, EntryHasReason, MapPointsAtLiveSession, LoginServesItsClient, ActiveOnOwnLoop, mapVars, loopVars, reqVars, cliVars
  <2>4. MapPointsAtLiveSession'
    BY <1>1, ChatServiceAssumption DEF Poll, Ready, SessionInv, MapPointsAtLiveSession, EntryHasReason, LoginServesItsClient, ActiveOnOwnLoop, mapVars, loopVars, reqVars, cliVars
  <2> QED
    BY <2>1, <2>2, <2>3, <2>4 DEF SessionInv
<1>2. ASSUME NEW t \in Threads, SwapFunctors(t) PROVE SessionInv'
  <2>1. LoginServesItsClient'
    BY <1>2, ChatServiceAssumption DEF SwapFunctors, SessionInv, LoginServesItsClient, ActiveOnOwnLoop, mapVars, loopVars, reqVars, cliVars
  <2>2. ActiveOnOwnLoop'
    BY <1>2, ChatServiceAssumption DEF SwapFunctors, SessionInv, ActiveOnOwnLoop, mapVars, loopVars, reqVars, cliVars
  <2>3. EntryHasReason'
    BY <1>2, ChatServiceAssumption DEF SwapFunctors, SessionInv, EntryHasReason, MapPointsAtLiveSession, LoginServesItsClient, ActiveOnOwnLoop, mapVars, loopVars, reqVars, cliVars
  <2>4. MapPointsAtLiveSession'
    BY <1>2, ChatServiceAssumption DEF SwapFunctors, SessionInv, MapPointsAtLiveSession, EntryHasReason, LoginServesItsClient, ActiveOnOwnLoop, mapVars, loopVars, reqVars, cliVars
  <2> QED
    BY <2>1, <2>2, <2>3, <2>4 DEF SessionInv
<1>3. ASSUME NEW t \in Threads, RunFunctor(t) PROVE SessionInv'
  <2>1. LoginServesItsClient'
    BY <1>3, ChatServiceAssumption DEF RunFunctor, SessionInv, LoginServesItsClient, ActiveOnOwnLoop, mapVars, loopVars, reqVars, cliVars
  <2>2. ActiveOnOwnLoop'
    BY <1>3, ChatServiceAssumption DEF RunFunctor, SessionInv, ActiveOnOwnLoop, mapVars, loopVars, reqVars, cliVars
  <2>3. EntryHasReason'
    BY <1>3, ChatServiceAssumption DEF RunFunctor, SessionInv, EntryHasReason, MapPointsAtLiveSession, LoginServesItsClient, ActiveOnOwnLoop, mapVars, loopVars, reqVars, cliVars
  <2>4. MapPointsAtLiveSession'
    BY <1>3, ChatServiceAssumption DEF RunFunctor, SessionInv, MapPointsAtLiveSession, EntryHasReason, LoginServesItsClient, ActiveOnOwnLoop, mapVars, loopVars, reqVars, cliVars
  <2> QED
    BY <2>1, <2>2, <2>3, <2>4 DEF SessionInv
<1>4. ASSUME NEW t \in Threads, NEW c \in Conns, NEW u \in Users, LoginGranted(t, c, u) PROVE SessionInv'
  <2>1. LoginServesItsClient'
    BY <1>4, ChatServiceAssumption DEF LoginGranted, Take, SessionInv, LoginServesItsClient, ActiveOnOwnLoop, mapVars, loopVars, reqVars, cliVars
  <2>2. ActiveOnOwnLoop'
    BY <1>4, ChatServiceAssumption DEF LoginGranted, Take, SessionInv, ActiveOnOwnLoop, mapVars, loopVars, reqVars, cliVars
  <2>3. EntryHasReason'
    BY <1>4, ChatServiceAssumption DEF LoginGranted, Take, SessionInv, EntryHasReason, MapPointsAtLiveSession, LoginServesItsClient, ActiveOnOwnLoop, mapVars, loopVars, reqVars, cliVars
  <2>4. MapPointsAtLiveSession'
    <3>1. LoopOf[c] = t /\ pc[t] = "dispatch" /\ phase[c] = "menu"
      BY <1>4 DEF LoginGranted, Take, SessionInv, ActiveOnOwnLoop
    <3>2. \A v \in Users : userConnMap[v] # c
      BY <3>1, ChatServiceAssumption DEF SessionInv, EntryHasReason
    <3> QED
      BY <1>4, <3>2 DEF LoginGranted, SessionInv, MapPointsAtLiveSession, mapVars
  <2> QED
    BY <2>1, <2>2, <2>3, <2>4 DEF SessionInv
<1>5. ASSUME NEW t \in Threads, NEW c \in Conns, NEW u \in Users, LoginRefused(t, c, u) PROVE SessionInv'
  <2>1. LoginServesItsClient'
    BY <1>5, ChatServiceAssumption DEF LoginRefused, Take, SessionInv, LoginServesItsClient, ActiveOnOwnLoop, mapVars, loopVars, reqVars, cliVars
  <2>2. ActiveOnOwnLoop'
    BY <1>5, ChatServiceAssumption DEF LoginRefused, Take, SessionInv, ActiveOnOwnLoop, mapVars, loopVars, reqVars, cliVars
  <2>3. EntryHasReason'
    BY <1>5, ChatServiceAssumption DEF LoginRefused, Take, SessionInv, EntryHasReason, MapPointsAtLiveSession, LoginServesItsClient, ActiveOnOwnLoop, mapVars, loopVars, reqVars, cliVars
  <2>4. MapPointsAtLiveSession'
    BY <1>5, ChatServiceAssumption DEF LoginRefused, Take, SessionInv, MapPointsAtLiveSession, EntryHasReason, LoginServesItsClient, ActiveOnOwnLoop, mapVars, loopVars, reqVars, cliVars
  <2> QED
    BY <2>1, <2>2, <2>3, <2>4 DEF SessionInv
<1>6. ASSUME NEW t \in Threads, LoginInsert(t) PROVE SessionInv'
  <2>1. LoginServesItsClient'
    BY <1>6, ChatServiceAssumption DEF LoginInsert, SessionInv, LoginServesItsClient, ActiveOnOwnLoop, mapVars, loopVars, reqVars, cliVars
  <2>2. ActiveOnOwnLoop'
    BY <1>6, ChatServiceAssumption DEF LoginInsert, SessionInv, ActiveOnOwnLoop, mapVars, loopVars, reqVars, cliVars
  <2>3. EntryHasReason'
    BY <1>6, ChatServiceAssumption DEF LoginInsert, SessionInv, EntryHasReason, MapPointsAtLiveSession, LoginServesItsClient, ActiveOnOwnLoop, mapVars, loopVars, reqVars, cliVars
  <2>4. MapPointsAtLiveSession'
    BY <1>6, ChatServiceAssumption DEF LoginInsert, SessionInv, MapPointsAtLiveSession, EntryHasReason, LoginServesItsClient, ActiveOnOwnLoop, mapVars, loopVars, reqVars, cliVars
  <2> QED
    BY <2>1, <2>2, <2>3, <2>4 DEF SessionInv
<1>7. ASSUME NEW t \in Threads, LoginSetOnline(t) PROVE SessionInv'
  <2>1. LoginServesItsClient'
    BY <1>7, ChatServiceAssumption DEF LoginSetOnline, UpdateState, SessionInv, LoginServesItsClient, ActiveOnOwnLoop, mapVars, loopVars, reqVars, cliVars
  <2>2. ActiveOnOwnLoop'
    BY <1>7, ChatServiceAssumption DEF LoginSetOnline, UpdateState, SessionInv, ActiveOnOwnLoop, mapVars, loopVars, reqVars, cliVars
  <2>3. EntryHasReason'
    BY <1>7, ChatServiceAssumption DEF LoginSetOnline, UpdateState, SessionInv, EntryHasReason, MapPointsAtLiveSession, LoginServesItsClient, ActiveOnOwnLoop, mapVars, loopVars, reqVars, cliVars
  <2>4. MapPointsAtLiveSession'
    BY <1>7, ChatServiceAssumption DEF LoginSetOnline, UpdateState, SessionInv, MapPointsAtLiveSession, EntryHasReason, LoginServesItsClient, ActiveOnOwnLoop, mapVars, loopVars, reqVars, cliVars
  <2> QED
    BY <2>1, <2>2, <2>3, <2>4 DEF SessionInv
<1>8. ASSUME NEW t \in Threads, LoginFetch(t) PROVE SessionInv'
  <2>1. LoginServesItsClient'
    BY <1>8, ChatServiceAssumption DEF LoginFetch, QueryOffline, SessionInv, LoginServesItsClient, ActiveOnOwnLoop, mapVars, loopVars, reqVars, cliVars
  <2>2. ActiveOnOwnLoop'
    BY <1>8, ChatServiceAssumption DEF LoginFetch, QueryOffline, SessionInv, ActiveOnOwnLoop, mapVars, loopVars, reqVars, cliVars
  <2>3. EntryHasReason'
    BY <1>8, ChatServiceAssumption DEF LoginFetch, QueryOffline, SessionInv, EntryHasReason, MapPointsAtLiveSession, LoginServesItsClient, ActiveOnOwnLoop, mapVars, loopVars, reqVars, cliVars
  <2>4. MapPointsAtLiveSession'
    BY <1>8, ChatServiceAssumption DEF LoginFetch, QueryOffline, SessionInv, MapPointsAtLiveSession, EntryHasReason, LoginServesItsClient, ActiveOnOwnLoop, mapVars, loopVars, reqVars, cliVars
  <2> QED
    BY <2>1, <2>2, <2>3, <2>4 DEF SessionInv
<1>9. ASSUME NEW t \in Threads, LoginRemove(t) PROVE SessionInv'
  <2>1. LoginServesItsClient'
    BY <1>9, ChatServiceAssumption DEF LoginRemove, RemoveOffline, SessionInv, LoginServesItsClient, ActiveOnOwnLoop, mapVars, loopVars, reqVars, cliVars
  <2>2. ActiveOnOwnLoop'
    BY <1>9, ChatServiceAssumption DEF LoginRemove, RemoveOffline, SessionInv, ActiveOnOwnLoop, mapVars, loopVars, reqVars, cliVars
  <2>3. EntryHasReason'
    BY <1>9, ChatServiceAssumption DEF LoginRemove, RemoveOffline, SessionInv, EntryHasReason, MapPointsAtLiveSession, LoginServesItsClient, ActiveOnOwnLoop, mapVars, loopVars, reqVars, cliVars
  <2>4. MapPointsAtLiveSession'
    BY <1>9, ChatServiceAssumption DEF LoginRemove, RemoveOffline, SessionInv, MapPointsAtLiveSession, EntryHasReason, LoginServesItsClient, ActiveOnOwnLoop, mapVars, loopVars, reqVars, cliVars
  <2> QED
    BY <2>1, <2>2, <2>3, <2>4 DEF SessionInv
<1>10. ASSUME NEW t \in Threads, LoginReply(t) PROVE SessionInv'
  <2>1. LoginServesItsClient'
    <3>1. ASSUME NEW x \in Threads, pc'[x] \in LoginSteps
          PROVE  x # t /\ pc[x] \in LoginSteps /\ cur'[x] = cur[x] /\ id'[x] = id[x] /\ cur[x] # cur[t]
      <4>1. x # t
        BY <1>10, <3>1 DEF LoginReply, Return
      <4>2. pc[x] \in LoginSteps /\ cur'[x] = cur[x] /\ id'[x] = id[x]
        BY <1>10, <3>1, <4>1 DEF LoginReply, Return
      <4>3. LoopOf[cur[x]] = x /\ LoopOf[cur[t]] = t
        BY <1>10, <4>2 DEF LoginReply, SessionInv, LoginServesItsClient
      <4> QED
        BY <4>1, <4>2, <4>3
    <3>2. \A d \in Conns \ {cur[t]} : phase'[d] = phase[d]
      BY <1>10 DEF LoginReply
    <3> QED
      BY <1>10, <3>1, <3>2 DEF LoginReply, SessionInv, LoginServesItsClient
  <2>2. ActiveOnOwnLoop'
    BY <1>10, ChatServiceAssumption DEF LoginReply, Return, SessionInv, ActiveOnOwnLoop, mapVars, loopVars, reqVars, cliVars
  <2>3. EntryHasReason'
    <3>1. /\ link[cur[t]] \in {"up", "gone"} /\ phase[cur[t]] = "wait"
          /\ LoopOf[cur[t]] = t /\ cur[t] \in Conns
      BY <1>10 DEF LoginReply, SessionInv, LoginServesItsClient
    <3>2. ASSUME NEW u \in Users, userConnMap[u] # NoConn, NEW d \in Conns, d = userConnMap[u]
          PROVE  \/ phase'[d] = "main"
                 \/ pc'[LoopOf[d]] \in LoginSteps /\ cur'[LoopOf[d]] = d
                 \/ phase'[d] = "wait" /\ link'[d] = "gone"
      <4>1. CASE d = cur[t]
        BY <1>10, <3>1, <4>1 DEF LoginReply
      <4>2. CASE d # cur[t]
        <5>1. phase'[d] = phase[d] /\ link'[d] = link[d]
          BY <1>10, <4>2 DEF LoginReply
        <5>2. \/ phase[d] = "main"
              \/ pc[LoopOf[d]] \in LoginSteps /\ cur[LoopOf[d]] = d
              \/ phase[d] = "wait" /\ link[d] = "gone"
          BY <3>2 DEF SessionInv, EntryHasReason
        <5>3. cur[LoopOf[d]] = d => pc'[LoopOf[d]] = pc[LoopOf[d]] /\ cur'[LoopOf[d]] = cur[LoopOf[d]]
          BY <1>10, <4>2 DEF LoginReply, Return
        <5> QED
          BY <5>1, <5>2, <5>3
      <4> QED
        BY <4>1, <4>2
    <3> QED
      BY <1>10, <3>2 DEF LoginReply, EntryHasReason, mapVars
  <2>4. MapPointsAtLiveSession'
    BY <1>10, ChatServiceAssumption DEF LoginReply, Return, SessionInv, MapPointsAtLiveSession, EntryHasReason, LoginServesItsClient, ActiveOnOwnLoop, mapVars, loopVars, reqVars, cliVars
  <2> QED
    BY <2>1, <2>2, <2>3, <2>4 DEF SessionInv
<1>11. ASSUME NEW t \in Threads, NEW c \in Conns, NEW u \in Users, OneChat(t, c, u) PROVE SessionInv'
  <2>1. LoginServesItsClient'
    BY <1>11, ChatServiceAssumption DEF OneChat, Accept, Take, SessionInv, LoginServesItsClient, ActiveOnOwnLoop, mapVars, loopVars, reqVars, cliVars
  <2>2. ActiveOnOwnLoop'
    BY <1>11, ChatServiceAssumption DEF OneChat, Accept, Take, SessionInv, ActiveOnOwnLoop, mapVars, loopVars, reqVars, cliVars
  <2>3. EntryHasReason'
    BY <1>11, ChatServiceAssumption DEF OneChat, Accept, Take, SessionInv, EntryHasReason, MapPointsAtLiveSession, LoginServesItsClient, ActiveOnOwnLoop, mapVars, loopVars, reqVars, cliVars
  <2>4. MapPointsAtLiveSession'
    BY <1>11, ChatServiceAssumption DEF OneChat, Accept, Take, SessionInv, MapPointsAtLiveSession, EntryHasReason, LoginServesItsClient, ActiveOnOwnLoop, mapVars, loopVars, reqVars, cliVars
  <2> QED
    BY <2>1, <2>2, <2>3, <2>4 DEF SessionInv
<1>12. ASSUME NEW t \in Threads, NEW c \in Conns, GroupChat(t, c) PROVE SessionInv'
  <2>1. LoginServesItsClient'
    BY <1>12, ChatServiceAssumption DEF GroupChat, QueryGroupUsers, Accept, Take, SessionInv, LoginServesItsClient, ActiveOnOwnLoop, mapVars, loopVars, reqVars, cliVars
  <2>2. ActiveOnOwnLoop'
    BY <1>12, ChatServiceAssumption DEF GroupChat, QueryGroupUsers, Accept, Take, SessionInv, ActiveOnOwnLoop, mapVars, loopVars, reqVars, cliVars
  <2>3. EntryHasReason'
    BY <1>12, ChatServiceAssumption DEF GroupChat, QueryGroupUsers, Accept, Take, SessionInv, EntryHasReason, MapPointsAtLiveSession, LoginServesItsClient, ActiveOnOwnLoop, mapVars, loopVars, reqVars, cliVars
  <2>4. MapPointsAtLiveSession'
    BY <1>12, ChatServiceAssumption DEF GroupChat, QueryGroupUsers, Accept, Take, SessionInv, MapPointsAtLiveSession, EntryHasReason, LoginServesItsClient, ActiveOnOwnLoop, mapVars, loopVars, reqVars, cliVars
  <2> QED
    BY <2>1, <2>2, <2>3, <2>4 DEF SessionInv
<1>13. ASSUME NEW t \in Threads, Deliver(t) PROVE SessionInv'
  <2>1. LoginServesItsClient'
    BY <1>13, ChatServiceAssumption DEF Deliver, SessionInv, LoginServesItsClient, ActiveOnOwnLoop, mapVars, loopVars, reqVars, cliVars
  <2>2. ActiveOnOwnLoop'
    BY <1>13, ChatServiceAssumption DEF Deliver, SessionInv, ActiveOnOwnLoop, mapVars, loopVars, reqVars, cliVars
  <2>3. EntryHasReason'
    BY <1>13, ChatServiceAssumption DEF Deliver, SessionInv, EntryHasReason, MapPointsAtLiveSession, LoginServesItsClient, ActiveOnOwnLoop, mapVars, loopVars, reqVars, cliVars
  <2>4. MapPointsAtLiveSession'
    BY <1>13, ChatServiceAssumption DEF Deliver, SessionInv, MapPointsAtLiveSession, EntryHasReason, LoginServesItsClient, ActiveOnOwnLoop, mapVars, loopVars, reqVars, cliVars
  <2> QED
    BY <2>1, <2>2, <2>3, <2>4 DEF SessionInv
<1>14. ASSUME NEW t \in Threads, NEW c \in Conns, Logout(t, c) PROVE SessionInv'
  <2>1. LoginServesItsClient'
    BY <1>14, ChatServiceAssumption DEF Logout, EraseEntry, Take, SessionInv, LoginServesItsClient, ActiveOnOwnLoop, mapVars, loopVars, reqVars, cliVars
  <2>2. ActiveOnOwnLoop'
    BY <1>14, ChatServiceAssumption DEF Logout, EraseEntry, Take, SessionInv, ActiveOnOwnLoop, mapVars, loopVars, reqVars, cliVars
  <2>3. EntryHasReason'
    BY <1>14, ChatServiceAssumption DEF Logout, EraseEntry, Take, SessionInv, EntryHasReason, MapPointsAtLiveSession, LoginServesItsClient, ActiveOnOwnLoop, mapVars, loopVars, reqVars, cliVars
  <2>4. MapPointsAtLiveSession'
    BY <1>14, ChatServiceAssumption DEF Logout, EraseEntry, Take, SessionInv, MapPointsAtLiveSession, EntryHasReason, LoginServesItsClient, ActiveOnOwnLoop, mapVars, loopVars, reqVars, cliVars
  <2> QED
    BY <2>1, <2>2, <2>3, <2>4 DEF SessionInv
<1>15. ASSUME NEW t \in Threads, NEW c \in Conns, CloseException(t, c) PROVE SessionInv'
  <2>1. LoginServesItsClient'
    BY <1>15, ChatServiceAssumption DEF CloseException, EraseEntry, Take, SessionInv, LoginServesItsClient, ActiveOnOwnLoop, mapVars, loopVars, reqVars, cliVars
  <2>2. ActiveOnOwnLoop'
    BY <1>15, ChatServiceAssumption DEF CloseException, EraseEntry, Take, SessionInv, ActiveOnOwnLoop, mapVars, loopVars, reqVars, cliVars
  <2>3. EntryHasReason'
    <3>1. ASSUME NEW u \in Users, userConnMap'[u] # NoConn
          PROVE  userConnMap[u] = userConnMap'[u] /\ userConnMap[u] \in Conns \ {c}
      <4>1. userConnMap[u] = userConnMap'[u] /\ userConnMap[u] \in Conns
        BY <1>15, <3>1, ChatServiceAssumption DEF CloseException, EraseEntry
      <4>2. userConnMap[u] # c
        BY <1>15, <3>1, <4>1 DEF CloseException, EraseEntry, SessionInv, MapPointsAtLiveSession
      <4> QED
        BY <4>1, <4>2
    <3>2. ASSUME NEW u \in Users, userConnMap'[u] # NoConn, NEW d \in Conns, d = userConnMap[u]
          PROVE  \/ phase'[d] = "main"
                 \/ pc'[LoopOf[d]] \in LoginSteps /\ cur'[LoopOf[d]] = d
                 \/ phase'[d] = "wait" /\ link'[d] = "gone"
      <4>1. d # c /\ phase' = phase /\ cur' = cur /\ link'[d] = link[d]
        BY <1>15, <3>1, <3>2 DEF CloseException
      <4>2. LoopOf[d] # t => pc'[LoopOf[d]] = pc[LoopOf[d]]
        <5>1. \A x \in Threads \ {t} : pc'[x] = pc[x]
          BY <1>15 DEF CloseException, EraseEntry
        <5>2. LoopOf[d] \in Threads
          BY ChatServiceAssumption
        <5> QED
          BY <5>1, <5>2
      <4>3. pc[t] = "dispatch"
        BY <1>15 DEF CloseException, EraseEntry, Take
      <4>4. \/ phase[d] = "main"
            \/ pc[LoopOf[d]] \in LoginSteps /\ cur[LoopOf[d]] = d
            \/ phase[d] = "wait" /\ link[d] = "gone"
        BY <3>1, <3>2 DEF SessionInv, EntryHasReason
      <4> QED
        BY <4>1, <4>2, <4>3, <4>4
    <3> QED
      BY <3>1, <3>2 DEF EntryHasReason
  <2>4. MapPointsAtLiveSession'
    BY <1>15, ChatServiceAssumption DEF CloseException, EraseEntry, Take, SessionInv, MapPointsAtLiveSession, EntryHasReason, LoginServesItsClient, ActiveOnOwnLoop, mapVars, loopVars, reqVars, cliVars
  <2> QED
    BY <2>1, <2>2, <2>3, <2>4 DEF SessionInv
<1>16. ASSUME NEW t \in Threads, SetOffline(t) PROVE SessionInv'
  <2>1. LoginServesItsClient'
    BY <1>16, ChatServiceAssumption DEF SetOffline, UpdateState, Return, SessionInv, LoginServesItsClient, ActiveOnOwnLoop, mapVars, loopVars, reqVars, cliVars
  <2>2. ActiveOnOwnLoop'
    BY <1>16, ChatServiceAssumption DEF SetOffline, UpdateState, Return, SessionInv, ActiveOnOwnLoop, mapVars, loopVars, reqVars, cliVars
  <2>3. EntryHasReason'
    BY <1>16, ChatServiceAssumption DEF SetOffline, UpdateState, Return, SessionInv, EntryHasReason, MapPointsAtLiveSession, LoginServesItsClient, ActiveOnOwnLoop, mapVars, loopVars, reqVars, cliVars
  <2>4. MapPointsAtLiveSession'
    BY <1>16, ChatServiceAssumption DEF SetOffline, UpdateState, Return, SessionInv, MapPointsAtLiveSession, EntryHasReason, LoginServesItsClient, ActiveOnOwnLoop, mapVars, loopVars, reqVars, cliVars
  <2> QED
    BY <2>1, <2>2, <2>3, <2>4 DEF SessionInv
<1>17. ASSUME NEW c \in Conns, Connect(c) \/ Quit(c) PROVE SessionInv'
  <2>1. LoginServesItsClient'
    <3>1. ASSUME NEW x \in Threads, pc'[x] \in LoginSteps
          PROVE  link'[cur[x]] \in {"up", "gone"}
      <4>1. pc[x] \in LoginSteps /\ cur[x] \in Conns
        BY <1>17, <3>1 DEF Connect, Quit
      <4>2. link[cur[x]] \in {"up", "gone"}
        BY <4>1 DEF SessionInv, LoginServesItsClient
      <4> QED
        BY <1>17, <4>1, <4>2 DEF Connect, Quit
    <3> QED
      BY <1>17, <3>1 DEF Connect, Quit, SessionInv, LoginServesItsClient, reqVars
  <2>2. ActiveOnOwnLoop'
    BY <1>17, ChatServiceAssumption DEF Connect, Quit, SessionInv, ActiveOnOwnLoop, mapVars, loopVars, reqVars, cliVars
  <2>3. EntryHasReason'
    BY <1>17, ChatServiceAssumption DEF Connect, Quit, SessionInv, EntryHasReason, MapPointsAtLiveSession, LoginServesItsClient, ActiveOnOwnLoop, mapVars, loopVars, reqVars, cliVars
  <2>4. MapPointsAtLiveSession'
    <3>1. ASSUME NEW u \in Users, userConnMap[u] # NoConn
          PROVE  link'[userConnMap[u]] \in {"up", "gone"} /\ session'[userConnMap[u]] = u
      <4>1. link[userConnMap[u]] \in {"up", "gone"} /\ session[userConnMap[u]] = u
        BY <3>1 DEF SessionInv, MapPointsAtLiveSession
      <4> QED
        BY <1>17, <3>1, <4>1 DEF Connect, Quit
    <3> QED
      BY <1>17, <3>1 DEF Connect, Quit, MapPointsAtLiveSession, mapVars
  <2> QED
    BY <2>1, <2>2, <2>3, <2>4 DEF SessionInv
<1>18. CASE Sigint \/ ResetState \/ Restart
  <2>1. LoginServesItsClient'
    BY <1>18, ChatServiceAssumption DEF Sigint, ResetState, Restart, SessionInv, LoginServesItsClient, ActiveOnOwnLoop, mapVars, loopVars, reqVars, cliVars
  <2>2. ActiveOnOwnLoop'
    BY <1>18, ChatServiceAssumption DEF Sigint, ResetState, Restart, SessionInv, ActiveOnOwnLoop, mapVars, loopVars, reqVars, cliVars
  <2>3. EntryHasReason'
    BY <1>18, ChatServiceAssumption DEF Sigint, ResetState, Restart, SessionInv, EntryHasReason, MapPointsAtLiveSession, LoginServesItsClient, ActiveOnOwnLoop, mapVars, loopVars, reqVars, cliVars
  <2>4. MapPointsAtLiveSession'
    BY <1>18, ChatServiceAssumption DEF Sigint, ResetState, Restart, SessionInv, MapPointsAtLiveSession, EntryHasReason, LoginServesItsClient, ActiveOnOwnLoop, mapVars, loopVars, reqVars, cliVars
  <2> QED
    BY <2>1, <2>2, <2>3, <2>4 DEF SessionInv
<1>19. CASE Exit \/ Kill
  <2>1. LoginServesItsClient'
    BY <1>19, ChatServiceAssumption DEF Exit, Kill, ProcessEnds, SessionInv, LoginServesItsClient, ActiveOnOwnLoop, mapVars, loopVars, reqVars, cliVars
  <2>2. ActiveOnOwnLoop'
    BY <1>19, ChatServiceAssumption DEF Exit, Kill, ProcessEnds, SessionInv, ActiveOnOwnLoop, mapVars, loopVars, reqVars, cliVars
  <2>3. EntryHasReason'
    BY <1>19, ChatServiceAssumption DEF Exit, Kill, ProcessEnds, SessionInv, EntryHasReason, MapPointsAtLiveSession, LoginServesItsClient, ActiveOnOwnLoop, mapVars, loopVars, reqVars, cliVars
  <2>4. MapPointsAtLiveSession'
    BY <1>19, ChatServiceAssumption DEF Exit, Kill, ProcessEnds, SessionInv, MapPointsAtLiveSession, EntryHasReason, LoginServesItsClient, ActiveOnOwnLoop, mapVars, loopVars, reqVars, cliVars
  <2> QED
    BY <2>1, <2>2, <2>3, <2>4 DEF SessionInv
<1>20. CASE Idle \/ UNCHANGED vars
  <2>1. LoginServesItsClient'
    BY <1>20, ChatServiceAssumption DEF Idle, vars, SessionInv, LoginServesItsClient, ActiveOnOwnLoop, mapVars, loopVars, reqVars, cliVars
  <2>2. ActiveOnOwnLoop'
    BY <1>20, ChatServiceAssumption DEF Idle, vars, SessionInv, ActiveOnOwnLoop, mapVars, loopVars, reqVars, cliVars
  <2>3. EntryHasReason'
    BY <1>20, ChatServiceAssumption DEF Idle, vars, SessionInv, EntryHasReason, MapPointsAtLiveSession, LoginServesItsClient, ActiveOnOwnLoop, mapVars, loopVars, reqVars, cliVars
  <2>4. MapPointsAtLiveSession'
    BY <1>20, ChatServiceAssumption DEF Idle, vars, SessionInv, MapPointsAtLiveSession, EntryHasReason, LoginServesItsClient, ActiveOnOwnLoop, mapVars, loopVars, reqVars, cliVars
  <2> QED
    BY <2>1, <2>2, <2>3, <2>4 DEF SessionInv
<1> QED
  BY <1>1, <1>2, <1>3, <1>4, <1>5, <1>6, <1>7, <1>8, <1>9, <1>10, <1>11, <1>12, <1>13,
     <1>14, <1>15, <1>16, <1>17, <1>18, <1>19, <1>20 DEF Next, LoopThread, Handle

(* If no client misses its login answer, _userConnMap never names a closed *)
(* connection, nor one whose client uses another account.                  *)
THEOREM MapCorrect ==
  ASSUME MissedAck = FALSE
  PROVE  Spec => []MapPointsAtLiveSession
<1>1. SessionInv => MapPointsAtLiveSession
  BY DEF SessionInv
<1>2. TypeOK /\ SessionInv /\ [Next]_vars => SessionInv'
  BY SessionNext
<1> QED
  BY <1>1, <1>2, SessionInit, TypeCorrect, PTL DEF Spec

-----------------------------------------------------------------------------
(* No mail is left behind at the start ...                                 *)
LEMMA MailInit == Init => MailInv
BY DEF Init, MailInv

(* ... nor by a step: deliveries store mail only for users without an entry, *)
(* and the login that makes an entry has yet to fetch and remove.          *)
LEMMA MailNext ==
  ASSUME MaxDbFaults = 0, TypeOK, MailInv, [Next]_vars,
         \A t \in Threads : pc[t] \in LoginSteps => LoopOf[cur[t]] = t /\ session[cur[t]] = id[t],
         \A u \in Users : userConnMap[u] # NoConn => session[userConnMap[u]] = u
  PROVE  MailInv'
<1> USE DEF LoopSteps, LoginSteps, Goto
<1>0. /\ DbType /\ MapType /\ LoopType /\ RequestType /\ MailType /\ ClientType
      /\ ~Fails
  BY DEF TypeOK, DbType, Fails
<1> USE <1>0 DEF DbType, MapType, RequestType, MailType
<1>1. ASSUME NEW t \in Threads, Poll(t) PROVE MailInv'
  BY <1>1, ChatServiceAssumption DEF Poll, Ready, MailInv, FetchComes, dbVars, mapVars, reqVars
<1>2. ASSUME NEW t \in Threads, SwapFunctors(t) PROVE MailInv'
  BY <1>2, ChatServiceAssumption DEF SwapFunctors, MailInv, FetchComes, dbVars, mapVars, reqVars
<1>3. ASSUME NEW t \in Threads, RunFunctor(t) PROVE MailInv'
  BY <1>3, ChatServiceAssumption DEF RunFunctor, MailInv, FetchComes, dbVars, mapVars, reqVars
<1>4. ASSUME NEW t \in Threads, NEW c \in Conns, NEW u \in Users, LoginGranted(t, c, u) PROVE MailInv'
  BY <1>4, ChatServiceAssumption DEF LoginGranted, Take, MailInv, FetchComes, dbVars, mapVars, reqVars
<1>5. ASSUME NEW t \in Threads, NEW c \in Conns, NEW u \in Users, LoginRefused(t, c, u) PROVE MailInv'
  BY <1>5, ChatServiceAssumption DEF LoginRefused, Take, MailInv, FetchComes, dbVars, mapVars, reqVars
<1>6. ASSUME NEW t \in Threads, LoginInsert(t) PROVE MailInv'
  <2>1. cur[t] \in Conns /\ LoopOf[cur[t]] = t /\ pc' = [pc EXCEPT ![t] = "setonline"]
    BY <1>6 DEF LoginInsert
  <2>2. ASSUME NEW u \in Users, userConnMap'[u] # NoConn, dbOffline[u] # <<>>
        PROVE  FetchComes(userConnMap[u])'
    <3>1. CASE userConnMap[u] = NoConn
      <4>1. userConnMap'[u] = cur[t]
        BY <1>6, <2>2, <3>1 DEF LoginInsert
      <4> QED
        BY <1>6, <2>1, <4>1 DEF LoginInsert, FetchComes, reqVars
    <3>2. CASE userConnMap[u] # NoConn
      <4>1. userConnMap'[u] = userConnMap[u] /\ FetchComes(userConnMap[u])
        BY <1>6, <2>2, <3>2 DEF LoginInsert, MailInv
      <4> QED
        BY <1>6, <2>1, <3>2, <4>1, ChatServiceAssumption DEF LoginInsert, FetchComes, reqVars
    <3> QED
      BY <3>1, <3>2
  <2> QED
    BY <1>6, <2>2 DEF LoginInsert, MailInv, dbVars
<1>7. ASSUME NEW t \in Threads, LoginSetOnline(t) PROVE MailInv'
  BY <1>7, ChatServiceAssumption DEF LoginSetOnline, UpdateState, MailInv, FetchComes, dbVars, mapVars, reqVars
<1>8. ASSUME NEW t \in Threads, LoginFetch(t) PROVE MailInv'
  <2>1. /\ pc[t] = "fetch" /\ LoopOf[cur[t]] = t /\ session[cur[t]] = id[t]
        /\ UNCHANGED <<dbOffline, userConnMap, cur>>
    BY <1>8 DEF LoginFetch, QueryOffline, mapVars
  <2>2. dbOffline[id[t]] # <<>> => pc' = [pc EXCEPT ![t] = "remove"]
    BY <1>8 DEF LoginFetch, QueryOffline
  <2>3. \A x \in Threads \ {t} : pc'[x] = pc[x]
    BY <1>8 DEF LoginFetch, QueryOffline
  <2>4. ASSUME NEW u \in Users, userConnMap[u] # NoConn, dbOffline[u] # <<>>
        PROVE  FetchComes(userConnMap[u])'
    <3>1. FetchComes(userConnMap[u]) /\ session[userConnMap[u]] = u /\ userConnMap[u] \in Conns
      BY <2>4 DEF MailInv
    <3>2. LoopOf[userConnMap[u]] \in Threads
      BY <3>1, ChatServiceAssumption
    <3>3. CASE LoopOf[userConnMap[u]] = t
      BY <2>1, <2>2, <2>4, <3>1, <3>3 DEF FetchComes
    <3>4. CASE LoopOf[userConnMap[u]] # t
      BY <2>1, <2>3, <3>1, <3>2, <3>4 DEF FetchComes
    <3> QED
      BY <3>3, <3>4
  <2> QED
    BY <2>1, <2>4 DEF MailInv
<1>9. ASSUME NEW t \in Threads, LoginRemove(t) PROVE MailInv'
  <2>1. /\ pc[t] = "remove" /\ LoopOf[cur[t]] = t /\ session[cur[t]] = id[t]
        /\ UNCHANGED <<userConnMap, cur>>
        /\ dbOffline' = [dbOffline EXCEPT ![id[t]] = <<>>]
    BY <1>9 DEF LoginRemove, RemoveOffline, mapVars, reqVars
  <2>2. \A x \in Threads \ {t} : pc'[x] = pc[x]
    BY <1>9 DEF LoginRemove, RemoveOffline
  <2>3. ASSUME NEW u \in Users, userConnMap[u] # NoConn, dbOffline'[u] # <<>>
        PROVE  FetchComes(userConnMap[u])'
    <3>1. u # id[t] /\ dbOffline[u] # <<>>
      BY <2>1, <2>3
    <3>2. FetchComes(userConnMap[u]) /\ session[userConnMap[u]] = u /\ userConnMap[u] \in Conns
      BY <2>3, <3>1 DEF MailInv
    <3>3. LoopOf[userConnMap[u]] \in Threads \ {t}
      BY <2>1, <3>1, <3>2, ChatServiceAssumption DEF FetchComes
    <3> QED
      BY <2>1, <2>2, <3>2, <3>3 DEF FetchComes
  <2> QED
    BY <2>1, <2>3 DEF MailInv
<1>10. ASSUME NEW t \in Threads, LoginReply(t) PROVE MailInv'
  BY <1>10, ChatServiceAssumption DEF LoginReply, Return, MailInv, FetchComes, dbVars, mapVars, reqVars
<1>11. ASSUME NEW t \in Threads, NEW c \in Conns, NEW u \in Users, OneChat(t, c, u) PROVE MailInv'
  BY <1>11, ChatServiceAssumption DEF OneChat, Accept, Take, MailInv, FetchComes, dbVars, mapVars, reqVars
<1>12. ASSUME NEW t \in Threads, NEW c \in Conns, GroupChat(t, c) PROVE MailInv'
  BY <1>12, ChatServiceAssumption DEF GroupChat, QueryGroupUsers, Accept, Take, MailInv, FetchComes, dbVars, mapVars, reqVars
<1>13. ASSUME NEW t \in Threads, Deliver(t) PROVE MailInv'
  BY <1>13, ChatServiceAssumption DEF Deliver, InsertOffline, MailInv, FetchComes, dbVars, mapVars, reqVars
<1>14. ASSUME NEW t \in Threads, NEW c \in Conns, Logout(t, c) PROVE MailInv'
  BY <1>14, ChatServiceAssumption DEF Logout, EraseEntry, Take, MailInv, FetchComes, dbVars, mapVars, reqVars
<1>15. ASSUME NEW t \in Threads, NEW c \in Conns, CloseException(t, c) PROVE MailInv'
  BY <1>15, ChatServiceAssumption DEF CloseException, EraseEntry, Take, MailInv, FetchComes, dbVars, mapVars, reqVars
<1>16. ASSUME NEW t \in Threads, SetOffline(t) PROVE MailInv'
  BY <1>16, ChatServiceAssumption DEF SetOffline, UpdateState, Return, MailInv, FetchComes, dbVars, mapVars, reqVars
<1>17. ASSUME NEW c \in Conns, Connect(c) \/ Quit(c) PROVE MailInv'
  BY <1>17, ChatServiceAssumption DEF Connect, Quit, MailInv, FetchComes, dbVars, mapVars, reqVars
<1>18. CASE Sigint \/ ResetState \/ Restart
  BY <1>18, ChatServiceAssumption DEF Sigint, ResetState, Restart, MailInv, FetchComes, dbVars, mapVars, reqVars
<1>19. CASE Exit \/ Kill
  BY <1>19, ChatServiceAssumption DEF Exit, Kill, ProcessEnds, MailInv, FetchComes, dbVars, mapVars, reqVars
<1>20. CASE Idle \/ UNCHANGED vars
  BY <1>20, ChatServiceAssumption DEF Idle, vars, MailInv, FetchComes, dbVars, mapVars, reqVars
<1> QED
  BY <1>1, <1>2, <1>3, <1>4, <1>5, <1>6, <1>7, <1>8, <1>9, <1>10, <1>11, <1>12, <1>13,
     <1>14, <1>15, <1>16, <1>17, <1>18, <1>19, <1>20 DEF Next, LoopThread, Handle

(* If the database answers and no client misses its login answer, a client *)
(* that the map names and that has its login answer has no mail left in    *)
(* OfflineMessage, however deliveries and logins interleave.               *)
THEOREM MailCorrect ==
  ASSUME MissedAck = FALSE, MaxDbFaults = 0
  PROVE  Spec => []NoStrandedMail
<1>1. TypeOK /\ SessionInv /\ MailInv => NoStrandedMail
  BY ChatServiceAssumption
     DEF TypeOK, MapType, SessionInv, LoginServesItsClient, MailInv, FetchComes, NoStrandedMail, LoginSteps
<1>2. TypeOK /\ SessionInv /\ [Next]_vars => SessionInv'
  BY SessionNext
<1>3. TypeOK /\ SessionInv /\ MailInv /\ [Next]_vars => MailInv'
  BY MailNext, ChatServiceAssumption DEF SessionInv, LoginServesItsClient, MapPointsAtLiveSession
<1> QED
  BY <1>1, <1>2, <1>3, SessionInit, MailInit, TypeCorrect, PTL DEF Spec
=============================================================================
