------------------------- MODULE ChatDeliveryProofs -------------------------
(***************************************************************************)
(* What becomes of the copies of a chat message, for any number of users,  *)
(* connections, loops and messages.  Where the hypotheses are stronger     *)
(* than those of ChatServiceProofs, the README names the behaviour of the  *)
(* code that makes them necessary.                                         *)
(***************************************************************************)
EXTENDS ChatServiceProofs

(* Everyone uses accounts of their own.                                    *)
AccountsApart == \A c, d \in Conns : Accounts[c] \cap Accounts[d] # {} => c = d

-----------------------------------------------------------------------------
(* What is in a sequence after it grew or shrank.                          *)
LEMMA RangeEmpty == Range(<<>>) = {}
BY DEF Range

LEMMA RangeAppend ==
  ASSUME NEW S, NEW s \in Seq(S), NEW x \in S
  PROVE  Range(Append(s, x)) = Range(s) \cup {x}
<1>1. DOMAIN Append(s, x) = 1..Len(s)+1 /\ DOMAIN s = 1..Len(s) /\ Len(s) \in Nat
  OBVIOUS
<1>2. Append(s, x)[Len(s) + 1] = x /\ \A i \in 1..Len(s) : Append(s, x)[i] = s[i]
  OBVIOUS
<1>3. 1..Len(s)+1 = 1..Len(s) \cup {Len(s) + 1}
  BY <1>1
<1> QED
  BY <1>1, <1>2, <1>3, Zenon DEF Range

LEMMA RangeConcat ==
  ASSUME NEW S, NEW s \in Seq(S), NEW r \in Seq(S)
  PROVE  Range(s \o r) = Range(s) \cup Range(r)
<1>1. /\ DOMAIN s = 1..Len(s) /\ DOMAIN r = 1..Len(r) /\ DOMAIN (s \o r) = 1..Len(s)+Len(r)
      /\ Len(s) \in Nat /\ Len(r) \in Nat
  OBVIOUS
<1>2. \A i \in 1..Len(s)+Len(r) : (s \o r)[i] = IF i <= Len(s) THEN s[i] ELSE r[i - Len(s)]
  BY ConcatProperties
<1>3. \A i \in 1..Len(s) : i \in 1..Len(s)+Len(r) /\ i <= Len(s)
  BY <1>1
<1>4. \A i \in 1..Len(r) : Len(s) + i \in 1..Len(s)+Len(r) /\ ~(Len(s) + i <= Len(s))
                           /\ Len(s) + i - Len(s) = i
  BY <1>1
<1>5. \A i \in 1..Len(s)+Len(r) : ~(i <= Len(s)) => i - Len(s) \in 1..Len(r)
  BY <1>1
<1>6. \A i \in 1..Len(s)+Len(r) : i <= Len(s) => i \in 1..Len(s)
  BY <1>1
<1>7. Range(s) \subseteq Range(s \o r)
  BY <1>1, <1>2, <1>3 DEF Range
<1>8. Range(r) \subseteq Range(s \o r)
  <2>1. ASSUME NEW i \in 1..Len(r) PROVE r[i] \in Range(s \o r)
    <3>1. (s \o r)[Len(s) + i] = r[i]
      BY <1>2, <1>4
    <3> QED
      BY <1>1, <1>4, <3>1 DEF Range
  <2> QED
    BY <1>1, <2>1 DEF Range
<1>9. Range(s \o r) \subseteq Range(s) \cup Range(r)
  BY <1>1, <1>2, <1>5, <1>6 DEF Range
<1> QED
  BY <1>7, <1>8, <1>9

LEMMA RangeHeadTail ==
  ASSUME NEW S, NEW s \in Seq(S), s # <<>>
  PROVE  /\ Head(s) \in S /\ Tail(s) \in Seq(S)
         /\ Range(s) = {Head(s)} \cup Range(Tail(s))
<1>1. /\ Head(s) \in S /\ Tail(s) \in Seq(S) /\ Len(Tail(s)) = Len(s) - 1 /\ Len(s) \in Nat \ {0}
      /\ \A i \in 1..Len(Tail(s)) : Tail(s)[i] = s[i + 1]
  BY HeadTailProperties
<1>2. /\ DOMAIN s = 1..Len(s) /\ DOMAIN Tail(s) = 1..Len(Tail(s)) /\ Head(s) = s[1] /\ 1 \in 1..Len(s)
  BY <1>1
<1>3. \A i \in 1..Len(Tail(s)) : i + 1 \in 1..Len(s)
  BY <1>1
<1>4. \A i \in 1..Len(s) : i = 1 \/ (i - 1 \in 1..Len(Tail(s)) /\ (i - 1) + 1 = i)
  BY <1>1
<1>5. {Head(s)} \cup Range(Tail(s)) \subseteq Range(s)
  BY <1>1, <1>2, <1>3 DEF Range
<1>6. ASSUME NEW i \in 1..Len(s) PROVE s[i] \in {Head(s)} \cup Range(Tail(s))
  <2>1. CASE i = 1
    BY <1>2, <2>1
  <2>2. CASE i - 1 \in 1..Len(Tail(s)) /\ (i - 1) + 1 = i
    <3>1. Tail(s)[i - 1] = s[i]
      BY <1>1, <2>2
    <3> QED
      BY <1>2, <2>2, <3>1 DEF Range
  <2> QED
    BY <1>4, <2>1, <2>2
<1> QED
  BY <1>1, <1>2, <1>5, <1>6 DEF Range

LEMMA RangeType ==
  ASSUME NEW S, NEW s \in Seq(S)
  PROVE  Range(s) \in SUBSET S
BY DEF Range

(* What is queued for a loop.                                              *)
LEMMA QueueType ==
  ASSUME LoopType, NEW x \in Threads, NEW f \in Range(pending[x]) \cup Range(batch[x])
  PROVE  f \in Functor /\ f.conn \in Conns /\ f.copy \in Copy
<1>1. f \in Functor
  BY RangeType DEF LoopType
<1> QED
  BY <1>1 DEF Functor

-----------------------------------------------------------------------------
(* A client has only its own accounts, entries of the map and running      *)
(* handlers are about the account of a connection of their loop, and the   *)
(* login that made an entry finds it in place until it has answered.       *)
Busy == LoginSteps \cup {"setoffline"}

SessionOwned == \A c \in Conns : session[c] # NoUser => session[c] \in Accounts[c]

EntryOwned ==
  \A u \in Users : userConnMap[u] # NoConn => u \in Accounts[userConnMap[u]]

LoginOwned ==
  \A t \in Threads : pc[t] \in LoginSteps => LoopOf[cur[t]] = t /\ id[t] = session[cur[t]]

LogoutOwned ==
  \A t \in Threads : pc[t] = "setoffline" =>
    \E c \in Conns : LoopOf[c] = t /\ id[t] \in Accounts[c]

IdleHasNoId == \A t \in Threads : pc[t] \notin Busy => id[t] = NoUser

LoginHasEntry ==
  \A t \in Threads : pc[t] \in {"setonline", "fetch", "remove", "reply"} =>
    userConnMap[id[t]] = cur[t]

RouteInv ==
  /\ SessionOwned
  /\ EntryOwned
  /\ ActiveOnOwnLoop
  /\ LoginOwned
  /\ LogoutOwned
  /\ IdleHasNoId
  /\ LoginHasEntry

(* Whoever shares accounts: a client uses only its own, a loop handles its *)
(* own connections, and a login is about the account it granted.           *)
OwnedInv ==
  /\ SessionOwned
  /\ ActiveOnOwnLoop
  /\ LoginOwned

(* ... which holds after every step, failed statements and restarts        *)
(* included.                                                               *)
LEMMA OwnedNext ==
  ASSUME TypeOK, OwnedInv, [Next]_vars
  PROVE  OwnedInv'
<1> USE DEF LoopSteps, LoginSteps, Goto
<1>0. /\ MapType /\ LoopType /\ RequestType /\ ClientType
      /\ SessionOwned /\ ActiveOnOwnLoop /\ LoginOwned
  BY DEF TypeOK, OwnedInv
<1> USE <1>0 DEF MapType, LoopType, RequestType, ClientType
<1>1. ASSUME NEW t \in Threads, Poll(t) PROVE OwnedInv'
  <2>1. SessionOwned'
    BY <1>1, ChatServiceAssumption DEF Poll, Ready, SessionOwned, dbVars, mapVars, loopVars, reqVars, cliVars
  <2>2. ActiveOnOwnLoop'
    BY <1>1, ChatServiceAssumption DEF Poll, Ready, ActiveOnOwnLoop, dbVars, mapVars, loopVars, reqVars, cliVars
  <2>3. LoginOwned'
    BY <1>1, ChatServiceAssumption DEF Poll, Ready, LoginOwned, ActiveOnOwnLoop, dbVars, mapVars, loopVars, reqVars, cliVars
  <2> QED
    BY <2>1, <2>2, <2>3 DEF OwnedInv
<1>2. ASSUME NEW t \in Threads, SwapFunctors(t) PROVE OwnedInv'
  <2>1. SessionOwned'
    BY <1>2, ChatServiceAssumption DEF SwapFunctors, SessionOwned, dbVars, mapVars, loopVars, reqVars, cliVars
  <2>2. ActiveOnOwnLoop'
    BY <1>2, ChatServiceAssumption DEF SwapFunctors, ActiveOnOwnLoop, dbVars, mapVars, loopVars, reqVars, cliVars
  <2>3. LoginOwned'
    BY <1>2, ChatServiceAssumption DEF SwapFunctors, LoginOwned, ActiveOnOwnLoop, dbVars, mapVars, loopVars, reqVars, cliVars
  <2> QED
    BY <2>1, <2>2, <2>3 DEF OwnedInv
<1>3. ASSUME NEW t \in Threads, RunFunctor(t) PROVE OwnedInv'
  <2>1. SessionOwned'
    BY <1>3, ChatServiceAssumption DEF RunFunctor, SessionOwned, dbVars, mapVars, loopVars, reqVars, cliVars
  <2>2. ActiveOnOwnLoop'
    BY <1>3, ChatServiceAssumption DEF RunFunctor, ActiveOnOwnLoop, dbVars, mapVars, loopVars, reqVars, cliVars
  <2>3. LoginOwned'
    BY <1>3, ChatServiceAssumption DEF RunFunctor, LoginOwned, ActiveOnOwnLoop, dbVars, mapVars, loopVars, reqVars, cliVars
  <2> QED
    BY <2>1, <2>2, <2>3 DEF OwnedInv
<1>4. ASSUME NEW t \in Threads, NEW c \in Conns, NEW u \in Users, LoginGranted(t, c, u) PROVE OwnedInv'
  <2>1. SessionOwned'
    BY <1>4, ChatServiceAssumption DEF LoginGranted, Take, SessionOwned, dbVars, mapVars, loopVars, reqVars, cliVars
  <2>2. ActiveOnOwnLoop'
    BY <1>4, ChatServiceAssumption DEF LoginGranted, Take, ActiveOnOwnLoop, dbVars, mapVars, loopVars, reqVars, cliVars
  <2>3. LoginOwned'
    BY <1>4, ChatServiceAssumption DEF LoginGranted, Take, LoginOwned, ActiveOnOwnLoop, dbVars, mapVars, loopVars, reqVars, cliVars
  <2> QED
    BY <2>1, <2>2, <2>3 DEF OwnedInv
<1>5. ASSUME NEW t \in Threads, NEW c \in Conns, NEW u \in Users, LoginRefused(t, c, u) PROVE OwnedInv'
  <2>1. SessionOwned'
    BY <1>5, ChatServiceAssumption DEF LoginRefused, Take, SessionOwned, dbVars, mapVars, loopVars, reqVars, cliVars
  <2>2. ActiveOnOwnLoop'
    BY <1>5, ChatServiceAssumption DEF LoginRefused, Take, ActiveOnOwnLoop, dbVars, mapVars, loopVars, reqVars, cliVars
  <2>3. LoginOwned'
    BY <1>5, ChatServiceAssumption DEF LoginRefused, Take, LoginOwned, ActiveOnOwnLoop, dbVars, mapVars, loopVars, reqVars, cliVars
  <2> QED
    BY <2>1, <2>2, <2>3 DEF OwnedInv
<1>6. ASSUME NEW t \in Threads, LoginInsert(t) PROVE OwnedInv'
  <2>1. SessionOwned'
    BY <1>6, ChatServiceAssumption DEF LoginInsert, SessionOwned, dbVars, mapVars, loopVars, reqVars, cliVars
  <2>2. ActiveOnOwnLoop'
    BY <1>6, ChatServiceAssumption DEF LoginInsert, ActiveOnOwnLoop, dbVars, mapVars, loopVars, reqVars, cliVars
  <2>3. LoginOwned'
    BY <1>6, ChatServiceAssumption DEF LoginInsert, LoginOwned, ActiveOnOwnLoop, dbVars, mapVars, loopVars, reqVars, cliVars
  <2> QED
    BY <2>1, <2>2, <2>3 DEF OwnedInv
<1>7. ASSUME NEW t \in Threads, LoginSetOnline(t) PROVE OwnedInv'
  <2>1. SessionOwned'
    BY <1>7, ChatServiceAssumption DEF LoginSetOnline, UpdateState, SessionOwned, dbVars, mapVars, loopVars, reqVars, cliVars
  <2>2. ActiveOnOwnLoop'
    BY <1>7, ChatServiceAssumption DEF LoginSetOnline, UpdateState, ActiveOnOwnLoop, dbVars, mapVars, loopVars, reqVars, cliVars
  <2>3. LoginOwned'
    BY <1>7, ChatServiceAssumption DEF LoginSetOnline, UpdateState, LoginOwned, ActiveOnOwnLoop, dbVars, mapVars, loopVars, reqVars, cliVars
  <2> QED
    BY <2>1, <2>2, <2>3 DEF OwnedInv
<1>8. ASSUME NEW t \in Threads, LoginFetch(t) PROVE OwnedInv'
  <2>1. SessionOwned'
    BY <1>8, ChatServiceAssumption DEF LoginFetch, QueryOffline, SessionOwned, dbVars, mapVars, loopVars, reqVars, cliVars
  <2>2. ActiveOnOwnLoop'
    BY <1>8, ChatServiceAssumption DEF LoginFetch, QueryOffline, ActiveOnOwnLoop, dbVars, mapVars, loopVars, reqVars, cliVars
  <2>3. LoginOwned'
    BY <1>8, ChatServiceAssumption DEF LoginFetch, QueryOffline, LoginOwned, ActiveOnOwnLoop, dbVars, mapVars, loopVars, reqVars, cliVars
  <2> QED
    BY <2>1, <2>2, <2>3 DEF OwnedInv
<1>9. ASSUME NEW t \in Threads, LoginRemove(t) PROVE OwnedInv'
  <2>1. SessionOwned'
    BY <1>9, ChatServiceAssumption DEF LoginRemove, RemoveOffline, SessionOwned, dbVars, mapVars, loopVars, reqVars, cliVars
  <2>2. ActiveOnOwnLoop'
    BY <1>9, ChatServiceAssumption DEF LoginRemove, RemoveOffline, ActiveOnOwnLoop, dbVars, mapVars, loopVars, reqVars, cliVars
  <2>3. LoginOwned'
    BY <1>9, ChatServiceAssumption DEF LoginRemove, RemoveOffline, LoginOwned, ActiveOnOwnLoop, dbVars, mapVars, loopVars, reqVars, cliVars
  <2> QED
    BY <2>1, <2>2, <2>3 DEF OwnedInv
<1>10. ASSUME NEW t \in Threads, LoginReply(t) PROVE OwnedInv'
  <2>1. SessionOwned'
    BY <1>10, ChatServiceAssumption DEF LoginReply, Return, SessionOwned, dbVars, mapVars, loopVars, reqVars, cliVars
  <2>2. ActiveOnOwnLoop'
    BY <1>10, ChatServiceAssumption DEF LoginReply, Return, ActiveOnOwnLoop, dbVars, mapVars, loopVars, reqVars, cliVars
  <2>3. LoginOwned'
    BY <1>10, ChatServiceAssumption DEF LoginReply, Return, LoginOwned, ActiveOnOwnLoop, dbVars, mapVars, loopVars, reqVars, cliVars
  <2> QED
    BY <2>1, <2>2, <2>3 DEF OwnedInv
<1>11. ASSUME NEW t \in Threads, NEW c \in Conns, NEW u \in Users, OneChat(t, c, u) PROVE OwnedInv'
  <2>1. SessionOwned'
    BY <1>11, ChatServiceAssumption DEF OneChat, Accept, Take, SessionOwned, dbVars, mapVars, loopVars, reqVars, cliVars
  <2>2. ActiveOnOwnLoop'
    BY <1>11, ChatServiceAssumption DEF OneChat, Accept, Take, ActiveOnOwnLoop, dbVars, mapVars, loopVars, reqVars, cliVars
  <2>3. LoginOwned'
    BY <1>11, ChatServiceAssumption DEF OneChat, Accept, Take, LoginOwned, ActiveOnOwnLoop, dbVars, mapVars, loopVars, reqVars, cliVars
  <2> QED
    BY <2>1, <2>2, <2>3 DEF OwnedInv
<1>12. ASSUME NEW t \in Threads, NEW c \in Conns, GroupChat(t, c) PROVE OwnedInv'
  <2>1. SessionOwned'
    BY <1>12, ChatServiceAssumption DEF GroupChat, QueryGroupUsers, Accept, Take, SessionOwned, dbVars, mapVars, loopVars, reqVars, cliVars
  <2>2. ActiveOnOwnLoop'
    BY <1>12, ChatServiceAssumption DEF GroupChat, QueryGroupUsers, Accept, Take, ActiveOnOwnLoop, dbVars, mapVars, loopVars, reqVars, cliVars
  <2>3. LoginOwned'
    BY <1>12, ChatServiceAssumption DEF GroupChat, QueryGroupUsers, Accept, Take, LoginOwned, ActiveOnOwnLoop, dbVars, mapVars, loopVars, reqVars, cliVars
  <2> QED
    BY <2>1, <2>2, <2>3 DEF OwnedInv
<1>13. ASSUME NEW t \in Threads, Deliver(t) PROVE OwnedInv'
  <2>1. SessionOwned'
    BY <1>13, ChatServiceAssumption DEF Deliver, InsertOffline, Send, SessionOwned, dbVars, mapVars, loopVars, reqVars, cliVars
  <2>2. ActiveOnOwnLoop'
    BY <1>13, ChatServiceAssumption DEF Deliver, InsertOffline, Send, ActiveOnOwnLoop, dbVars, mapVars, loopVars, reqVars, cliVars
  <2>3. LoginOwned'
    BY <1>13, ChatServiceAssumption DEF Deliver, InsertOffline, Send, LoginOwned, ActiveOnOwnLoop, dbVars, mapVars, loopVars, reqVars, cliVars
  <2> QED
    BY <2>1, <2>2, <2>3 DEF OwnedInv
<1>14. ASSUME NEW t \in Threads, NEW c \in Conns, Logout(t, c) PROVE OwnedInv'
  <2>1. SessionOwned'
    BY <1>14, ChatServiceAssumption DEF Logout, EraseEntry, Take, SessionOwned, dbVars, mapVars, loopVars, reqVars, cliVars
  <2>2. ActiveOnOwnLoop'
    BY <1>14, ChatServiceAssumption DEF Logout, EraseEntry, Take, ActiveOnOwnLoop, dbVars, mapVars, loopVars, reqVars, cliVars
  <2>3. LoginOwned'
    BY <1>14, ChatServiceAssumption DEF Logout, EraseEntry, Take, LoginOwned, ActiveOnOwnLoop, dbVars, mapVars, loopVars, reqVars, cliVars
  <2> QED
    BY <2>1, <2>2, <2>3 DEF OwnedInv
<1>15. ASSUME NEW t \in Threads, NEW c \in Conns, CloseException(t, c) PROVE OwnedInv'
  <2>1. SessionOwned'
    BY <1>15, ChatServiceAssumption DEF CloseException, EraseEntry, Take, SessionOwned, dbVars, mapVars, loopVars, reqVars, cliVars
  <2>2. ActiveOnOwnLoop'
    BY <1>15, ChatServiceAssumption DEF CloseException, EraseEntry, Take, ActiveOnOwnLoop, dbVars, mapVars, loopVars, reqVars, cliVars
  <2>3. LoginOwned'
    BY <1>15, ChatServiceAssumption DEF CloseException, EraseEntry, Take, LoginOwned, ActiveOnOwnLoop, dbVars, mapVars, loopVars, reqVars, cliVars
  <2> QED
    BY <2>1, <2>2, <2>3 DEF OwnedInv
<1>16. ASSUME NEW t \in Threads, SetOffline(t) PROVE OwnedInv'
  <2>1. SessionOwned'
    BY <1>16, ChatServiceAssumption DEF SetOffline, UpdateState, Return, SessionOwned, dbVars, mapVars, loopVars, reqVars, cliVars
  <2>2. ActiveOnOwnLoop'
    BY <1>16, ChatServiceAssumption DEF SetOffline, UpdateState, Return, ActiveOnOwnLoop, dbVars, mapVars, loopVars, reqVars, cliVars
  <2>3. LoginOwned'
    BY <1>16, ChatServiceAssumption DEF SetOffline, UpdateState, Return, LoginOwned, ActiveOnOwnLoop, dbVars, mapVars, loopVars, reqVars, cliVars
  <2> QED
    BY <2>1, <2>2, <2>3 DEF OwnedInv
<1>17. ASSUME NEW c \in Conns, Connect(c) \/ Quit(c) PROVE OwnedInv'
  <2>1. SessionOwned'
    BY <1>17, ChatServiceAssumption DEF Connect, Quit, SessionOwned, dbVars, mapVars, loopVars, reqVars, cliVars
  <2>2. ActiveOnOwnLoop'
    BY <1>17, ChatServiceAssumption DEF Connect, Quit, ActiveOnOwnLoop, dbVars, mapVars, loopVars, reqVars, cliVars
  <2>3. LoginOwned'
    BY <1>17, ChatServiceAssumption DEF Connect, Quit, LoginOwned, ActiveOnOwnLoop, dbVars, mapVars, loopVars, reqVars, cliVars
  <2> QED
    BY <2>1, <2>2, <2>3 DEF OwnedInv
<1>18. CASE Sigint \/ ResetState \/ Restart
  <2>1. SessionOwned'
    BY <1>18, ChatServiceAssumption DEF Sigint, ResetState, Restart, SessionOwned, dbVars, mapVars, loopVars, reqVars, cliVars
  <2>2. ActiveOnOwnLoop'
    BY <1>18, ChatServiceAssumption DEF Sigint, ResetState, Restart, ActiveOnOwnLoop, dbVars, mapVars, loopVars, reqVars, cliVars
  <2>3. LoginOwned'
    BY <1>18, ChatServiceAssumption DEF Sigint, ResetState, Restart, LoginOwned, ActiveOnOwnLoop, dbVars, mapVars, loopVars, reqVars, cliVars
  <2> QED
    BY <2>1, <2>2, <2>3 DEF OwnedInv
<1>19. CASE Exit \/ Kill
  <2>1. SessionOwned'
    BY <1>19, ChatServiceAssumption DEF Exit, Kill, ProcessEnds, SessionOwned, dbVars, mapVars, loopVars, reqVars, cliVars
  <2>2. ActiveOnOwnLoop'
    BY <1>19, ChatServiceAssumption DEF Exit, Kill, ProcessEnds, ActiveOnOwnLoop, dbVars, mapVars, loopVars, reqVars, cliVars
  <2>3. LoginOwned'
    BY <1>19, ChatServiceAssumption DEF Exit, Kill, ProcessEnds, LoginOwned, ActiveOnOwnLoop, dbVars, mapVars, loopVars, reqVars, cliVars
  <2> QED
    BY <2>1, <2>2, <2>3 DEF OwnedInv
<1>20. CASE Idle \/ UNCHANGED vars
  <2>1. SessionOwned'
    BY <1>20, ChatServiceAssumption DEF Idle, vars, SessionOwned, dbVars, mapVars, loopVars, reqVars, cliVars
  <2>2. ActiveOnOwnLoop'
    BY <1>20, ChatServiceAssumption DEF Idle, vars, ActiveOnOwnLoop, dbVars, mapVars, loopVars, reqVars, cliVars
  <2>3. LoginOwned'
    BY <1>20, ChatServiceAssumption DEF Idle, vars, LoginOwned, ActiveOnOwnLoop, dbVars, mapVars, loopVars, reqVars, cliVars
  <2> QED
    BY <2>1, <2>2, <2>3 DEF OwnedInv
<1> QED
  BY <1>1, <1>2, <1>3, <1>4, <1>5, <1>6, <1>7, <1>8, <1>9, <1>10, <1>11, <1>12, <1>13,
     <1>14, <1>15, <1>16, <1>17, <1>18, <1>19, <1>20 DEF Next, LoopThread, Handle

(* It holds at the start ...                                               *)
LEMMA RouteInit == Init => RouteInv
BY DEF Init, RouteInv, SessionOwned, EntryOwned, ActiveOnOwnLoop, LoginOwned, LogoutOwned,
       IdleHasNoId, LoginHasEntry, Busy, LoginSteps

(* ... and after every step, failed statements and restarts included.      *)
LEMMA RouteNext ==
  ASSUME AccountsApart, TypeOK, RouteInv, [Next]_vars
  PROVE  RouteInv'
<1> USE DEF LoopSteps, LoginSteps, Goto
<1>0. /\ MapType /\ LoopType /\ RequestType /\ ClientType
      /\ SessionOwned /\ EntryOwned /\ ActiveOnOwnLoop /\ LoginOwned /\ LogoutOwned /\ IdleHasNoId
      /\ LoginHasEntry
  BY DEF TypeOK, RouteInv
<1> USE <1>0 DEF MapType, LoopType, RequestType, ClientType
<1>o. SessionOwned' /\ ActiveOnOwnLoop' /\ LoginOwned'
  BY OwnedNext DEF OwnedInv
<1>1. ASSUME NEW t \in Threads, Poll(t) PROVE RouteInv'
  <2>2. EntryOwned'
    BY <1>1, ChatServiceAssumption DEF Poll, Ready, EntryOwned, LoginOwned, SessionOwned, dbVars, mapVars, loopVars, reqVars, cliVars
  <2>5. LogoutOwned'
    BY <1>1, ChatServiceAssumption DEF Poll, Ready, LogoutOwned, ActiveOnOwnLoop, SessionOwned, EntryOwned, dbVars, mapVars, loopVars, reqVars, cliVars
  <2>6. IdleHasNoId'
    BY <1>1, ChatServiceAssumption DEF Poll, Ready, IdleHasNoId, Busy, dbVars, mapVars, loopVars, reqVars, cliVars
  <2>7. LoginHasEntry'
    BY <1>1, ChatServiceAssumption DEF Poll, Ready, LoginHasEntry, EntryOwned, SessionOwned, LoginOwned, ActiveOnOwnLoop, AccountsApart, dbVars, mapVars, loopVars, reqVars, cliVars
  <2> QED
    BY <1>o, <2>2, <2>5, <2>6, <2>7 DEF RouteInv
<1>2. ASSUME NEW t \in Threads, SwapFunctors(t) PROVE RouteInv'
  <2>2. EntryOwned'
    BY <1>2, ChatServiceAssumption DEF SwapFunctors, EntryOwned, LoginOwned, SessionOwned, dbVars, mapVars, loopVars, reqVars, cliVars
  <2>5. LogoutOwned'
    BY <1>2, ChatServiceAssumption DEF SwapFunctors, LogoutOwned, ActiveOnOwnLoop, SessionOwned, EntryOwned, dbVars, mapVars, loopVars, reqVars, cliVars
  <2>6. IdleHasNoId'
    BY <1>2, ChatServiceAssumption DEF SwapFunctors, IdleHasNoId, Busy, dbVars, mapVars, loopVars, reqVars, cliVars
  <2>7. LoginHasEntry'
    BY <1>2, ChatServiceAssumption DEF SwapFunctors, LoginHasEntry, EntryOwned, SessionOwned, LoginOwned, ActiveOnOwnLoop, AccountsApart, dbVars, mapVars, loopVars, reqVars, cliVars
  <2> QED
    BY <1>o, <2>2, <2>5, <2>6, <2>7 DEF RouteInv
<1>3. ASSUME NEW t \in Threads, RunFunctor(t) PROVE RouteInv'
  <2>2. EntryOwned'
    BY <1>3, ChatServiceAssumption DEF RunFunctor, EntryOwned, LoginOwned, SessionOwned, dbVars, mapVars, loopVars, reqVars, cliVars
  <2>5. LogoutOwned'
    BY <1>3, ChatServiceAssumption DEF RunFunctor, LogoutOwned, ActiveOnOwnLoop, SessionOwned, EntryOwned, dbVars, mapVars, loopVars, reqVars, cliVars
  <2>6. IdleHasNoId'
    BY <1>3, ChatServiceAssumption DEF RunFunctor, IdleHasNoId, Busy, dbVars, mapVars, loopVars, reqVars, cliVars
  <2>7. LoginHasEntry'
    BY <1>3, ChatServiceAssumption DEF RunFunctor, LoginHasEntry, EntryOwned, SessionOwned, LoginOwned, ActiveOnOwnLoop, AccountsApart, dbVars, mapVars, loopVars, reqVars, cliVars
  <2> QED
    BY <1>o, <2>2, <2>5, <2>6, <2>7 DEF RouteInv
<1>4. ASSUME NEW t \in Threads, NEW c \in Conns, NEW u \in Users, LoginGranted(t, c, u) PROVE RouteInv'
  <2>2. EntryOwned'
    BY <1>4, ChatServiceAssumption DEF LoginGranted, Take, EntryOwned, LoginOwned, SessionOwned, dbVars, mapVars, loopVars, reqVars, cliVars
  <2>5. LogoutOwned'
    <3>1. \A x \in Threads : pc'[x] = "setoffline" => x # t /\ pc[x] = "setoffline" /\ id'[x] = id[x]
      BY <1>4 DEF LoginGranted
    <3> QED
      BY <3>1 DEF LogoutOwned
  <2>6. IdleHasNoId'
    BY <1>4, ChatServiceAssumption DEF LoginGranted, Take, IdleHasNoId, Busy, dbVars, mapVars, loopVars, reqVars, cliVars
  <2>7. LoginHasEntry'
    BY <1>4, ChatServiceAssumption DEF LoginGranted, Take, LoginHasEntry, EntryOwned, SessionOwned, LoginOwned, ActiveOnOwnLoop, AccountsApart, dbVars, mapVars, loopVars, reqVars, cliVars
  <2> QED
    BY <1>o, <2>2, <2>5, <2>6, <2>7 DEF RouteInv
<1>5. ASSUME NEW t \in Threads, NEW c \in Conns, NEW u \in Users, LoginRefused(t, c, u) PROVE RouteInv'
  <2>2. EntryOwned'
    BY <1>5, ChatServiceAssumption DEF LoginRefused, Take, EntryOwned, LoginOwned, SessionOwned, dbVars, mapVars, loopVars, reqVars, cliVars
  <2>5. LogoutOwned'
    BY <1>5, ChatServiceAssumption DEF LoginRefused, Take, LogoutOwned, ActiveOnOwnLoop, SessionOwned, EntryOwned, dbVars, mapVars, loopVars, reqVars, cliVars
  <2>6. IdleHasNoId'
    BY <1>5, ChatServiceAssumption DEF LoginRefused, Take, IdleHasNoId, Busy, dbVars, mapVars, loopVars, reqVars, cliVars
  <2>7. LoginHasEntry'
    BY <1>5, ChatServiceAssumption DEF LoginRefused, Take, LoginHasEntry, EntryOwned, SessionOwned, LoginOwned, ActiveOnOwnLoop, AccountsApart, dbVars, mapVars, loopVars, reqVars, cliVars
  <2> QED
    BY <1>o, <2>2, <2>5, <2>6, <2>7 DEF RouteInv
<1>6. ASSUME NEW t \in Threads, LoginInsert(t) PROVE RouteInv'
  <2>2. EntryOwned'
    BY <1>6, ChatServiceAssumption DEF LoginInsert, EntryOwned, LoginOwned, SessionOwned, dbVars, mapVars, loopVars, reqVars, cliVars
  <2>5. LogoutOwned'
    BY <1>6, ChatServiceAssumption DEF LoginInsert, LogoutOwned, ActiveOnOwnLoop, SessionOwned, EntryOwned, dbVars, mapVars, loopVars, reqVars, cliVars
  <2>6. IdleHasNoId'
    BY <1>6, ChatServiceAssumption DEF LoginInsert, IdleHasNoId, Busy, dbVars, mapVars, loopVars, reqVars, cliVars
  <2>7. LoginHasEntry'
    BY <1>6, ChatServiceAssumption DEF LoginInsert, LoginHasEntry, EntryOwned, SessionOwned, LoginOwned, ActiveOnOwnLoop, AccountsApart, dbVars, mapVars, loopVars, reqVars, cliVars
  <2> QED
    BY <1>o, <2>2, <2>5, <2>6, <2>7 DEF RouteInv
<1>7. ASSUME NEW t \in Threads, LoginSetOnline(t) PROVE RouteInv'
  <2>2. EntryOwned'
    BY <1>7, ChatServiceAssumption DEF LoginSetOnline, UpdateState, EntryOwned, LoginOwned, SessionOwned, dbVars, mapVars, loopVars, reqVars, cliVars
  <2>5. LogoutOwned'
    BY <1>7, ChatServiceAssumption DEF LoginSetOnline, UpdateState, LogoutOwned, ActiveOnOwnLoop, SessionOwned, EntryOwned, dbVars, mapVars, loopVars, reqVars, cliVars
  <2>6. IdleHasNoId'
    BY <1>7, ChatServiceAssumption DEF LoginSetOnline, UpdateState, IdleHasNoId, Busy, dbVars, mapVars, loopVars, reqVars, cliVars
  <2>7. LoginHasEntry'
    BY <1>7, ChatServiceAssumption DEF LoginSetOnline, UpdateState, LoginHasEntry, EntryOwned, SessionOwned, LoginOwned, ActiveOnOwnLoop, AccountsApart, dbVars, mapVars, loopVars, reqVars, cliVars
  <2> QED
    BY <1>o, <2>2, <2>5, <2>6, <2>7 DEF RouteInv
<1>8. ASSUME NEW t \in Threads, LoginFetch(t) PROVE RouteInv'
  <2>2. EntryOwned'
    BY <1>8, ChatServiceAssumption DEF LoginFetch, QueryOffline, EntryOwned, LoginOwned, SessionOwned, dbVars, mapVars, loopVars, reqVars, cliVars
  <2>5. LogoutOwned'
    BY <1>8, ChatServiceAssumption DEF LoginFetch, QueryOffline, LogoutOwned, ActiveOnOwnLoop, SessionOwned, EntryOwned, dbVars, mapVars, loopVars, reqVars, cliVars
  <2>6. IdleHasNoId'
    BY <1>8, ChatServiceAssumption DEF LoginFetch, QueryOffline, IdleHasNoId, Busy, dbVars, mapVars, loopVars, reqVars, cliVars
  <2>7. LoginHasEntry'
    BY <1>8, ChatServiceAssumption DEF LoginFetch, QueryOffline, LoginHasEntry, EntryOwned, SessionOwned, LoginOwned, ActiveOnOwnLoop, AccountsApart, dbVars, mapVars, loopVars, reqVars, cliVars
  <2> QED
    BY <1>o, <2>2, <2>5, <2>6, <2>7 DEF RouteInv
<1>9. ASSUME NEW t \in Threads, LoginRemove(t) PROVE RouteInv'
  <2>2. EntryOwned'
    BY <1>9, ChatServiceAssumption DEF LoginRemove, RemoveOffline, EntryOwned, LoginOwned, SessionOwned, dbVars, mapVars, loopVars, reqVars, cliVars
  <2>5. LogoutOwned'
    BY <1>9, ChatServiceAssumption DEF LoginRemove, RemoveOffline, LogoutOwned, ActiveOnOwnLoop, SessionOwned, EntryOwned, dbVars, mapVars, loopVars, reqVars, cliVars
  <2>6. IdleHasNoId'
    BY <1>9, ChatServiceAssumption DEF LoginRemove, RemoveOffline, IdleHasNoId, Busy, dbVars, mapVars, loopVars, reqVars, cliVars
  <2>7. LoginHasEntry'
    BY <1>9, ChatServiceAssumption DEF LoginRemove, RemoveOffline, LoginHasEntry, EntryOwned, SessionOwned, LoginOwned, ActiveOnOwnLoop, AccountsApart, dbVars, mapVars, loopVars, reqVars, cliVars
  <2> QED
    BY <1>o, <2>2, <2>5, <2>6, <2>7 DEF RouteInv
<1>10. ASSUME NEW t \in Threads, LoginReply(t) PROVE RouteInv'
  <2>2. EntryOwned'
    BY <1>10, ChatServiceAssumption DEF LoginReply, Return, EntryOwned, LoginOwned, SessionOwned, dbVars, mapVars, loopVars, reqVars, cliVars
  <2>5. LogoutOwned'
    BY <1>10, ChatServiceAssumption DEF LoginReply, Return, LogoutOwned, ActiveOnOwnLoop, SessionOwned, EntryOwned, dbVars, mapVars, loopVars, reqVars, cliVars
  <2>6. IdleHasNoId'
    BY <1>10, ChatServiceAssumption DEF LoginReply, Return, IdleHasNoId, Busy, dbVars, mapVars, loopVars, reqVars, cliVars
  <2>7. LoginHasEntry'
    BY <1>10, ChatServiceAssumption DEF LoginReply, Return, LoginHasEntry, EntryOwned, SessionOwned, LoginOwned, ActiveOnOwnLoop, AccountsApart, dbVars, mapVars, loopVars, reqVars, cliVars
  <2> QED
    BY <1>o, <2>2, <2>5, <2>6, <2>7 DEF RouteInv
<1>11. ASSUME NEW t \in Threads, NEW c \in Conns, NEW u \in Users, OneChat(t, c, u) PROVE RouteInv'
  <2>2. EntryOwned'
    BY <1>11, ChatServiceAssumption DEF OneChat, Accept, Take, EntryOwned, LoginOwned, SessionOwned, dbVars, mapVars, loopVars, reqVars, cliVars
  <2>5. LogoutOwned'
    BY <1>11, ChatServiceAssumption DEF OneChat, Accept, Take, LogoutOwned, ActiveOnOwnLoop, SessionOwned, EntryOwned, dbVars, mapVars, loopVars, reqVars, cliVars
  <2>6. IdleHasNoId'
    BY <1>11, ChatServiceAssumption DEF OneChat, Accept, Take, IdleHasNoId, Busy, dbVars, mapVars, loopVars, reqVars, cliVars
  <2>7. LoginHasEntry'
    BY <1>11, ChatServiceAssumption DEF OneChat, Accept, Take, LoginHasEntry, EntryOwned, SessionOwned, LoginOwned, ActiveOnOwnLoop, AccountsApart, dbVars, mapVars, loopVars, reqVars, cliVars
  <2> QED
    BY <1>o, <2>2, <2>5, <2>6, <2>7 DEF RouteInv
<1>12. ASSUME NEW t \in Threads, NEW c \in Conns, GroupChat(t, c) PROVE RouteInv'
  <2>2. EntryOwned'
    BY <1>12, ChatServiceAssumption DEF GroupChat, QueryGroupUsers, Accept, Take, EntryOwned, LoginOwned, SessionOwned, dbVars, mapVars, loopVars, reqVars, cliVars
  <2>5. LogoutOwned'
    BY <1>12, ChatServiceAssumption DEF GroupChat, QueryGroupUsers, Accept, Take, LogoutOwned, ActiveOnOwnLoop, SessionOwned, EntryOwned, dbVars, mapVars, loopVars, reqVars, cliVars
  <2>6. IdleHasNoId'
    BY <1>12, ChatServiceAssumption DEF GroupChat, QueryGroupUsers, Accept, Take, IdleHasNoId, Busy, dbVars, mapVars, loopVars, reqVars, cliVars
  <2>7. LoginHasEntry'
    BY <1>12, ChatServiceAssumption DEF GroupChat, QueryGroupUsers, Accept, Take, LoginHasEntry, EntryOwned, SessionOwned, LoginOwned, ActiveOnOwnLoop, AccountsApart, dbVars, mapVars, loopVars, reqVars, cliVars
  <2> QED
    BY <1>o, <2>2, <2>5, <2>6, <2>7 DEF RouteInv
<1>13. ASSUME NEW t \in Threads, Deliver(t) PROVE RouteInv'
  <2>2. EntryOwned'
    BY <1>13, ChatServiceAssumption DEF Deliver, InsertOffline, Send, EntryOwned, LoginOwned, SessionOwned, dbVars, mapVars, loopVars, reqVars, cliVars
  <2>5. LogoutOwned'
    BY <1>13, ChatServiceAssumption DEF Deliver, InsertOffline, Send, LogoutOwned, ActiveOnOwnLoop, SessionOwned, EntryOwned, dbVars, mapVars, loopVars, reqVars, cliVars
  <2>6. IdleHasNoId'
    BY <1>13, ChatServiceAssumption DEF Deliver, InsertOffline, Send, IdleHasNoId, Busy, dbVars, mapVars, loopVars, reqVars, cliVars
  <2>7. LoginHasEntry'
    BY <1>13, ChatServiceAssumption DEF Deliver, InsertOffline, Send, LoginHasEntry, EntryOwned, SessionOwned, LoginOwned, ActiveOnOwnLoop, AccountsApart, dbVars, mapVars, loopVars, reqVars, cliVars
  <2> QED
    BY <1>o, <2>2, <2>5, <2>6, <2>7 DEF RouteInv
<1>14. ASSUME NEW t \in Threads, NEW c \in Conns, Logout(t, c) PROVE RouteInv'
  <2>2. EntryOwned'
    BY <1>14, ChatServiceAssumption DEF Logout, EraseEntry, Take, EntryOwned, LoginOwned, SessionOwned, dbVars, mapVars, loopVars, reqVars, cliVars
  <2>5. LogoutOwned'
    <3>1. LoopOf[c] = t /\ id'[t] = session[c] /\ session[c] \in Accounts[c]
      BY <1>14 DEF Logout, Take, ActiveOnOwnLoop, SessionOwned
    <3>2. \A x \in Threads \ {t} : pc'[x] = "setoffline" => pc[x] = "setoffline" /\ id'[x] = id[x]
      BY <1>14 DEF Logout
    <3>3. LogoutOwned => \A x \in Threads \ {t} : pc'[x] = "setoffline" =>
            \E d \in Conns : LoopOf[d] = x /\ id'[x] \in Accounts[d]
      BY <3>2 DEF LogoutOwned
    <3> QED
      BY <3>1, <3>3, Zenon DEF LogoutOwned
  <2>6. IdleHasNoId'
    BY <1>14, ChatServiceAssumption DEF Logout, EraseEntry, Take, IdleHasNoId, Busy, dbVars, mapVars, loopVars, reqVars, cliVars
  <2>7. LoginHasEntry'
    <3>1. LoopOf[c] = t /\ pc[t] = "dispatch"
      BY <1>14 DEF Logout, Take, ActiveOnOwnLoop
    <3>2. ASSUME NEW x \in Threads, pc'[x] \in {"setonline", "fetch", "remove", "reply"}
          PROVE  userConnMap'[id'[x]] = cur'[x]
      <4>1. /\ x # t /\ pc[x] \in {"setonline", "fetch", "remove", "reply"}
            /\ id'[x] = id[x] /\ cur'[x] = cur[x]
        BY <1>14, <3>1, <3>2 DEF Logout
      <4>2. userConnMap[id[x]] = cur[x] /\ LoopOf[cur[x]] = x /\ id[x] \in Users /\ cur[x] \in Conns
        BY <4>1 DEF LoginHasEntry, LoginOwned
      <4>3. id[x] \in Accounts[cur[x]]
        BY <4>2, ChatServiceAssumption DEF EntryOwned
      <4> QED
        <5>1. session[c] \in Accounts[c]
          BY <1>14 DEF Logout, SessionOwned
        <5>2. session[c] # id[x]
          BY <3>1, <4>1, <4>2, <4>3, <5>1 DEF AccountsApart
        <5>3. userConnMap'[id[x]] = userConnMap[id[x]]
          BY <1>14, <4>2, <5>2 DEF Logout, EraseEntry
        <5> QED
          BY <4>1, <4>2, <5>3
    <3> QED
      BY <3>2 DEF LoginHasEntry
  <2> QED
    BY <1>o, <2>2, <2>5, <2>6, <2>7 DEF RouteInv
<1>15. ASSUME NEW t \in Threads, NEW c \in Conns, CloseException(t, c) PROVE RouteInv'
  <2>2. EntryOwned'
    BY <1>15, ChatServiceAssumption DEF CloseException, EraseEntry, Take, EntryOwned, LoginOwned, SessionOwned, dbVars, mapVars, loopVars, reqVars, cliVars
  <2>5. LogoutOwned'
    <3>1. LoopOf[c] = t
      BY <1>15 DEF CloseException, Take, ActiveOnOwnLoop
    <3>2. \A x \in Threads \ {t} : pc'[x] = "setoffline" => pc[x] = "setoffline" /\ id'[x] = id[x]
      BY <1>15 DEF CloseException
    <3>3. ASSUME pc'[t] = "setoffline" PROVE id'[t] \in Accounts[c]
      <4>1. PICK u \in Users : userConnMap[u] = c /\ id' = [id EXCEPT ![t] = u]
        BY <1>15, <3>3 DEF CloseException, Take
      <4> QED
        BY <4>1, ChatServiceAssumption DEF EntryOwned
    <3> QED
      BY <3>1, <3>2, <3>3 DEF LogoutOwned
  <2>6. IdleHasNoId'
    <3>1. \A x \in Threads \ {t} : pc'[x] = pc[x] /\ id'[x] = id[x]
      BY <1>15 DEF CloseException
    <3>2. pc'[t] = "setoffline" \/ (pc'[t] = pc[t] /\ id'[t] = id[t])
      BY <1>15 DEF CloseException, Take
    <3> QED
      BY <3>1, <3>2 DEF IdleHasNoId, Busy
  <2>7. LoginHasEntry'
    <3>1. LoopOf[c] = t /\ pc[t] = "dispatch"
      BY <1>15 DEF CloseException, Take, ActiveOnOwnLoop
    <3>2. ASSUME NEW x \in Threads, pc'[x] \in {"setonline", "fetch", "remove", "reply"}
          PROVE  userConnMap'[id'[x]] = cur'[x]
      <4>1. /\ x # t /\ pc[x] \in {"setonline", "fetch", "remove", "reply"}
            /\ id'[x] = id[x] /\ cur'[x] = cur[x]
        BY <1>15, <3>1, <3>2 DEF CloseException
      <4>2. userConnMap[id[x]] = cur[x] /\ LoopOf[cur[x]] = x /\ id[x] \in Users /\ cur[x] \in Conns
        BY <4>1 DEF LoginHasEntry, LoginOwned
      <4>3. id[x] \in Accounts[cur[x]]
        BY <4>2, ChatServiceAssumption DEF EntryOwned
      <4> QED
        <5>1. userConnMap[id[x]] # c
          BY <3>1, <4>1, <4>2
        <5>2. userConnMap'[id[x]] = userConnMap[id[x]]
          BY <1>15, <4>2, <5>1 DEF CloseException, EraseEntry
        <5> QED
          BY <4>1, <4>2, <5>2
    <3> QED
      BY <3>2 DEF LoginHasEntry
  <2> QED
    BY <1>o, <2>2, <2>5, <2>6, <2>7 DEF RouteInv
<1>16. ASSUME NEW t \in Threads, SetOffline(t) PROVE RouteInv'
  <2>2. EntryOwned'
    BY <1>16, ChatServiceAssumption DEF SetOffline, UpdateState, Return, EntryOwned, LoginOwned, SessionOwned, dbVars, mapVars, loopVars, reqVars, cliVars
  <2>5. LogoutOwned'
    BY <1>16, ChatServiceAssumption DEF SetOffline, UpdateState, Return, LogoutOwned, ActiveOnOwnLoop, SessionOwned, EntryOwned, dbVars, mapVars, loopVars, reqVars, cliVars
  <2>6. IdleHasNoId'
    BY <1>16, ChatServiceAssumption DEF SetOffline, UpdateState, Return, IdleHasNoId, Busy, dbVars, mapVars, loopVars, reqVars, cliVars
  <2>7. LoginHasEntry'
    BY <1>16, ChatServiceAssumption DEF SetOffline, UpdateState, Return, LoginHasEntry, EntryOwned, SessionOwned, LoginOwned, ActiveOnOwnLoop, AccountsApart, dbVars, mapVars, loopVars, reqVars, cliVars
  <2> QED
    BY <1>o, <2>2, <2>5, <2>6, <2>7 DEF RouteInv
<1>17. ASSUME NEW c \in Conns, Connect(c) \/ Quit(c) PROVE RouteInv'
  <2>2. EntryOwned'
    BY <1>17, ChatServiceAssumption DEF Connect, Quit, EntryOwned, LoginOwned, SessionOwned, dbVars, mapVars, loopVars, reqVars, cliVars
  <2>5. LogoutOwned'
    BY <1>17, ChatServiceAssumption DEF Connect, Quit, LogoutOwned, ActiveOnOwnLoop, SessionOwned, EntryOwned, dbVars, mapVars, loopVars, reqVars, cliVars
  <2>6. IdleHasNoId'
    BY <1>17, ChatServiceAssumption DEF Connect, Quit, IdleHasNoId, Busy, dbVars, mapVars, loopVars, reqVars, cliVars
  <2>7. LoginHasEntry'
    BY <1>17, ChatServiceAssumption DEF Connect, Quit, LoginHasEntry, EntryOwned, SessionOwned, LoginOwned, ActiveOnOwnLoop, AccountsApart, dbVars, mapVars, loopVars, reqVars, cliVars
  <2> QED
    BY <1>o, <2>2, <2>5, <2>6, <2>7 DEF RouteInv
<1>18. CASE Sigint \/ ResetState \/ Restart
  <2>2. EntryOwned'
    BY <1>18, ChatServiceAssumption DEF Sigint, ResetState, Restart, EntryOwned, LoginOwned, SessionOwned, dbVars, mapVars, loopVars, reqVars, cliVars
  <2>5. LogoutOwned'
    BY <1>18, ChatServiceAssumption DEF Sigint, ResetState, Restart, LogoutOwned, ActiveOnOwnLoop, SessionOwned, EntryOwned, dbVars, mapVars, loopVars, reqVars, cliVars
  <2>6. IdleHasNoId'
    BY <1>18, ChatServiceAssumption DEF Sigint, ResetState, Restart, IdleHasNoId, Busy, dbVars, mapVars, loopVars, reqVars, cliVars
  <2>7. LoginHasEntry'
    BY <1>18, ChatServiceAssumption DEF Sigint, ResetState, Restart, LoginHasEntry, EntryOwned, SessionOwned, LoginOwned, ActiveOnOwnLoop, AccountsApart, dbVars, mapVars, loopVars, reqVars, cliVars
  <2> QED
    BY <1>o, <2>2, <2>5, <2>6, <2>7 DEF RouteInv
<1>19. CASE Exit \/ Kill
  <2>2. EntryOwned'
    BY <1>19, ChatServiceAssumption DEF Exit, Kill, ProcessEnds, EntryOwned, LoginOwned, SessionOwned, dbVars, mapVars, loopVars, reqVars, cliVars
  <2>5. LogoutOwned'
    BY <1>19, ChatServiceAssumption DEF Exit, Kill, ProcessEnds, LogoutOwned, ActiveOnOwnLoop, SessionOwned, EntryOwned, dbVars, mapVars, loopVars, reqVars, cliVars
  <2>6. IdleHasNoId'
    BY <1>19, ChatServiceAssumption DEF Exit, Kill, ProcessEnds, IdleHasNoId, Busy, dbVars, mapVars, loopVars, reqVars, cliVars
  <2>7. LoginHasEntry'
    BY <1>19, ChatServiceAssumption DEF Exit, Kill, ProcessEnds, LoginHasEntry, EntryOwned, SessionOwned, LoginOwned, ActiveOnOwnLoop, AccountsApart, dbVars, mapVars, loopVars, reqVars, cliVars
  <2> QED
    BY <1>o, <2>2, <2>5, <2>6, <2>7 DEF RouteInv
<1>20. CASE Idle \/ UNCHANGED vars
  <2>2. EntryOwned'
    BY <1>20, ChatServiceAssumption DEF Idle, vars, EntryOwned, LoginOwned, SessionOwned, dbVars, mapVars, loopVars, reqVars, cliVars
  <2>5. LogoutOwned'
    BY <1>20, ChatServiceAssumption DEF Idle, vars, LogoutOwned, ActiveOnOwnLoop, SessionOwned, EntryOwned, dbVars, mapVars, loopVars, reqVars, cliVars
  <2>6. IdleHasNoId'
    BY <1>20, ChatServiceAssumption DEF Idle, vars, IdleHasNoId, Busy, dbVars, mapVars, loopVars, reqVars, cliVars
  <2>7. LoginHasEntry'
    BY <1>20, ChatServiceAssumption DEF Idle, vars, LoginHasEntry, EntryOwned, SessionOwned, LoginOwned, ActiveOnOwnLoop, AccountsApart, dbVars, mapVars, loopVars, reqVars, cliVars
  <2> QED
    BY <1>o, <2>2, <2>5, <2>6, <2>7 DEF RouteInv
<1> QED
  BY <1>1, <1>2, <1>3, <1>4, <1>5, <1>6, <1>7, <1>8, <1>9, <1>10, <1>11, <1>12, <1>13,
     <1>14, <1>15, <1>16, <1>17, <1>18, <1>19, <1>20 DEF Next, LoopThread, Handle

-----------------------------------------------------------------------------
(* A handler that is done leaves no copy behind in its loop's variables,   *)
(* and what a login has read is what it is about to remove: no row is      *)
(* stored for its user once its entry is in the map.  Only a fetch that    *)
(* broke reads less, and cut has the rest.                                 *)
EmptyHands ==
  \A t \in Threads :
    /\ pc[t] # "deliver" => outbox[t] = {}
    /\ pc[t] # "functors" => batch[t] = <<>>
    /\ pc[t] \notin {"remove", "reply"} => mail[t] = <<>>

ReadIsStored ==
  \A t \in Threads : pc[t] = "remove" =>
    \/ mail[t] = dbOffline[id[t]]
    \/ faults > 0 /\ Range(dbOffline[id[t]]) \subseteq Range(mail[t]) \cup cut

CleanInv ==
  /\ EmptyHands
  /\ ReadIsStored

(* The first part needs nothing of the accounts.                           *)
LEMMA HandsNext ==
  ASSUME TypeOK, EmptyHands, [Next]_vars
  PROVE  EmptyHands'
<1> USE DEF LoopSteps, LoginSteps, Goto
<1>0. DbType /\ LoopType /\ RequestType /\ MailType
  BY DEF TypeOK
<1> USE <1>0 DEF DbType, LoopType, RequestType, MailType
<1>1. ASSUME NEW t \in Threads, Poll(t) PROVE EmptyHands'
  BY <1>1, ChatServiceAssumption DEF Poll, Ready, EmptyHands, dbVars, mapVars, loopVars, reqVars, cliVars
<1>2. ASSUME NEW t \in Threads, SwapFunctors(t) PROVE EmptyHands'
  BY <1>2, ChatServiceAssumption DEF SwapFunctors, EmptyHands, dbVars, mapVars, loopVars, reqVars, cliVars
<1>3. ASSUME NEW t \in Threads, RunFunctor(t) PROVE EmptyHands'
  BY <1>3, ChatServiceAssumption DEF RunFunctor, EmptyHands, dbVars, mapVars, loopVars, reqVars, cliVars
<1>4. ASSUME NEW t \in Threads, NEW c \in Conns, NEW u \in Users, LoginGranted(t, c, u) PROVE EmptyHands'
  BY <1>4, ChatServiceAssumption DEF LoginGranted, Take, EmptyHands, dbVars, mapVars, loopVars, reqVars, cliVars
<1>5. ASSUME NEW t \in Threads, NEW c \in Conns, NEW u \in Users, LoginRefused(t, c, u) PROVE EmptyHands'
  BY <1>5, ChatServiceAssumption DEF LoginRefused, Take, EmptyHands, dbVars, mapVars, loopVars, reqVars, cliVars
<1>6. ASSUME NEW t \in Threads, LoginInsert(t) PROVE EmptyHands'
  BY <1>6, ChatServiceAssumption DEF LoginInsert, EmptyHands, dbVars, mapVars, loopVars, reqVars, cliVars
<1>7. ASSUME NEW t \in Threads, LoginSetOnline(t) PROVE EmptyHands'
  BY <1>7, ChatServiceAssumption DEF LoginSetOnline, UpdateState, EmptyHands, dbVars, mapVars, loopVars, reqVars, cliVars
<1>8. ASSUME NEW t \in Threads, LoginFetch(t) PROVE EmptyHands'
  BY <1>8, ChatServiceAssumption DEF LoginFetch, QueryOffline, EmptyHands, dbVars, mapVars, loopVars, reqVars, cliVars
<1>9. ASSUME NEW t \in Threads, LoginRemove(t) PROVE EmptyHands'
  BY <1>9, ChatServiceAssumption DEF LoginRemove, RemoveOffline, EmptyHands, dbVars, mapVars, loopVars, reqVars, cliVars
<1>10. ASSUME NEW t \in Threads, LoginReply(t) PROVE EmptyHands'
  BY <1>10, ChatServiceAssumption DEF LoginReply, Return, EmptyHands, dbVars, mapVars, loopVars, reqVars, cliVars
<1>11. ASSUME NEW t \in Threads, NEW c \in Conns, NEW u \in Users, OneChat(t, c, u) PROVE EmptyHands'
  BY <1>11, ChatServiceAssumption DEF OneChat, Accept, Take, EmptyHands, dbVars, mapVars, loopVars, reqVars, cliVars
<1>12. ASSUME NEW t \in Threads, NEW c \in Conns, GroupChat(t, c) PROVE EmptyHands'
  BY <1>12, ChatServiceAssumption DEF GroupChat, QueryGroupUsers, Accept, Take, EmptyHands, dbVars, mapVars, loopVars, reqVars, cliVars
<1>13. ASSUME NEW t \in Threads, Deliver(t) PROVE EmptyHands'
  <2>1. /\ pc[t] = "deliver" /\ UNCHANGED <<batch, mail>>
        /\ \A x \in Threads : x # t => pc'[x] = pc[x] /\ outbox'[x] = outbox[x]
        /\ pc'[t] = "deliver" \/ (pc'[t] = "dispatch" /\ outbox'[t] = {})
    BY <1>13 DEF Deliver
  <2> QED
    BY <2>1 DEF EmptyHands
<1>14. ASSUME NEW t \in Threads, NEW c \in Conns, Logout(t, c) PROVE EmptyHands'
  BY <1>14, ChatServiceAssumption DEF Logout, EraseEntry, Take, EmptyHands, dbVars, mapVars, loopVars, reqVars, cliVars
<1>15. ASSUME NEW t \in Threads, NEW c \in Conns, CloseException(t, c) PROVE EmptyHands'
  BY <1>15, ChatServiceAssumption DEF CloseException, EraseEntry, Take, EmptyHands, dbVars, mapVars, loopVars, reqVars, cliVars
<1>16. ASSUME NEW t \in Threads, SetOffline(t) PROVE EmptyHands'
  BY <1>16, ChatServiceAssumption DEF SetOffline, UpdateState, Return, EmptyHands, dbVars, mapVars, loopVars, reqVars, cliVars
<1>17. ASSUME NEW c \in Conns, Connect(c) \/ Quit(c) PROVE EmptyHands'
  BY <1>17, ChatServiceAssumption DEF Connect, Quit, EmptyHands, dbVars, mapVars, loopVars, reqVars, cliVars
<1>18. CASE Sigint \/ ResetState \/ Restart
  BY <1>18, ChatServiceAssumption DEF Sigint, ResetState, Restart, EmptyHands, dbVars, mapVars, loopVars, reqVars, cliVars
<1>19. CASE Exit \/ Kill
  BY <1>19, ChatServiceAssumption DEF Exit, Kill, ProcessEnds, EmptyHands, dbVars, mapVars, loopVars, reqVars, cliVars
<1>20. CASE Idle \/ UNCHANGED vars
  BY <1>20, ChatServiceAssumption DEF Idle, vars, EmptyHands, dbVars, mapVars, loopVars, reqVars, cliVars
<1> QED
  BY <1>1, <1>2, <1>3, <1>4, <1>5, <1>6, <1>7, <1>8, <1>9, <1>10, <1>11, <1>12, <1>13,
     <1>14, <1>15, <1>16, <1>17, <1>18, <1>19, <1>20 DEF Next, LoopThread, Handle

(* It holds at the start ...                                               *)
LEMMA CleanInit == Init => CleanInv
BY DEF Init, CleanInv, EmptyHands, ReadIsStored

(* Two logins that run for one account are the same one.                   *)
LEMMA OneLogin ==
  ASSUME AccountsApart, TypeOK, RouteInv, NEW t \in Threads, NEW x \in Threads,
         pc[t] \in LoginSteps, pc[x] \in LoginSteps, id[t] = id[x]
  PROVE  t = x
<1>1. /\ LoopOf[cur[t]] = t /\ id[t] = session[cur[t]] /\ cur[t] \in Conns /\ id[t] \in Users
      /\ LoopOf[cur[x]] = x /\ id[x] = session[cur[x]] /\ cur[x] \in Conns
  BY DEF TypeOK, RequestType, RouteInv, LoginOwned
<1>2. id[t] \in Accounts[cur[t]] /\ id[t] \in Accounts[cur[x]]
  BY <1>1, ChatServiceAssumption DEF RouteInv, SessionOwned
<1>3. cur[t] = cur[x]
  BY <1>1, <1>2 DEF AccountsApart
<1> QED
  BY <1>1, <1>3

(* Failures are not taken back, nor is what a broken fetch left out.       *)
LEMMA FailuresStay ==
  ASSUME DbType, [Next]_vars
  PROVE  (faults > 0 => faults' > 0) /\ cut \subseteq cut'
<1>1. Works \/ Fails => (faults > 0 => faults' > 0)
  BY ChatServiceAssumption DEF Works, Fails, DbType
<1>2. ASSUME NEW t \in Threads,
             \/ Poll(t) \/ LoginInsert(t) \/ SwapFunctors(t) \/ RunFunctor(t) \/ LoginReply(t)
      PROVE  UNCHANGED <<faults, cut>>
  BY <1>2 DEF Poll, LoginInsert, SwapFunctors, RunFunctor, LoginReply, dbVars, histVars
<1>3. ASSUME NEW t \in Threads, LoginSetOnline(t) \/ LoginRemove(t) \/ SetOffline(t)
      PROVE  (Works \/ Fails) /\ UNCHANGED cut
  BY <1>3 DEF LoginSetOnline, UpdateState, LoginRemove, RemoveOffline, SetOffline, histVars
<1>4. ASSUME NEW t \in Threads, LoginFetch(t)
      PROVE  (Works \/ Fails) /\ cut \subseteq cut'
  BY <1>4 DEF LoginFetch, QueryOffline
<1>5. ASSUME NEW t \in Threads, Deliver(t)
      PROVE  (Works \/ Fails) /\ UNCHANGED cut
  BY <1>5 DEF Deliver, InsertOffline
<1>6. ASSUME NEW t \in Threads, NEW c \in Conns, NEW u \in Users,
             LoginRefused(t, c, u) \/ OneChat(t, c, u)
      PROVE  (Works \/ Fails) /\ UNCHANGED cut
  BY <1>6 DEF LoginRefused, OneChat, Accept, histVars
<1>7. ASSUME NEW t \in Threads, NEW c \in Conns,
             (\E u \in Users : LoginGranted(t, c, u)) \/ Logout(t, c) \/ CloseException(t, c)
      PROVE  UNCHANGED <<faults, cut>>
  BY <1>7 DEF LoginGranted, Logout, CloseException, dbVars, histVars
<1>8. ASSUME NEW t \in Threads, NEW c \in Conns, GroupChat(t, c)
      PROVE  (Works \/ Fails) /\ UNCHANGED cut
  BY <1>8 DEF GroupChat, QueryGroupUsers, Accept, histVars
<1>9. CASE (\E c \in Conns : Connect(c) \/ Quit(c)) \/ Sigint \/ Exit \/ Kill \/ Restart \/ Idle
           \/ UNCHANGED vars
  BY <1>9 DEF Connect, Quit, Sigint, Exit, Kill, ProcessEnds, Restart, Idle, vars, dbVars, histVars
<1>10. CASE ResetState
  BY <1>1, <1>10 DEF ResetState, histVars
<1> QED
  BY <1>1, <1>2, <1>3, <1>4, <1>5, <1>6, <1>7, <1>8, <1>9, <1>10 DEF Next, LoopThread, Handle

(* ... and after every step, failed statements and restarts included.      *)
LEMMA CleanNext ==
  ASSUME AccountsApart, TypeOK, RouteInv, CleanInv, [Next]_vars
  PROVE  CleanInv'
<1> USE DEF LoopSteps, LoginSteps, Goto
<1>0. /\ DbType /\ LoopType /\ RequestType /\ MailType /\ EmptyHands /\ ReadIsStored
  BY DEF TypeOK, CleanInv
<1>c. (faults > 0 => faults' > 0) /\ cut \subseteq cut'
  BY <1>0, FailuresStay
<1> USE <1>0 DEF DbType, LoopType, RequestType, MailType
<1>h. EmptyHands'
  BY HandsNext
<1>1. ASSUME NEW t \in Threads, Poll(t) PROVE CleanInv'
  <2>2. ReadIsStored'
    BY <1>1, <1>c, ChatServiceAssumption DEF Poll, Ready, EmptyHands, ReadIsStored, dbVars, mapVars, loopVars, reqVars, cliVars
  <2> QED
    BY <1>h, <2>2 DEF CleanInv
<1>2. ASSUME NEW t \in Threads, SwapFunctors(t) PROVE CleanInv'
  <2>2. ReadIsStored'
    BY <1>2, <1>c, ChatServiceAssumption DEF SwapFunctors, EmptyHands, ReadIsStored, dbVars, mapVars, loopVars, reqVars, cliVars
  <2> QED
    BY <1>h, <2>2 DEF CleanInv
<1>3. ASSUME NEW t \in Threads, RunFunctor(t) PROVE CleanInv'
  <2>2. ReadIsStored'
    BY <1>3, <1>c, ChatServiceAssumption DEF RunFunctor, EmptyHands, ReadIsStored, dbVars, mapVars, loopVars, reqVars, cliVars
  <2> QED
    BY <1>h, <2>2 DEF CleanInv
<1>4. ASSUME NEW t \in Threads, NEW c \in Conns, NEW u \in Users, LoginGranted(t, c, u) PROVE CleanInv'
  <2>2. ReadIsStored'
    BY <1>4, <1>c, ChatServiceAssumption DEF LoginGranted, Take, EmptyHands, ReadIsStored, dbVars, mapVars, loopVars, reqVars, cliVars
  <2> QED
    BY <1>h, <2>2 DEF CleanInv
<1>5. ASSUME NEW t \in Threads, NEW c \in Conns, NEW u \in Users, LoginRefused(t, c, u) PROVE CleanInv'
  <2>2. ReadIsStored'
    BY <1>5, <1>c, ChatServiceAssumption DEF LoginRefused, Take, EmptyHands, ReadIsStored, dbVars, mapVars, loopVars, reqVars, cliVars
  <2> QED
    BY <1>h, <2>2 DEF CleanInv
<1>6. ASSUME NEW t \in Threads, LoginInsert(t) PROVE CleanInv'
  <2>2. ReadIsStored'
    BY <1>6, <1>c, ChatServiceAssumption DEF LoginInsert, EmptyHands, ReadIsStored, dbVars, mapVars, loopVars, reqVars, cliVars
  <2> QED
    BY <1>h, <2>2 DEF CleanInv
<1>7. ASSUME NEW t \in Threads, LoginSetOnline(t) PROVE CleanInv'
  <2>2. ReadIsStored'
    BY <1>7, <1>c, ChatServiceAssumption DEF LoginSetOnline, UpdateState, EmptyHands, ReadIsStored, dbVars, mapVars, loopVars, reqVars, cliVars
  <2> QED
    BY <1>h, <2>2 DEF CleanInv
<1>8. ASSUME NEW t \in Threads, LoginFetch(t) PROVE CleanInv'
  <2>1. /\ id[t] \in Users /\ UNCHANGED <<dbOffline, id>> /\ pc[t] = "fetch"
        /\ \A x \in Threads \ {t} : pc'[x] = pc[x] /\ mail'[x] = mail[x]
    BY <1>8 DEF LoginFetch, QueryOffline
  <2> DEFINE rows == dbOffline[id[t]]
  <2>a. rows \in Seq(Copy) /\ faults \in Nat
    BY <2>1, ChatServiceAssumption
  <2>b. pc'[t] = "remove" => mail'[t] # <<>>
    BY <1>8 DEF LoginFetch
  <2>c. \/ mail'[t] = rows
        \/ pc'[t] = "remove" => faults' > 0 /\ Range(rows) \subseteq Range(mail'[t]) \cup cut'
    <3>1. CASE Works /\ mail' = [mail EXCEPT ![t] = rows]
      BY <3>1
    <3>2. ASSUME Fails, NEW k \in 0..Len(rows), mail' = [mail EXCEPT ![t] = SubSeq(rows, 1, k)],
                 cut' = IF k = 0 THEN cut ELSE cut \cup {rows[i] : i \in k+1..Len(rows)}
          PROVE  pc'[t] = "remove" => faults' > 0 /\ Range(rows) \subseteq Range(mail'[t]) \cup cut'
      <4>1. mail'[t] = SubSeq(rows, 1, k)
        BY <3>2
      <4>2. k = 0 => mail'[t] = <<>>
        BY <4>1, SubSeqEmpty
      <4>3. faults' > 0
        BY <2>a, <3>2 DEF Fails
      <4>4. ASSUME k # 0, NEW y \in Range(rows) PROVE y \in Range(mail'[t]) \cup cut'
        <5>1. PICK i \in 1..Len(rows) : y = rows[i]
          BY <2>a, <4>4 DEF Range
        <5>2. CASE i <= k
          <6>1. i \in DOMAIN SubSeq(rows, 1, k) /\ SubSeq(rows, 1, k)[i] = rows[i]
            BY <2>a, <3>2, <5>1, <5>2
          <6> QED
            BY <4>1, <5>1, <6>1 DEF Range
        <5>3. CASE i > k
          <6>1. i \in k+1..Len(rows)
            BY <2>a, <3>2, <5>1, <5>3
          <6> QED
            BY <3>2, <4>4, <5>1, <6>1
        <5> QED
          BY <2>a, <5>1, <5>2, <5>3
      <4> QED
        BY <2>b, <4>2, <4>3, <4>4
    <3> QED
      BY <1>8, <3>1, <3>2 DEF LoginFetch, QueryOffline
  <2>2. ReadIsStored'
    <3>1. ASSUME NEW x \in Threads, pc'[x] = "remove"
          PROVE  \/ mail'[x] = dbOffline'[id'[x]]
                 \/ faults' > 0 /\ Range(dbOffline'[id'[x]]) \subseteq Range(mail'[x]) \cup cut'
      <4>1. CASE x = t
        BY <2>1, <2>c, <3>1, <4>1
      <4>2. CASE x # t
        <5>1. pc[x] = "remove" /\ mail'[x] = mail[x] /\ dbOffline' = dbOffline /\ id' = id
          BY <2>1, <3>1, <4>2
        <5> QED
          BY <1>0, <1>c, <5>1 DEF ReadIsStored
      <4> QED
        BY <4>1, <4>2
    <3> QED
      BY <3>1 DEF ReadIsStored
  <2> QED
    BY <1>h, <2>2 DEF CleanInv
<1>9. ASSUME NEW t \in Threads, LoginRemove(t) PROVE CleanInv'
  <2>2. ReadIsStored'
    <3>1. /\ pc[t] = "remove" /\ UNCHANGED <<mail, id>> /\ pc' = [pc EXCEPT ![t] = "reply"]
          /\ \A u \in Users : u # id[t] => dbOffline'[u] = dbOffline[u]
      BY <1>9 DEF LoginRemove, RemoveOffline, reqVars
    <3>2. ASSUME NEW x \in Threads, pc'[x] = "remove"
          PROVE  pc[x] = "remove" /\ mail'[x] = mail[x] /\ dbOffline'[id'[x]] = dbOffline[id[x]]
      <4>1. x # t /\ pc[x] = "remove" /\ id[x] \in Users
        BY <3>1, <3>2
      <4>2. id[x] # id[t]
        BY <3>1, <4>1, OneLogin
      <4> QED
        BY <3>1, <4>1, <4>2
    <3> QED
      BY <1>c, <3>2 DEF ReadIsStored
  <2> QED
    BY <1>h, <2>2 DEF CleanInv
<1>10. ASSUME NEW t \in Threads, LoginReply(t) PROVE CleanInv'
  <2>2. ReadIsStored'
    BY <1>10, <1>c, ChatServiceAssumption DEF LoginReply, Return, EmptyHands, ReadIsStored, dbVars, mapVars, loopVars, reqVars, cliVars
  <2> QED
    BY <1>h, <2>2 DEF CleanInv
<1>11. ASSUME NEW t \in Threads, NEW c \in Conns, NEW u \in Users, OneChat(t, c, u) PROVE CleanInv'
  <2>2. ReadIsStored'
    BY <1>11, <1>c, ChatServiceAssumption DEF OneChat, Accept, Take, EmptyHands, ReadIsStored, dbVars, mapVars, loopVars, reqVars, cliVars
  <2> QED
    BY <1>h, <2>2 DEF CleanInv
<1>12. ASSUME NEW t \in Threads, NEW c \in Conns, GroupChat(t, c) PROVE CleanInv'
  <2>2. ReadIsStored'
    BY <1>12, <1>c, ChatServiceAssumption DEF GroupChat, QueryGroupUsers, Accept, Take, EmptyHands, ReadIsStored, dbVars, mapVars, loopVars, reqVars, cliVars
  <2> QED
    BY <1>h, <2>2 DEF CleanInv
<1>13. ASSUME NEW t \in Threads, Deliver(t) PROVE CleanInv'
  <2>2. ReadIsStored'
    <3>1. /\ pc[t] = "deliver" /\ UNCHANGED <<mail, id>> /\ pc'[t] \in {"deliver", "dispatch"}
          /\ \A x \in Threads \ {t} : pc'[x] = pc[x]
      BY <1>13 DEF Deliver
    <3>2. \A u \in Users : userConnMap[u] # NoConn => dbOffline'[u] = dbOffline[u]
      BY <1>13 DEF Deliver, InsertOffline
    <3>3. ASSUME NEW x \in Threads, pc'[x] = "remove"
          PROVE  pc[x] = "remove" /\ mail'[x] = mail[x] /\ dbOffline'[id'[x]] = dbOffline[id[x]]
      <4>1. pc[x] = "remove" /\ id[x] \in Users /\ cur[x] \in Conns
        BY <3>1, <3>3
      <4>2. userConnMap[id[x]] # NoConn
        BY <4>1, ChatServiceAssumption DEF RouteInv, LoginHasEntry
      <4> QED
        BY <3>1, <3>2, <4>1, <4>2
    <3> QED
      BY <1>c, <3>3 DEF ReadIsStored
  <2> QED
    BY <1>h, <2>2 DEF CleanInv
<1>14. ASSUME NEW t \in Threads, NEW c \in Conns, Logout(t, c) PROVE CleanInv'
  <2>2. ReadIsStored'
    BY <1>14, <1>c, ChatServiceAssumption DEF Logout, EraseEntry, Take, EmptyHands, ReadIsStored, dbVars, mapVars, loopVars, reqVars, cliVars
  <2> QED
    BY <1>h, <2>2 DEF CleanInv
<1>15. ASSUME NEW t \in Threads, NEW c \in Conns, CloseException(t, c) PROVE CleanInv'
  <2>2. ReadIsStored'
    BY <1>15, <1>c, ChatServiceAssumption DEF CloseException, EraseEntry, Take, EmptyHands, ReadIsStored, dbVars, mapVars, loopVars, reqVars, cliVars
  <2> QED
    BY <1>h, <2>2 DEF CleanInv
<1>16. ASSUME NEW t \in Threads, SetOffline(t) PROVE CleanInv'
  <2>2. ReadIsStored'
    BY <1>16, <1>c, ChatServiceAssumption DEF SetOffline, UpdateState, Return, EmptyHands, ReadIsStored, dbVars, mapVars, loopVars, reqVars, cliVars
  <2> QED
    BY <1>h, <2>2 DEF CleanInv
<1>17. ASSUME NEW c \in Conns, Connect(c) \/ Quit(c) PROVE CleanInv'
  <2>2. ReadIsStored'
    BY <1>17, <1>c, ChatServiceAssumption DEF Connect, Quit, EmptyHands, ReadIsStored, dbVars, mapVars, loopVars, reqVars, cliVars
  <2> QED
    BY <1>h, <2>2 DEF CleanInv
<1>18. CASE Sigint \/ ResetState \/ Restart
  <2>2. ReadIsStored'
    BY <1>18, <1>c, ChatServiceAssumption DEF Sigint, ResetState, Restart, EmptyHands, ReadIsStored, dbVars, mapVars, loopVars, reqVars, cliVars
  <2> QED
    BY <1>h, <2>2 DEF CleanInv
<1>19. CASE Exit \/ Kill
  <2>2. ReadIsStored'
    BY <1>19, <1>c, ChatServiceAssumption DEF Exit, Kill, ProcessEnds, EmptyHands, ReadIsStored, dbVars, mapVars, loopVars, reqVars, cliVars
  <2> QED
    BY <1>h, <2>2 DEF CleanInv
<1>20. CASE Idle \/ UNCHANGED vars
  <2>2. ReadIsStored'
    BY <1>20, <1>c, ChatServiceAssumption DEF Idle, vars, EmptyHands, ReadIsStored, dbVars, mapVars, loopVars, reqVars, cliVars
  <2> QED
    BY <1>h, <2>2 DEF CleanInv
<1> QED
  BY <1>1, <1>2, <1>3, <1>4, <1>5, <1>6, <1>7, <1>8, <1>9, <1>10, <1>11, <1>12, <1>13,
     <1>14, <1>15, <1>16, <1>17, <1>18, <1>19, <1>20 DEF Next, LoopThread, Handle

-----------------------------------------------------------------------------
(* Where a copy may be, place by place.                                    *)
Boxed(m)    == \E t \in Threads : m \in outbox[t]
Queued(m)   == \E t \in Threads : \E f \in Range(pending[t]) \cup Range(batch[t]) : f.copy = m
Answered(m) == \E t \in Threads : pc[t] = "reply" /\ m \in Range(mail[t])
Stored(m)   == \E u \in Users : m \in Range(dbOffline[u])
Settled(m)  == m \in dropped \/ \E c \in Conns : m \in Range(recv[c])

Held(m) == Boxed(m) \/ Queued(m) \/ Answered(m) \/ Stored(m) \/ Settled(m)

NoneVanished == \A m \in accepted : Held(m) \/ m \in cut

LEMMA HeldInPlaces == \A m : Held(m) => Places(m) # {}
BY DEF Held, Boxed, Queued, Answered, Stored, Settled, Places, InQueues, InOutboxes, InAnswers,
       InTable, InHands, Lost

(* A write settles its copy, and no other is disturbed ...                 *)
LEMMA WriteSettles ==
  ASSUME HistoryType, NEW c \in Conns, NEW m \in Copy, Write(c, m)
  PROVE  Settled(m)' /\ \A x : Settled(x) => Settled(x)'
<1>1. CASE link[c] = "up"
  <2>1. recv' = [recv EXCEPT ![c] = Append(recv[c], m)] /\ UNCHANGED dropped /\ recv[c] \in Seq(Copy)
    BY <1>1 DEF Write, HistoryType
  <2>2. recv'[c] = Append(recv[c], m) /\ \A d \in Conns : d # c => recv'[d] = recv[d]
    BY <2>1 DEF HistoryType
  <2>3. Range(recv'[c]) = Range(recv[c]) \cup {m}
    BY <2>1, <2>2, RangeAppend
  <2> QED
    BY <2>1, <2>2, <2>3 DEF Settled
<1>2. CASE link[c] # "up"
  BY <1>2 DEF Write, Settled
<1> QED
  BY <1>1, <1>2

(* ... and TcpConnection::send settles it or queues it for another loop.   *)
LEMMA SendHolds ==
  ASSUME LoopType, HistoryType, NEW t \in Threads, NEW c \in Conns, NEW m \in Copy, Send(t, c, m),
         UNCHANGED batch
  PROVE  /\ Queued(m)' \/ Settled(m)'
         /\ \A x : (Queued(x) => Queued(x)') /\ (Settled(x) => Settled(x)')
<1>1. CASE LoopOf[c] = t \/ link[c] = "down"
  <2>1. Write(c, m) /\ UNCHANGED pending
    BY <1>1 DEF Send
  <2> QED
    BY <2>1, WriteSettles DEF Queued
<1>2. CASE ~(LoopOf[c] = t \/ link[c] = "down")
  <2> DEFINE f == [conn |-> c, copy |-> m]
  <2>1. f \in Functor /\ f.copy = m /\ LoopOf[c] \in Threads
    BY ChatServiceAssumption DEF Functor
  <2> HIDE DEF f
  <2>2. pending' = [pending EXCEPT ![LoopOf[c]] = Append(pending[LoopOf[c]], f)] /\ UNCHANGED <<recv, dropped>>
    BY <1>2 DEF Send, f
  <2>3. Range(pending'[LoopOf[c]]) = Range(pending[LoopOf[c]]) \cup {f}
    BY <2>1, <2>2, RangeAppend DEF LoopType
  <2>4. \A x \in Threads : x # LoopOf[c] => pending'[x] = pending[x]
    BY <2>2 DEF LoopType
  <2>5. f \in Range(pending'[LoopOf[c]])
    BY <2>3
  <2>6. \A x \in Threads : Range(pending[x]) \subseteq Range(pending'[x])
    BY <2>3, <2>4
  <2> QED
    BY <2>1, <2>2, <2>5, <2>6 DEF Queued, Settled
<1> QED
  BY <1>1, <1>2

(* Every step leaves every copy in some place, failed statements and       *)
(* restarts included.                                                      *)
LEMMA HeldNext ==
  ASSUME AccountsApart, TypeOK, RouteInv, CleanInv, NoneVanished, [Next]_vars
  PROVE  NoneVanished'
<1> USE DEF LoopSteps, LoginSteps, Goto
<1>0. /\ DbType /\ LoopType /\ RequestType /\ MailType /\ HistoryType /\ EmptyHands /\ ReadIsStored
  BY DEF TypeOK, CleanInv
<1>c. cut \subseteq cut'
  BY <1>0, FailuresStay
<1>a. SUFFICES ASSUME NEW m, m \in accepted', m \notin cut', m \in accepted => Held(m)
               PROVE  Held(m)'
  BY <1>c DEF NoneVanished
<1> USE <1>a DEF Held
<1>1. ASSUME NEW t \in Threads, Poll(t) PROVE Held(m)'
  BY <1>1, ChatServiceAssumption, <1>0 DEF Poll, Ready, Boxed, Queued, Answered, Stored, Settled, dbVars, mapVars, loopVars, reqVars, cliVars, histVars, procVars
<1>2. ASSUME NEW t \in Threads, SwapFunctors(t) PROVE Held(m)'
  <2>1. /\ UNCHANGED <<pc, outbox, mail, dbOffline, recv, dropped, accepted>> \/ pc[t] = "dispatch"
        /\ UNCHANGED <<outbox, mail, dbOffline, recv, dropped, accepted>>
        /\ batch[t] = <<>> /\ batch' = [batch EXCEPT ![t] = pending[t]]
        /\ pending' = [pending EXCEPT ![t] = <<>>]
    BY <1>2, <1>0 DEF SwapFunctors, EmptyHands, dbVars, reqVars, histVars
  <2>2. \A x \in Threads : Range(pending'[x]) \cup Range(batch'[x]) = Range(pending[x]) \cup Range(batch[x])
    BY <1>0, <2>1 DEF LoopType
  <2>3. \A x \in Threads : pc[x] = "reply" => pc'[x] = "reply"
    BY <1>2 DEF SwapFunctors
  <2> QED
    BY <2>1, <2>2, <2>3 DEF Boxed, Queued, Answered, Stored, Settled
<1>3. ASSUME NEW t \in Threads, RunFunctor(t) PROVE Held(m)'
  <2>0. Head(batch[t]) \in Functor /\ Range(batch[t]) = {Head(batch[t])} \cup Range(Tail(batch[t]))
    BY <1>3, <1>0, RangeHeadTail DEF RunFunctor, LoopType
  <2>a. PICK f \in Functor : f = Head(batch[t])
    BY <2>0
  <2>1. /\ Write(f.conn, f.copy)
        /\ UNCHANGED <<pending, outbox, mail, dbOffline, accepted>>
        /\ batch' = [batch EXCEPT ![t] = Tail(batch[t])]
        /\ \A x \in Threads : pc[x] = "reply" => pc'[x] = "reply"
    BY <1>3, <1>0, <2>a DEF RunFunctor, LoopType, dbVars, reqVars
  <2>2. Range(batch[t]) = {f} \cup Range(batch'[t])
    BY <1>0, <2>0, <2>a, <2>1 DEF LoopType
  <2>3. f.conn \in Conns /\ f.copy \in Copy
    BY DEF Functor
  <2>4. Settled(f.copy)' /\ \A x : Settled(x) => Settled(x)'
    BY <1>0, <2>1, <2>3, WriteSettles
  <2>5. ASSUME Queued(m) PROVE Queued(m)' \/ m = f.copy
    <3>1. PICK x \in Threads : \E g \in Range(pending[x]) \cup Range(batch[x]) : g.copy = m
      BY <2>5 DEF Queued
    <3>2. CASE x = t
      BY <2>1, <2>2, <3>1, <3>2 DEF Queued
    <3>3. CASE x # t
      <4>1. batch'[x] = batch[x]
        BY <1>0, <2>1, <3>3 DEF LoopType
      <4> QED
        BY <2>1, <3>1, <4>1 DEF Queued
    <3> QED
      BY <3>2, <3>3
  <2> QED
    BY <2>1, <2>4, <2>5 DEF Boxed, Answered, Stored
<1>4. ASSUME NEW t \in Threads, NEW c \in Conns, NEW u \in Users, LoginGranted(t, c, u) PROVE Held(m)'
  BY <1>4, ChatServiceAssumption, <1>0 DEF LoginGranted, Take, Boxed, Queued, Answered, Stored, Settled, dbVars, mapVars, loopVars, reqVars, cliVars, histVars, procVars
<1>5. ASSUME NEW t \in Threads, NEW c \in Conns, NEW u \in Users, LoginRefused(t, c, u) PROVE Held(m)'
  BY <1>5, ChatServiceAssumption, <1>0 DEF LoginRefused, Take, Boxed, Queued, Answered, Stored, Settled, dbVars, mapVars, loopVars, reqVars, cliVars, histVars, procVars
<1>6. ASSUME NEW t \in Threads, LoginInsert(t) PROVE Held(m)'
  BY <1>6, ChatServiceAssumption, <1>0 DEF LoginInsert, Boxed, Queued, Answered, Stored, Settled, dbVars, mapVars, loopVars, reqVars, cliVars, histVars, procVars
<1>7. ASSUME NEW t \in Threads, LoginSetOnline(t) PROVE Held(m)'
  BY <1>7, ChatServiceAssumption, <1>0 DEF LoginSetOnline, UpdateState, Boxed, Queued, Answered, Stored, Settled, dbVars, mapVars, loopVars, reqVars, cliVars, histVars, procVars
<1>8. ASSUME NEW t \in Threads, LoginFetch(t) PROVE Held(m)'
  <2>1. /\ UNCHANGED <<pending, batch, outbox, dbOffline, recv, dropped, accepted>>
        /\ pc[t] = "fetch" /\ \A x \in Threads \ {t} : pc'[x] = pc[x] /\ mail'[x] = mail[x]
    BY <1>8, <1>0 DEF LoginFetch, QueryOffline, RequestType, MailType, dbVars, loopVars, histVars
  <2>2. Answered(m) => Answered(m)'
    BY <2>1 DEF Answered
  <2> QED
    BY <2>1, <2>2 DEF Boxed, Queued, Stored, Settled
<1>9. ASSUME NEW t \in Threads, LoginRemove(t) PROVE Held(m)'
  <2>1. /\ UNCHANGED <<pending, batch, outbox, mail, recv, dropped, accepted>>
        /\ m \in Range(dbOffline[id[t]]) => m \in Range(mail[t])
        /\ pc' = [pc EXCEPT ![t] = "reply"]
        /\ \A u \in Users : u # id[t] => dbOffline'[u] = dbOffline[u]
    BY <1>9, <1>0, <1>c DEF LoginRemove, RemoveOffline, ReadIsStored, DbType, RequestType, reqVars, loopVars, histVars
  <2>2. Answered(m) => Answered(m)'
    BY <1>0, <2>1 DEF Answered, RequestType
  <2>3. Stored(m) => Stored(m)' \/ Answered(m)'
    BY <1>0, <2>1 DEF Stored, Answered, RequestType
  <2> QED
    BY <2>1, <2>2, <2>3 DEF Boxed, Queued, Settled
<1>10. ASSUME NEW t \in Threads, LoginReply(t) PROVE Held(m)'
  <2>1. /\ UNCHANGED <<pending, batch, outbox, dbOffline, accepted>>
        /\ pc[t] = "reply" /\ cur[t] \in Conns /\ mail[t] \in Seq(Copy) /\ recv[cur[t]] \in Seq(Copy)
        /\ \A x \in Threads \ {t} : pc'[x] = pc[x] /\ mail'[x] = mail[x]
    BY <1>10, <1>0 DEF LoginReply, Return, RequestType, MailType, HistoryType, dbVars, loopVars
  <2>2. /\ \A x \in Range(mail[t]) : Settled(x)'
        /\ \A x : Settled(x) => Settled(x)'
    <3>1. CASE link[cur[t]] = "up"
      <4>1. /\ recv'[cur[t]] = recv[cur[t]] \o mail[t] /\ UNCHANGED dropped
            /\ \A d \in Conns : d # cur[t] => recv'[d] = recv[d]
        BY <1>10, <1>0, <2>1, <3>1 DEF LoginReply, HistoryType
      <4>2. Range(recv'[cur[t]]) = Range(recv[cur[t]]) \cup Range(mail[t])
        BY <2>1, <4>1, RangeConcat
      <4> QED
        BY <2>1, <4>1, <4>2 DEF Settled
    <3>2. CASE link[cur[t]] # "up"
      BY <1>10, <3>2 DEF LoginReply, Settled
    <3> QED
      BY <3>1, <3>2
  <2>3. Answered(m) => Answered(m)' \/ Settled(m)'
    BY <2>1, <2>2 DEF Answered
  <2> QED
    BY <2>1, <2>2, <2>3 DEF Boxed, Queued, Stored
<1>11. ASSUME NEW t \in Threads, NEW c \in Conns, NEW u \in Users, OneChat(t, c, u) PROVE Held(m)'
  <2>1. PICK copies : accepted' = accepted \cup copies /\ outbox' = [outbox EXCEPT ![t] = copies]
    BY <1>11 DEF OneChat, Accept
  <2>2. /\ UNCHANGED <<pending, batch, mail, dbOffline, recv, dropped>>
        /\ pc[t] = "dispatch" /\ \A x \in Threads \ {t} : pc'[x] = pc[x]
    BY <1>11 DEF OneChat, Accept, Take, Works
  <2>3. outbox[t] = {}
    BY <1>0, <2>2 DEF EmptyHands
  <2>4. Boxed(m) \/ m \in copies => Boxed(m)'
    BY <1>0, <2>1, <2>3 DEF Boxed, MailType
  <2>5. Answered(m) => Answered(m)'
    BY <2>2 DEF Answered
  <2> QED
    BY <2>1, <2>2, <2>4, <2>5 DEF Queued, Stored, Settled
<1>12. ASSUME NEW t \in Threads, NEW c \in Conns, GroupChat(t, c) PROVE Held(m)'
  <2>1. PICK copies : accepted' = accepted \cup copies /\ outbox' = [outbox EXCEPT ![t] = copies]
    BY <1>12 DEF GroupChat, Accept
  <2>2. /\ UNCHANGED <<pending, batch, mail, dbOffline, recv, dropped>>
        /\ pc[t] = "dispatch" /\ \A x \in Threads \ {t} : pc'[x] = pc[x]
    BY <1>12 DEF GroupChat, Accept, Take
  <2>3. outbox[t] = {}
    BY <1>0, <2>2 DEF EmptyHands
  <2>4. Boxed(m) \/ m \in copies => Boxed(m)'
    BY <1>0, <2>1, <2>3 DEF Boxed, MailType
  <2>5. Answered(m) => Answered(m)'
    BY <2>2 DEF Answered
  <2> QED
    BY <2>1, <2>2, <2>4, <2>5 DEF Queued, Stored, Settled
<1>13. ASSUME NEW t \in Threads, Deliver(t) PROVE Held(m)'
  <2>1. PICK k \in outbox[t] :
          /\ \/ userConnMap[k.to] = NoConn /\ InsertOffline(k) /\ UNCHANGED <<pending, recv>>
             \/ userConnMap[k.to] # NoConn /\ Send(t, userConnMap[k.to], k) /\ UNCHANGED dbOffline
          /\ outbox' = [outbox EXCEPT ![t] = outbox[t] \ {k}]
    BY <1>13 DEF Deliver, Remaining
  <2>2. /\ UNCHANGED <<batch, mail, accepted>>
        /\ pc[t] = "deliver" /\ \A x \in Threads \ {t} : pc'[x] = pc[x]
    BY <1>13, <1>0 DEF Deliver, RequestType
  <2>3. k \in Copy /\ k.to \in Users
    BY <1>0, <2>1 DEF MailType, Copy
  <2>4. Boxed(m) => Boxed(m)' \/ m = k
    BY <1>0, <2>1 DEF Boxed, MailType
  <2>5. Answered(m) => Answered(m)'
    BY <2>2 DEF Answered
  <2>6. /\ Queued(k)' \/ Stored(k)' \/ Settled(k)'
        /\ (Queued(m) => Queued(m)') /\ (Stored(m) => Stored(m)') /\ (Settled(m) => Settled(m)')
    <3>1. CASE userConnMap[k.to] = NoConn
      <4>1. InsertOffline(k) /\ UNCHANGED <<pending, recv>>
        BY <2>1, <3>1
      <4>2. CASE Works
        <5>1. \/ dbOffline' = [dbOffline EXCEPT ![k.to] = Append(dbOffline[k.to], k)] /\ UNCHANGED dropped
              \/ dropped' = dropped \cup {k} /\ UNCHANGED dbOffline
          BY <4>1 DEF InsertOffline
        <5>2. CASE dbOffline' = [dbOffline EXCEPT ![k.to] = Append(dbOffline[k.to], k)] /\ UNCHANGED dropped
          <6>1. Range(dbOffline'[k.to]) = Range(dbOffline[k.to]) \cup {k}
            BY <1>0, <2>3, <5>2, RangeAppend DEF DbType
          <6>2. \A u \in Users : u # k.to => dbOffline'[u] = dbOffline[u]
            BY <1>0, <5>2 DEF DbType
          <6> QED
            BY <2>2, <2>3, <4>1, <5>2, <6>1, <6>2 DEF Queued, Stored, Settled
        <5>3. CASE dropped' = dropped \cup {k} /\ UNCHANGED dbOffline
          BY <2>2, <4>1, <5>3 DEF Queued, Stored, Settled
        <5> QED
          BY <5>1, <5>2, <5>3
      <4>3. CASE ~Works
        BY <2>2, <4>1, <4>3 DEF InsertOffline, Queued, Stored, Settled
      <4> QED
        BY <4>2, <4>3
    <3>2. CASE userConnMap[k.to] # NoConn
      <4>1. userConnMap[k.to] \in Conns /\ Send(t, userConnMap[k.to], k) /\ UNCHANGED dbOffline
        BY <2>1, <2>3, <3>2 DEF TypeOK, MapType
      <4> QED
        BY <1>0, <2>2, <2>3, <4>1, SendHolds DEF Stored
    <3> QED
      BY <3>1, <3>2
  <2> QED
    BY <2>2, <2>4, <2>5, <2>6
<1>14. ASSUME NEW t \in Threads, NEW c \in Conns, Logout(t, c) PROVE Held(m)'
  BY <1>14, ChatServiceAssumption, <1>0 DEF Logout, EraseEntry, Take, Boxed, Queued, Answered, Stored, Settled, dbVars, mapVars, loopVars, reqVars, cliVars, histVars, procVars
<1>15. ASSUME NEW t \in Threads, NEW c \in Conns, CloseException(t, c) PROVE Held(m)'
  <2>1. UNCHANGED <<pending, batch, outbox, mail, dbOffline, recv, dropped, accepted>>
    BY <1>15 DEF CloseException, Take, dbVars, histVars
  <2>2. \A x \in Threads : pc[x] = "reply" => pc'[x] = "reply"
    <3>1. pc[t] = "dispatch" /\ \A x \in Threads : x # t => pc'[x] = pc[x]
      BY <1>15, <1>0 DEF CloseException, Take, RequestType
    <3> QED
      BY <3>1
  <2> QED
    BY <2>1, <2>2 DEF Boxed, Queued, Answered, Stored, Settled
<1>16. ASSUME NEW t \in Threads, SetOffline(t) PROVE Held(m)'
  BY <1>16, ChatServiceAssumption, <1>0 DEF SetOffline, UpdateState, Return, Boxed, Queued, Answered, Stored, Settled, dbVars, mapVars, loopVars, reqVars, cliVars, histVars, procVars
<1>17. ASSUME NEW c \in Conns, Connect(c) \/ Quit(c) PROVE Held(m)'
  BY <1>17, ChatServiceAssumption, <1>0 DEF Connect, Quit, Boxed, Queued, Answered, Stored, Settled, dbVars, mapVars, loopVars, reqVars, cliVars, histVars, procVars
<1>18. CASE Sigint \/ ResetState \/ Restart
  BY <1>18, ChatServiceAssumption, <1>0 DEF Sigint, ResetState, Restart, Boxed, Queued, Answered, Stored, Settled, dbVars, mapVars, loopVars, reqVars, cliVars, histVars, procVars
<1>19. CASE Exit \/ Kill
  <2>1. /\ UNCHANGED <<dbOffline, recv, accepted>>
        /\ dropped' = dropped \cup UNION {InFlight(t) : t \in Threads}
    BY <1>19 DEF Exit, Kill, ProcessEnds, dbVars
  <2>2. Boxed(m) \/ Queued(m) \/ Answered(m) => \E t \in Threads : m \in InFlight(t)
    BY DEF Boxed, Queued, Answered, InFlight
  <2> QED
    BY <2>1, <2>2 DEF Stored, Settled
<1>20. CASE Idle \/ UNCHANGED vars
  BY <1>20, ChatServiceAssumption, <1>0 DEF Idle, vars, Boxed, Queued, Answered, Stored, Settled, dbVars, mapVars, loopVars, reqVars, cliVars, histVars, procVars
<1> QED
  BY <1>1, <1>2, <1>3, <1>4, <1>5, <1>6, <1>7, <1>8, <1>9, <1>10, <1>11, <1>12, <1>13,
     <1>14, <1>15, <1>16, <1>17, <1>18, <1>19, <1>20 DEF Next, LoopThread, Handle

(* The invariants that say where things belong hold on every behaviour.    *)
LEMMA Belongs ==
  ASSUME AccountsApart
  PROVE  Spec => [](TypeOK /\ RouteInv /\ CleanInv)
<1>1. TypeOK /\ RouteInv /\ [Next]_vars => RouteInv'
  BY RouteNext
<1>2. TypeOK /\ RouteInv /\ CleanInv /\ [Next]_vars => CleanInv'
  BY CleanNext
<1> QED
  BY <1>1, <1>2, RouteInit, CleanInit, TypeCorrect, PTL DEF Spec

(* If nobody shares an account, a copy the server took charge of is always *)
(* somewhere: queued, stored, about to be sent, with its reader, or lost   *)
(* with a dead peer, a failed insert or the process; or it is a row that a *)
(* broken fetch left out beside others.                                    *)
THEOREM NoCopyVanishes ==
  ASSUME AccountsApart
  PROVE  Spec => []NothingVanishes
<1>1. Init => NoneVanished
  BY DEF Init, NoneVanished
<1>2. TypeOK /\ RouteInv /\ CleanInv /\ NoneVanished /\ [Next]_vars => NoneVanished'
  BY HeldNext
<1>3. NoneVanished => NothingVanishes
  BY HeldInPlaces DEF NoneVanished, NothingVanishes
<1> QED
  BY <1>1, <1>2, <1>3, Belongs, PTL DEF Spec

-----------------------------------------------------------------------------
(* While the process lives and the database answers, User.state follows    *)
(* the map one step late: in a login after the entry, in a logout after    *)
(* its end, and only the handler that works on the account sees it late.   *)
LateInLogin ==
  \A t \in Threads :
    /\ pc[t] = "insert" => dbState[id[t]] = "offline" /\ userConnMap[id[t]] = NoConn
    /\ pc[t] \in {"fetch", "remove", "reply"} => dbState[id[t]] = "online"

LateInLogout == \A t \in Threads : pc[t] = "setoffline" => userConnMap[id[t]] = NoConn

Agreed ==
  \A u \in Users : ~BusyWith(u) => (dbState[u] = "online" <=> userConnMap[u] # NoConn)

OnlineInv ==
  /\ server = "run"
  /\ LateInLogin
  /\ LateInLogout
  /\ Agreed

(* A handler that works on an account runs on the loop of its connection,  *)
LEMMA HandlerOwned ==
  ASSUME AccountsApart, TypeOK, RouteInv, NEW x \in Threads, pc[x] \in Busy
  PROVE  /\ id[x] \in Users
         /\ \A c \in Conns : id[x] \in Accounts[c] => LoopOf[c] = x
<1>1. id[x] \in Users /\ \E d \in Conns : LoopOf[d] = x /\ id[x] \in Accounts[d]
  <2>1. CASE pc[x] \in LoginSteps
    <3>1. cur[x] \in Conns /\ LoopOf[cur[x]] = x /\ id[x] = session[cur[x]] /\ id[x] \in Users
      BY <2>1 DEF TypeOK, RequestType, RouteInv, LoginOwned
    <3> QED
      BY <3>1, ChatServiceAssumption DEF RouteInv, SessionOwned
  <2>2. CASE pc[x] = "setoffline"
    BY <2>2 DEF TypeOK, RequestType, RouteInv, LogoutOwned
  <2> QED
    BY <2>1, <2>2 DEF Busy
<1> QED
  BY <1>1 DEF AccountsApart

(* so that one account is never in the hands of two handlers.              *)
LEMMA OneHandler ==
  ASSUME AccountsApart, TypeOK, RouteInv, NEW t \in Threads, NEW x \in Threads,
         pc[t] \in Busy, pc[x] \in Busy, id[t] = id[x]
  PROVE  t = x
<1>1. \E c \in Conns : id[t] \in Accounts[c]
  <2>1. CASE pc[t] \in LoginSteps
    <3>1. cur[t] \in Conns /\ id[t] = session[cur[t]] /\ id[t] \in Users
      BY <2>1 DEF TypeOK, RequestType, RouteInv, LoginOwned
    <3> QED
      BY <3>1, ChatServiceAssumption DEF RouteInv, SessionOwned
  <2>2. CASE pc[t] = "setoffline"
    BY <2>2 DEF RouteInv, LogoutOwned
  <2> QED
    BY <2>1, <2>2 DEF Busy
<1> QED
  BY <1>1, HandlerOwned

LEMMA OnlineInit == Init => OnlineInv
BY ChatServiceAssumption DEF Init, OnlineInv, LateInLogin, LateInLogout, Agreed

(* No step of a loop breaks the agreement, on whatever loop the others run.*)
LEMMA OnlineNext ==
  ASSUME AccountsApart, MaxDbFaults = 0, MaxStops = 0, TypeOK, RouteInv, OnlineInv, [Next]_vars
  PROVE  OnlineInv'
<1> USE DEF LoopSteps, LoginSteps, Goto
<1>0. /\ DbType /\ MapType /\ LoopType /\ RequestType /\ ClientType
      /\ ~Fails /\ server = "run" /\ ~Sigint /\ ~Kill
      /\ SessionOwned /\ EntryOwned /\ ActiveOnOwnLoop /\ LoginOwned /\ LogoutOwned /\ IdleHasNoId
      /\ LoginHasEntry /\ LateInLogin /\ LateInLogout /\ Agreed
  BY DEF TypeOK, DbType, ProcessType, Fails, Sigint, Kill, RouteInv, OnlineInv
<1> USE <1>0 DEF DbType, MapType, LoopType, RequestType, ClientType
<1>1. ASSUME NEW t \in Threads, Poll(t) PROVE OnlineInv'
  <2>1. (server = "run")'
    BY <1>1, ChatServiceAssumption DEF Poll, Ready, procVars, dbVars, mapVars, loopVars, reqVars, cliVars, procVars
  <2>2. LateInLogin'
    BY <1>1, ChatServiceAssumption DEF Poll, Ready, LateInLogin, EntryOwned, SessionOwned, LoginOwned, dbVars, mapVars, loopVars, reqVars, cliVars, procVars
  <2>3. LateInLogout'
    BY <1>1, ChatServiceAssumption DEF Poll, Ready, LateInLogout, EntryOwned, LogoutOwned, dbVars, mapVars, loopVars, reqVars, cliVars, procVars
  <2>4. Agreed'
    BY <1>1, ChatServiceAssumption DEF Poll, Ready, Agreed, BusyWith, IdleHasNoId, Busy, LateInLogin, LateInLogout, LoginHasEntry, dbVars, mapVars, loopVars, reqVars, cliVars, procVars
  <2> QED
    BY <2>1, <2>2, <2>3, <2>4 DEF OnlineInv
<1>2. ASSUME NEW t \in Threads, SwapFunctors(t) PROVE OnlineInv'
  <2>1. (server = "run")'
    BY <1>2, ChatServiceAssumption DEF SwapFunctors, procVars, dbVars, mapVars, loopVars, reqVars, cliVars, procVars
  <2>2. LateInLogin'
    BY <1>2, ChatServiceAssumption DEF SwapFunctors, LateInLogin, EntryOwned, SessionOwned, LoginOwned, dbVars, mapVars, loopVars, reqVars, cliVars, procVars
  <2>3. LateInLogout'
    BY <1>2, ChatServiceAssumption DEF SwapFunctors, LateInLogout, EntryOwned, LogoutOwned, dbVars, mapVars, loopVars, reqVars, cliVars, procVars
  <2>4. Agreed'
    BY <1>2, ChatServiceAssumption DEF SwapFunctors, Agreed, BusyWith, IdleHasNoId, Busy, LateInLogin, LateInLogout, LoginHasEntry, dbVars, mapVars, loopVars, reqVars, cliVars, procVars
  <2> QED
    BY <2>1, <2>2, <2>3, <2>4 DEF OnlineInv
<1>3. ASSUME NEW t \in Threads, RunFunctor(t) PROVE OnlineInv'
  <2>1. (server = "run")'
    BY <1>3, ChatServiceAssumption DEF RunFunctor, procVars, dbVars, mapVars, loopVars, reqVars, cliVars, procVars
  <2>2. LateInLogin'
    BY <1>3, ChatServiceAssumption DEF RunFunctor, LateInLogin, EntryOwned, SessionOwned, LoginOwned, dbVars, mapVars, loopVars, reqVars, cliVars, procVars
  <2>3. LateInLogout'
    BY <1>3, ChatServiceAssumption DEF RunFunctor, LateInLogout, EntryOwned, LogoutOwned, dbVars, mapVars, loopVars, reqVars, cliVars, procVars
  <2>4. Agreed'
    BY <1>3, ChatServiceAssumption DEF RunFunctor, Agreed, BusyWith, IdleHasNoId, Busy, LateInLogin, LateInLogout, LoginHasEntry, dbVars, mapVars, loopVars, reqVars, cliVars, procVars
  <2> QED
    BY <2>1, <2>2, <2>3, <2>4 DEF OnlineInv
<1>4. ASSUME NEW t \in Threads, NEW c \in Conns, NEW u \in Users, LoginGranted(t, c, u) PROVE OnlineInv'
  <2>1. (server = "run")'
    BY <1>4, ChatServiceAssumption DEF LoginGranted, Take, procVars, dbVars, mapVars, loopVars, reqVars, cliVars, procVars
  <2>2. LateInLogin'
    <3>1. /\ LoopOf[c] = t /\ pc[t] = "dispatch" /\ u \in Accounts[c] /\ dbState[u] = "offline"
          /\ u # NoUser /\ id' = [id EXCEPT ![t] = u] /\ UNCHANGED <<dbState, userConnMap>>
          /\ pc' = [pc EXCEPT ![t] = "insert"]
      BY <1>4, ChatServiceAssumption DEF LoginGranted, Take, ActiveOnOwnLoop, dbVars, mapVars
    <3>2. ~BusyWith(u)
      <4>1. ASSUME NEW x \in Threads, id[x] = u PROVE FALSE
        <5>1. pc[x] \in Busy
          BY <3>1, <4>1 DEF IdleHasNoId
        <5>2. x = t
          BY <3>1, <4>1, <5>1, HandlerOwned
        <5> QED
          BY <3>1, <5>1, <5>2 DEF Busy
      <4> QED
        BY <4>1 DEF BusyWith
    <3>3. userConnMap[u] = NoConn
      BY <3>1, <3>2 DEF Agreed
    <3> QED
      BY <3>1, <3>3 DEF LateInLogin
  <2>3. LateInLogout'
    BY <1>4, ChatServiceAssumption DEF LoginGranted, Take, LateInLogout, EntryOwned, LogoutOwned, dbVars, mapVars, loopVars, reqVars, cliVars, procVars
  <2>4. Agreed'
    <3>1. /\ LoopOf[c] = t /\ pc[t] = "dispatch" /\ u \in Accounts[c] /\ dbState[u] = "offline"
          /\ u # NoUser /\ id' = [id EXCEPT ![t] = u] /\ UNCHANGED <<dbState, userConnMap>>
          /\ pc' = [pc EXCEPT ![t] = "insert"]
      BY <1>4, ChatServiceAssumption DEF LoginGranted, Take, ActiveOnOwnLoop, dbVars, mapVars
    <3>2. \A v \in Users : ~BusyWith(v)' => ~BusyWith(v)
      <4>1. id[t] = NoUser
        BY <3>1 DEF IdleHasNoId, Busy
      <4> QED
        BY <3>1, <4>1, ChatServiceAssumption DEF BusyWith
    <3> QED
      BY <3>1, <3>2 DEF Agreed
  <2> QED
    BY <2>1, <2>2, <2>3, <2>4 DEF OnlineInv
<1>5. ASSUME NEW t \in Threads, NEW c \in Conns, NEW u \in Users, LoginRefused(t, c, u) PROVE OnlineInv'
  <2>1. (server = "run")'
    BY <1>5, ChatServiceAssumption DEF LoginRefused, Take, procVars, dbVars, mapVars, loopVars, reqVars, cliVars, procVars
  <2>2. LateInLogin'
    BY <1>5, ChatServiceAssumption DEF LoginRefused, Take, LateInLogin, EntryOwned, SessionOwned, LoginOwned, dbVars, mapVars, loopVars, reqVars, cliVars, procVars
  <2>3. LateInLogout'
    BY <1>5, ChatServiceAssumption DEF LoginRefused, Take, LateInLogout, EntryOwned, LogoutOwned, dbVars, mapVars, loopVars, reqVars, cliVars, procVars
  <2>4. Agreed'
    BY <1>5, ChatServiceAssumption DEF LoginRefused, Take, Agreed, BusyWith, IdleHasNoId, Busy, LateInLogin, LateInLogout, LoginHasEntry, dbVars, mapVars, loopVars, reqVars, cliVars, procVars
  <2> QED
    BY <2>1, <2>2, <2>3, <2>4 DEF OnlineInv
<1>6. ASSUME NEW t \in Threads, LoginInsert(t) PROVE OnlineInv'
  <2>1. (server = "run")'
    BY <1>6, ChatServiceAssumption DEF LoginInsert, procVars, dbVars, mapVars, loopVars, reqVars, cliVars, procVars
  <2>2. LateInLogin'
    <3>1. /\ pc[t] = "insert" /\ id' = id /\ id[t] \in Users /\ pc'[t] # "insert"
          /\ \A x \in Threads : x # t => pc'[x] = pc[x]
          /\ \A v \in Users : v # id[t] => dbState'[v] = dbState[v] /\ userConnMap'[v] = userConnMap[v]
      BY <1>6 DEF LoginInsert, reqVars, dbVars, mapVars
    <3>2. pc'[t] = "fetch" => dbState'[id[t]] = "online"
      BY <1>6 DEF LoginInsert
    <3>3. ASSUME NEW x \in Threads, x # t, pc[x] \in LoginSteps PROVE id[x] \in Users /\ id[x] # id[t]
      BY <3>1, <3>3, OneHandler DEF Busy
    <3>4. pc'[t] \notin {"remove", "reply"}
      BY <1>6 DEF LoginInsert
    <3>5. ASSUME NEW x \in Threads
          PROVE  /\ pc'[x] = "insert" => dbState'[id[x]] = "offline" /\ userConnMap'[id[x]] = NoConn
                 /\ pc'[x] \in {"fetch", "remove", "reply"} => dbState'[id[x]] = "online"
      <4>1. CASE x = t
        BY <3>1, <3>2, <3>4, <4>1
      <4>2. CASE x # t /\ pc[x] \in LoginSteps
        <5>1. id[x] \in Users /\ id[x] # id[t] /\ pc'[x] = pc[x]
          BY <3>1, <3>3, <4>2
        <5>2. dbState'[id[x]] = dbState[id[x]] /\ userConnMap'[id[x]] = userConnMap[id[x]]
          BY <3>1, <5>1
        <5> QED
          BY <5>1, <5>2 DEF LateInLogin
      <4>3. CASE x # t /\ pc[x] \notin LoginSteps
        BY <3>1, <4>3
      <4> QED
        BY <4>1, <4>2, <4>3
    <3> QED
      BY <3>1, <3>5 DEF LateInLogin
  <2>3. LateInLogout'
    <3>1. /\ pc[t] = "insert" /\ id' = id /\ id[t] \in Users /\ pc'[t] # "setoffline"
          /\ \A x \in Threads : x # t => pc'[x] = pc[x]
          /\ \A v \in Users : v # id[t] => dbState'[v] = dbState[v] /\ userConnMap'[v] = userConnMap[v]
      BY <1>6 DEF LoginInsert, reqVars, dbVars, mapVars
    <3>2. ASSUME NEW x \in Threads, x # t, pc[x] = "setoffline" PROVE id[x] \in Users /\ id[x] # id[t]
      BY <3>1, <3>2, OneHandler DEF Busy
    <3> QED
      BY <3>1, <3>2 DEF LateInLogout
  <2>4. Agreed'
    BY <1>6, ChatServiceAssumption DEF LoginInsert, Agreed, BusyWith, IdleHasNoId, Busy, LateInLogin, LateInLogout, LoginHasEntry, dbVars, mapVars, loopVars, reqVars, cliVars, procVars
  <2> QED
    BY <2>1, <2>2, <2>3, <2>4 DEF OnlineInv
<1>7. ASSUME NEW t \in Threads, LoginSetOnline(t) PROVE OnlineInv'
  <2>1. (server = "run")'
    BY <1>7, ChatServiceAssumption DEF LoginSetOnline, UpdateState, procVars, dbVars, mapVars, loopVars, reqVars, cliVars, procVars
  <2>2. LateInLogin'
    <3>1. /\ pc[t] = "setonline" /\ id' = id /\ id[t] \in Users /\ pc'[t] # "insert"
          /\ \A x \in Threads : x # t => pc'[x] = pc[x]
          /\ \A v \in Users : v # id[t] => dbState'[v] = dbState[v] /\ userConnMap'[v] = userConnMap[v]
      BY <1>7 DEF LoginSetOnline, UpdateState, reqVars, dbVars, mapVars
    <3>2. pc'[t] = "fetch" => dbState'[id[t]] = "online"
      BY <1>7 DEF LoginSetOnline, UpdateState
    <3>3. ASSUME NEW x \in Threads, x # t, pc[x] \in LoginSteps PROVE id[x] \in Users /\ id[x] # id[t]
      BY <3>1, <3>3, OneHandler DEF Busy
    <3>4. pc'[t] \notin {"remove", "reply"}
      BY <1>7 DEF LoginSetOnline, UpdateState
    <3>5. ASSUME NEW x \in Threads
          PROVE  /\ pc'[x] = "insert" => dbState'[id[x]] = "offline" /\ userConnMap'[id[x]] = NoConn
                 /\ pc'[x] \in {"fetch", "remove", "reply"} => dbState'[id[x]] = "online"
      <4>1. CASE x = t
        BY <3>1, <3>2, <3>4, <4>1
      <4>2. CASE x # t /\ pc[x] \in LoginSteps
        <5>1. id[x] \in Users /\ id[x] # id[t] /\ pc'[x] = pc[x]
          BY <3>1, <3>3, <4>2
        <5>2. dbState'[id[x]] = dbState[id[x]] /\ userConnMap'[id[x]] = userConnMap[id[x]]
          BY <3>1, <5>1
        <5> QED
          BY <5>1, <5>2 DEF LateInLogin
      <4>3. CASE x # t /\ pc[x] \notin LoginSteps
        BY <3>1, <4>3
      <4> QED
        BY <4>1, <4>2, <4>3
    <3> QED
      BY <3>1, <3>5 DEF LateInLogin
  <2>3. LateInLogout'
    BY <1>7, ChatServiceAssumption DEF LoginSetOnline, UpdateState, LateInLogout, EntryOwned, LogoutOwned, dbVars, mapVars, loopVars, reqVars, cliVars, procVars
  <2>4. Agreed'
    BY <1>7, ChatServiceAssumption DEF LoginSetOnline, UpdateState, Agreed, BusyWith, IdleHasNoId, Busy, LateInLogin, LateInLogout, LoginHasEntry, dbVars, mapVars, loopVars, reqVars, cliVars, procVars
  <2> QED
    BY <2>1, <2>2, <2>3, <2>4 DEF OnlineInv
<1>8. ASSUME NEW t \in Threads, LoginFetch(t) PROVE OnlineInv'
  <2>1. (server = "run")'
    BY <1>8, ChatServiceAssumption DEF LoginFetch, QueryOffline, procVars, dbVars, mapVars, loopVars, reqVars, cliVars, procVars
  <2>2. LateInLogin'
    BY <1>8, ChatServiceAssumption DEF LoginFetch, QueryOffline, LateInLogin, EntryOwned, SessionOwned, LoginOwned, dbVars, mapVars, loopVars, reqVars, cliVars, procVars
  <2>3. LateInLogout'
    BY <1>8, ChatServiceAssumption DEF LoginFetch, QueryOffline, LateInLogout, EntryOwned, LogoutOwned, dbVars, mapVars, loopVars, reqVars, cliVars, procVars
  <2>4. Agreed'
    BY <1>8, ChatServiceAssumption DEF LoginFetch, QueryOffline, Agreed, BusyWith, IdleHasNoId, Busy, LateInLogin, LateInLogout, LoginHasEntry, dbVars, mapVars, loopVars, reqVars, cliVars, procVars
  <2> QED
    BY <2>1, <2>2, <2>3, <2>4 DEF OnlineInv
<1>9. ASSUME NEW t \in Threads, LoginRemove(t) PROVE OnlineInv'
  <2>1. (server = "run")'
    BY <1>9, ChatServiceAssumption DEF LoginRemove, RemoveOffline, procVars, dbVars, mapVars, loopVars, reqVars, cliVars, procVars
  <2>2. LateInLogin'
    BY <1>9, ChatServiceAssumption DEF LoginRemove, RemoveOffline, LateInLogin, EntryOwned, SessionOwned, LoginOwned, dbVars, mapVars, loopVars, reqVars, cliVars, procVars
  <2>3. LateInLogout'
    BY <1>9, ChatServiceAssumption DEF LoginRemove, RemoveOffline, LateInLogout, EntryOwned, LogoutOwned, dbVars, mapVars, loopVars, reqVars, cliVars, procVars
  <2>4. Agreed'
    BY <1>9, ChatServiceAssumption DEF LoginRemove, RemoveOffline, Agreed, BusyWith, IdleHasNoId, Busy, LateInLogin, LateInLogout, LoginHasEntry, dbVars, mapVars, loopVars, reqVars, cliVars, procVars
  <2> QED
    BY <2>1, <2>2, <2>3, <2>4 DEF OnlineInv
<1>10. ASSUME NEW t \in Threads, LoginReply(t) PROVE OnlineInv'
  <2>1. (server = "run")'
    BY <1>10, ChatServiceAssumption DEF LoginReply, Return, procVars, dbVars, mapVars, loopVars, reqVars, cliVars, procVars
  <2>2. LateInLogin'
    BY <1>10, ChatServiceAssumption DEF LoginReply, Return, LateInLogin, EntryOwned, SessionOwned, LoginOwned, dbVars, mapVars, loopVars, reqVars, cliVars, procVars
  <2>3. LateInLogout'
    BY <1>10, ChatServiceAssumption DEF LoginReply, Return, LateInLogout, EntryOwned, LogoutOwned, dbVars, mapVars, loopVars, reqVars, cliVars, procVars
  <2>4. Agreed'
    BY <1>10, ChatServiceAssumption DEF LoginReply, Return, Agreed, BusyWith, IdleHasNoId, Busy, LateInLogin, LateInLogout, LoginHasEntry, dbVars, mapVars, loopVars, reqVars, cliVars, procVars
  <2> QED
    BY <2>1, <2>2, <2>3, <2>4 DEF OnlineInv
<1>11. ASSUME NEW t \in Threads, NEW c \in Conns, NEW u \in Users, OneChat(t, c, u) PROVE OnlineInv'
  <2>1. (server = "run")'
    BY <1>11, ChatServiceAssumption DEF OneChat, Accept, Take, procVars, dbVars, mapVars, loopVars, reqVars, cliVars, procVars
  <2>2. LateInLogin'
    BY <1>11, ChatServiceAssumption DEF OneChat, Accept, Take, LateInLogin, EntryOwned, SessionOwned, LoginOwned, dbVars, mapVars, loopVars, reqVars, cliVars, procVars
  <2>3. LateInLogout'
    BY <1>11, ChatServiceAssumption DEF OneChat, Accept, Take, LateInLogout, EntryOwned, LogoutOwned, dbVars, mapVars, loopVars, reqVars, cliVars, procVars
  <2>4. Agreed'
    BY <1>11, ChatServiceAssumption DEF OneChat, Accept, Take, Agreed, BusyWith, IdleHasNoId, Busy, LateInLogin, LateInLogout, LoginHasEntry, dbVars, mapVars, loopVars, reqVars, cliVars, procVars
  <2> QED
    BY <2>1, <2>2, <2>3, <2>4 DEF OnlineInv
<1>12. ASSUME NEW t \in Threads, NEW c \in Conns, GroupChat(t, c) PROVE OnlineInv'
  <2>1. (server = "run")'
    BY <1>12, ChatServiceAssumption DEF GroupChat, QueryGroupUsers, Accept, Take, procVars, dbVars, mapVars, loopVars, reqVars, cliVars, procVars
  <2>2. LateInLogin'
    BY <1>12, ChatServiceAssumption DEF GroupChat, QueryGroupUsers, Accept, Take, LateInLogin, EntryOwned, SessionOwned, LoginOwned, dbVars, mapVars, loopVars, reqVars, cliVars, procVars
  <2>3. LateInLogout'
    BY <1>12, ChatServiceAssumption DEF GroupChat, QueryGroupUsers, Accept, Take, LateInLogout, EntryOwned, LogoutOwned, dbVars, mapVars, loopVars, reqVars, cliVars, procVars
  <2>4. Agreed'
    BY <1>12, ChatServiceAssumption DEF GroupChat, QueryGroupUsers, Accept, Take, Agreed, BusyWith, IdleHasNoId, Busy, LateInLogin, LateInLogout, LoginHasEntry, dbVars, mapVars, loopVars, reqVars, cliVars, procVars
  <2> QED
    BY <2>1, <2>2, <2>3, <2>4 DEF OnlineInv
<1>13. ASSUME NEW t \in Threads, Deliver(t) PROVE OnlineInv'
  <2>1. (server = "run")'
    BY <1>13, ChatServiceAssumption DEF Deliver, InsertOffline, Send, procVars, dbVars, mapVars, loopVars, reqVars, cliVars, procVars
  <2>2. LateInLogin'
    BY <1>13, ChatServiceAssumption DEF Deliver, InsertOffline, Send, LateInLogin, EntryOwned, SessionOwned, LoginOwned, dbVars, mapVars, loopVars, reqVars, cliVars, procVars
  <2>3. LateInLogout'
    BY <1>13, ChatServiceAssumption DEF Deliver, InsertOffline, Send, LateInLogout, EntryOwned, LogoutOwned, dbVars, mapVars, loopVars, reqVars, cliVars, procVars
  <2>4. Agreed'
    BY <1>13, ChatServiceAssumption DEF Deliver, InsertOffline, Send, Agreed, BusyWith, IdleHasNoId, Busy, LateInLogin, LateInLogout, LoginHasEntry, dbVars, mapVars, loopVars, reqVars, cliVars, procVars
  <2> QED
    BY <2>1, <2>2, <2>3, <2>4 DEF OnlineInv
<1>14. ASSUME NEW t \in Threads, NEW c \in Conns, Logout(t, c) PROVE OnlineInv'
  <2>1. (server = "run")'
    BY <1>14, ChatServiceAssumption DEF Logout, EraseEntry, Take, procVars, dbVars, mapVars, loopVars, reqVars, cliVars, procVars
  <2>2. LateInLogin'
    BY <1>14, ChatServiceAssumption DEF Logout, EraseEntry, Take, LateInLogin, EntryOwned, SessionOwned, LoginOwned, dbVars, mapVars, loopVars, reqVars, cliVars, procVars
  <2>3. LateInLogout'
    BY <1>14, ChatServiceAssumption DEF Logout, EraseEntry, Take, LateInLogout, EntryOwned, LogoutOwned, dbVars, mapVars, loopVars, reqVars, cliVars, procVars
  <2>4. Agreed'
    <3>1. /\ pc[t] = "dispatch" /\ id' = [id EXCEPT ![t] = session[c]] /\ UNCHANGED dbState
          /\ \A v \in Users : v # session[c] => userConnMap'[v] = userConnMap[v]
      BY <1>14 DEF Logout, EraseEntry, Take, dbVars
    <3>2. \A v \in Users : ~BusyWith(v)' => ~BusyWith(v) /\ v # session[c]
      <4>1. id[t] = NoUser
        BY <3>1 DEF IdleHasNoId, Busy
      <4> QED
        BY <3>1, <4>1, ChatServiceAssumption DEF BusyWith
    <3> QED
      BY <3>1, <3>2 DEF Agreed
  <2> QED
    BY <2>1, <2>2, <2>3, <2>4 DEF OnlineInv
<1>15. ASSUME NEW t \in Threads, NEW c \in Conns, CloseException(t, c) PROVE OnlineInv'
  <2>1. (server = "run")'
    BY <1>15, ChatServiceAssumption DEF CloseException, EraseEntry, Take, procVars, dbVars, mapVars, loopVars, reqVars, cliVars, procVars
  <2>2. LateInLogin'
    BY <1>15, ChatServiceAssumption DEF CloseException, EraseEntry, Take, LateInLogin, EntryOwned, SessionOwned, LoginOwned, dbVars, mapVars, loopVars, reqVars, cliVars, procVars
  <2>3. LateInLogout'
    BY <1>15, ChatServiceAssumption DEF CloseException, EraseEntry, Take, LateInLogout, EntryOwned, LogoutOwned, dbVars, mapVars, loopVars, reqVars, cliVars, procVars
  <2>4. Agreed'
    <3>1. pc[t] = "dispatch" /\ id[t] = NoUser /\ UNCHANGED dbState
      BY <1>15 DEF CloseException, Take, IdleHasNoId, Busy, dbVars
    <3>2. CASE UNCHANGED <<userConnMap, id>>
      BY <3>1, <3>2 DEF Agreed, BusyWith
    <3>3. CASE \E u \in Users : EraseEntry(u) /\ id' = [id EXCEPT ![t] = u]
      <4>1. PICK u \in Users : EraseEntry(u) /\ id' = [id EXCEPT ![t] = u]
        BY <3>3
      <4>2. \A v \in Users : ~BusyWith(v)' => ~BusyWith(v) /\ v # u
        BY <3>1, <4>1, ChatServiceAssumption DEF BusyWith
      <4>3. \A v \in Users : v # u => userConnMap'[v] = userConnMap[v]
        BY <4>1 DEF EraseEntry
      <4> QED
        BY <3>1, <4>2, <4>3 DEF Agreed
    <3> QED
      BY <1>15, <3>2, <3>3 DEF CloseException
  <2> QED
    BY <2>1, <2>2, <2>3, <2>4 DEF OnlineInv
<1>16. ASSUME NEW t \in Threads, SetOffline(t) PROVE OnlineInv'
  <2>1. (server = "run")'
    BY <1>16, ChatServiceAssumption DEF SetOffline, UpdateState, Return, procVars, dbVars, mapVars, loopVars, reqVars, cliVars, procVars
  <2>2. LateInLogin'
    <3>1. /\ pc[t] = "setoffline" /\ pc' = [pc EXCEPT ![t] = "dispatch"] /\ id' = [id EXCEPT ![t] = NoUser]
          /\ UNCHANGED userConnMap /\ id[t] \in Users /\ userConnMap[id[t]] = NoConn
          /\ dbState' = [dbState EXCEPT ![id[t]] = "offline"]
      BY <1>16 DEF SetOffline, UpdateState, Return, LateInLogout, mapVars
    <3>2. ASSUME NEW x \in Threads, x # t, pc[x] \in LoginSteps PROVE id[x] \in Users /\ id[x] # id[t]
      BY <3>1, <3>2, OneHandler DEF Busy
    <3>3. \A x \in Threads : x # t => pc'[x] = pc[x] /\ id'[x] = id[x]
      BY <3>1
    <3>4. \A v \in Users : v # id[t] => dbState'[v] = dbState[v]
      BY <3>1
    <3> QED
      BY <3>1, <3>2, <3>3, <3>4 DEF LateInLogin
  <2>3. LateInLogout'
    BY <1>16, ChatServiceAssumption DEF SetOffline, UpdateState, Return, LateInLogout, EntryOwned, LogoutOwned, dbVars, mapVars, loopVars, reqVars, cliVars, procVars
  <2>4. Agreed'
    <3>1. /\ pc[t] = "setoffline" /\ pc' = [pc EXCEPT ![t] = "dispatch"] /\ id' = [id EXCEPT ![t] = NoUser]
          /\ UNCHANGED userConnMap /\ id[t] \in Users /\ userConnMap[id[t]] = NoConn
          /\ dbState' = [dbState EXCEPT ![id[t]] = "offline"]
      BY <1>16 DEF SetOffline, UpdateState, Return, LateInLogout, mapVars
    <3>2. \A v \in Users : v # id[t] /\ ~BusyWith(v)' => ~BusyWith(v)
      BY <3>1 DEF BusyWith
    <3>3. dbState'[id[t]] = "offline" /\ \A v \in Users : v # id[t] => dbState'[v] = dbState[v]
      BY <3>1
    <3> QED
      BY <3>1, <3>2, <3>3 DEF Agreed
  <2> QED
    BY <2>1, <2>2, <2>3, <2>4 DEF OnlineInv
<1>17. ASSUME NEW c \in Conns, Connect(c) \/ Quit(c) PROVE OnlineInv'
  <2>1. (server = "run")'
    BY <1>17, ChatServiceAssumption DEF Connect, Quit, procVars, dbVars, mapVars, loopVars, reqVars, cliVars, procVars
  <2>2. LateInLogin'
    BY <1>17, ChatServiceAssumption DEF Connect, Quit, LateInLogin, EntryOwned, SessionOwned, LoginOwned, dbVars, mapVars, loopVars, reqVars, cliVars, procVars
  <2>3. LateInLogout'
    BY <1>17, ChatServiceAssumption DEF Connect, Quit, LateInLogout, EntryOwned, LogoutOwned, dbVars, mapVars, loopVars, reqVars, cliVars, procVars
  <2>4. Agreed'
    BY <1>17, ChatServiceAssumption DEF Connect, Quit, Agreed, BusyWith, IdleHasNoId, Busy, LateInLogin, LateInLogout, LoginHasEntry, dbVars, mapVars, loopVars, reqVars, cliVars, procVars
  <2> QED
    BY <2>1, <2>2, <2>3, <2>4 DEF OnlineInv
<1>18. CASE Sigint \/ ResetState \/ Restart
  <2>1. (server = "run")'
    BY <1>18, ChatServiceAssumption DEF Sigint, ResetState, Restart, procVars, dbVars, mapVars, loopVars, reqVars, cliVars, procVars
  <2>2. LateInLogin'
    BY <1>18, ChatServiceAssumption DEF Sigint, ResetState, Restart, LateInLogin, EntryOwned, SessionOwned, LoginOwned, dbVars, mapVars, loopVars, reqVars, cliVars, procVars
  <2>3. LateInLogout'
    BY <1>18, ChatServiceAssumption DEF Sigint, ResetState, Restart, LateInLogout, EntryOwned, LogoutOwned, dbVars, mapVars, loopVars, reqVars, cliVars, procVars
  <2>4. Agreed'
    BY <1>18, ChatServiceAssumption DEF Sigint, ResetState, Restart, Agreed, BusyWith, IdleHasNoId, Busy, LateInLogin, LateInLogout, LoginHasEntry, dbVars, mapVars, loopVars, reqVars, cliVars, procVars
  <2> QED
    BY <2>1, <2>2, <2>3, <2>4 DEF OnlineInv
<1>19. CASE Exit \/ Kill
  <2>1. (server = "run")'
    BY <1>19, ChatServiceAssumption DEF Exit, Kill, ProcessEnds, procVars, dbVars, mapVars, loopVars, reqVars, cliVars, procVars
  <2>2. LateInLogin'
    BY <1>19, ChatServiceAssumption DEF Exit, Kill, ProcessEnds, LateInLogin, EntryOwned, SessionOwned, LoginOwned, dbVars, mapVars, loopVars, reqVars, cliVars, procVars
  <2>3. LateInLogout'
    BY <1>19, ChatServiceAssumption DEF Exit, Kill, ProcessEnds, LateInLogout, EntryOwned, LogoutOwned, dbVars, mapVars, loopVars, reqVars, cliVars, procVars
  <2>4. Agreed'
    BY <1>19, ChatServiceAssumption DEF Exit, Kill, ProcessEnds, Agreed, BusyWith, IdleHasNoId, Busy, LateInLogin, LateInLogout, LoginHasEntry, dbVars, mapVars, loopVars, reqVars, cliVars, procVars
  <2> QED
    BY <2>1, <2>2, <2>3, <2>4 DEF OnlineInv
<1>20. CASE Idle \/ UNCHANGED vars
  <2>1. (server = "run")'
    BY <1>20, ChatServiceAssumption DEF Idle, vars, procVars, dbVars, mapVars, loopVars, reqVars, cliVars, procVars
  <2>2. LateInLogin'
    BY <1>20, ChatServiceAssumption DEF Idle, vars, LateInLogin, EntryOwned, SessionOwned, LoginOwned, dbVars, mapVars, loopVars, reqVars, cliVars, procVars
  <2>3. LateInLogout'
    BY <1>20, ChatServiceAssumption DEF Idle, vars, LateInLogout, EntryOwned, LogoutOwned, dbVars, mapVars, loopVars, reqVars, cliVars, procVars
  <2>4. Agreed'
    BY <1>20, ChatServiceAssumption DEF Idle, vars, Agreed, BusyWith, IdleHasNoId, Busy, LateInLogin, LateInLogout, LoginHasEntry, dbVars, mapVars, loopVars, reqVars, cliVars, procVars
  <2> QED
    BY <2>1, <2>2, <2>3, <2>4 DEF OnlineInv
<1> QED
  BY <1>1, <1>2, <1>3, <1>4, <1>5, <1>6, <1>7, <1>8, <1>9, <1>10, <1>11, <1>12, <1>13,
     <1>14, <1>15, <1>16, <1>17, <1>18, <1>19, <1>20 DEF Next, LoopThread, Handle

(* If nobody shares an account, the database answers and the process lives,*)
(* User.state says online exactly when the map has the account, between    *)
(* two handlers that work on it.                                           *)
THEOREM StateFollowsMap ==
  ASSUME AccountsApart, MaxDbFaults = 0, MaxStops = 0
  PROVE  Spec => []DbAgreesWithMap
<1>1. TypeOK /\ RouteInv /\ OnlineInv /\ [Next]_vars => OnlineInv'
  BY OnlineNext
<1>2. OnlineInv => DbAgreesWithMap
  BY DEF OnlineInv, Agreed, DbAgreesWithMap
<1> QED
  BY <1>1, <1>2, OnlineInit, Belongs, PTL DEF Spec

-----------------------------------------------------------------------------
(* The client of the connection c has the account u and has logged in.     *)
ClientOf(c, u) == u \in Accounts[c] /\ session[c] # NoUser

(* Whatever waits for a reader waits where its reader is: an entry and a   *)
(* functor name a connection whose client has the account, and the rows of *)
(* the table and those a login has read are for the user they are kept for.*)
EntriesReach == \A u \in Users : userConnMap[u] # NoConn => ClientOf(userConnMap[u], u)

FunctorsReach ==
  \A t \in Threads : \A f \in Range(pending[t]) \cup Range(batch[t]) :
    LoopOf[f.conn] = t /\ ClientOf(f.conn, f.copy.to)

RowsAddressed == \A u \in Users : \A m \in Range(dbOffline[u]) : m.to = u

MailAddressed == \A t \in Threads : \A m \in Range(mail[t]) : m.to = id[t]

NewIsUnknown == \A c \in Conns : link[c] = "new" => session[c] = NoUser

AddressInv ==
  /\ EntriesReach
  /\ FunctorsReach
  /\ RowsAddressed
  /\ MailAddressed
  /\ NewIsUnknown

LEMMA AddressInit == Init => AddressInv
BY RangeEmpty DEF Init, AddressInv, EntriesReach, FunctorsReach, RowsAddressed,
                  MailAddressed, NewIsUnknown

(* What a send leaves in the queues: what was there, and its own functor.  *)
LEMMA SendQueues ==
  ASSUME LoopType, NEW t \in Threads, NEW c \in Conns, NEW m \in Copy, Send(t, c, m)
  PROVE  \A x \in Threads : \A f \in Range(pending'[x]) : 
           f \in Range(pending[x]) \/ (x = LoopOf[c] /\ f.conn = c /\ f.copy = m)
<1>1. CASE LoopOf[c] = t \/ link[c] = "down"
  BY <1>1 DEF Send
<1>2. CASE ~(LoopOf[c] = t \/ link[c] = "down")
  <2>1. PICK f \in Functor : f = [conn |-> c, copy |-> m]
    BY DEF Functor
  <2>2. pending' = [pending EXCEPT ![LoopOf[c]] = Append(pending[LoopOf[c]], f)]
    BY <1>2, <2>1 DEF Send
  <2>3. /\ Range(pending'[LoopOf[c]]) = Range(pending[LoopOf[c]]) \cup {f}
        /\ \A x \in Threads : x # LoopOf[c] => pending'[x] = pending[x]
    BY <2>1, <2>2, RangeAppend, ChatServiceAssumption DEF LoopType
  <2>4. f.conn = c /\ f.copy = m
    BY <2>1
  <2> QED
    BY <2>2, <2>3, <2>4
<1> QED
  BY <1>1, <1>2

(* Sending to a connection of the reader queues the copy there.            *)
LEMMA SendReaches ==
  ASSUME LoopType, FunctorsReach, UNCHANGED <<batch, session>>,
         NEW t \in Threads, NEW c \in Conns, NEW m \in Copy, ClientOf(c, m.to), Send(t, c, m)
  PROVE  FunctorsReach'
<1>1. \A x \in Threads : \A f \in Range(pending'[x]) :
        f \in Range(pending[x]) \/ (x = LoopOf[c] /\ f.conn = c /\ f.copy = m)
  BY SendQueues
<1> QED
  BY <1>1 DEF FunctorsReach, ClientOf

(* Running a functor leaves the others where they are.                     *)
LEMMA RunReaches ==
  ASSUME LoopType, FunctorsReach, NEW t \in Threads, RunFunctor(t)
  PROVE  FunctorsReach'
<1>1. /\ batch[t] \in Seq(Functor) /\ batch[t] # <<>> /\ UNCHANGED <<pending, session>>
      /\ batch'[t] = Tail(batch[t]) /\ \A x \in Threads : x # t => batch'[x] = batch[x]
  BY DEF RunFunctor, LoopType, cliVars
<1>2. Range(batch[t]) = {Head(batch[t])} \cup Range(batch'[t])
  BY <1>1, RangeHeadTail
<1>3. \A x \in Threads : Range(batch'[x]) \subseteq Range(batch[x])
  BY <1>1, <1>2
<1> QED
  BY <1>1, <1>3 DEF FunctorsReach, ClientOf

(* Mail that nobody touches stays with the login that has read it.         *)
LEMMA MailStays ==
  ASSUME MailAddressed, UNCHANGED mail, \A x \in Threads : mail[x] # <<>> => id'[x] = id[x]
  PROVE  MailAddressed'
BY RangeEmpty DEF MailAddressed

(* It stays so after every step, failed statements and restarts included.  *)
LEMMA AddressNext ==
  ASSUME TypeOK, OwnedInv, EmptyHands, AddressInv, [Next]_vars
  PROVE  AddressInv'
<1> USE DEF LoopSteps, LoginSteps, Goto
<1>0. /\ DbType /\ MapType /\ LoopType /\ RequestType /\ MailType /\ ClientType /\ HistoryType
      /\ EntriesReach /\ FunctorsReach /\ RowsAddressed /\ MailAddressed /\ NewIsUnknown
      /\ ActiveOnOwnLoop /\ LoginOwned /\ SessionOwned /\ EmptyHands
  BY DEF TypeOK, OwnedInv, AddressInv
<1> USE <1>0 DEF DbType, MapType, LoopType, RequestType, MailType, ClientType, HistoryType
<1>1. ASSUME NEW t \in Threads, Poll(t) PROVE AddressInv'
  <2>1. EntriesReach'
    BY <1>1, ChatServiceAssumption DEF Poll, Ready, EntriesReach, ClientOf, dbVars, mapVars, loopVars, reqVars, cliVars, histVars, procVars
  <2>2. FunctorsReach'
    BY <1>1, ChatServiceAssumption DEF Poll, Ready, FunctorsReach, ClientOf, dbVars, mapVars, loopVars, reqVars, cliVars, histVars, procVars
  <2>3. RowsAddressed'
    BY <1>1, ChatServiceAssumption DEF Poll, Ready, RowsAddressed, dbVars, mapVars, loopVars, reqVars, cliVars, histVars, procVars
  <2>4. MailAddressed'
    BY <1>1, ChatServiceAssumption DEF Poll, Ready, MailAddressed, EmptyHands, dbVars, mapVars, loopVars, reqVars, cliVars, histVars, procVars
  <2>5. NewIsUnknown'
    BY <1>1, ChatServiceAssumption DEF Poll, Ready, NewIsUnknown, dbVars, mapVars, loopVars, reqVars, cliVars, histVars, procVars
  <2> QED
    BY <2>1, <2>2, <2>3, <2>4, <2>5 DEF AddressInv
<1>2. ASSUME NEW t \in Threads, SwapFunctors(t) PROVE AddressInv'
  <2>1. EntriesReach'
    BY <1>2, ChatServiceAssumption DEF SwapFunctors, EntriesReach, ClientOf, dbVars, mapVars, loopVars, reqVars, cliVars, histVars, procVars
  <2>2. FunctorsReach'
    <3>1. /\ batch[t] = <<>> /\ batch' = [batch EXCEPT ![t] = pending[t]] /\ UNCHANGED session
          /\ pending' = [pending EXCEPT ![t] = <<>>]
      BY <1>2 DEF SwapFunctors, EmptyHands, cliVars
    <3>2. \A x \in Threads : Range(pending'[x]) \cup Range(batch'[x]) = Range(pending[x]) \cup Range(batch[x])
      BY <3>1, RangeEmpty
    <3> QED
      BY <3>1, <3>2 DEF FunctorsReach, ClientOf
  <2>3. RowsAddressed'
    BY <1>2, ChatServiceAssumption DEF SwapFunctors, RowsAddressed, dbVars, mapVars, loopVars, reqVars, cliVars, histVars, procVars
  <2>4. MailAddressed'
    BY <1>2, ChatServiceAssumption DEF SwapFunctors, MailAddressed, EmptyHands, dbVars, mapVars, loopVars, reqVars, cliVars, histVars, procVars
  <2>5. NewIsUnknown'
    BY <1>2, ChatServiceAssumption DEF SwapFunctors, NewIsUnknown, dbVars, mapVars, loopVars, reqVars, cliVars, histVars, procVars
  <2> QED
    BY <2>1, <2>2, <2>3, <2>4, <2>5 DEF AddressInv
<1>3. ASSUME NEW t \in Threads, RunFunctor(t) PROVE AddressInv'
  <2>1. EntriesReach'
    BY <1>3, ChatServiceAssumption DEF RunFunctor, EntriesReach, ClientOf, dbVars, mapVars, loopVars, reqVars, cliVars, histVars, procVars
  <2>2. FunctorsReach'
    BY <1>3, RunReaches
  <2>3. RowsAddressed'
    BY <1>3, ChatServiceAssumption DEF RunFunctor, RowsAddressed, dbVars, mapVars, loopVars, reqVars, cliVars, histVars, procVars
  <2>4. MailAddressed'
    BY <1>3, ChatServiceAssumption DEF RunFunctor, MailAddressed, EmptyHands, dbVars, mapVars, loopVars, reqVars, cliVars, histVars, procVars
  <2>5. NewIsUnknown'
    BY <1>3, ChatServiceAssumption DEF RunFunctor, NewIsUnknown, dbVars, mapVars, loopVars, reqVars, cliVars, histVars, procVars
  <2> QED
    BY <2>1, <2>2, <2>3, <2>4, <2>5 DEF AddressInv
<1>4. ASSUME NEW t \in Threads, NEW c \in Conns, NEW u \in Users, LoginGranted(t, c, u) PROVE AddressInv'
  <2>1. /\ UNCHANGED <<userConnMap, pending, batch, mail, dbOffline, link>> /\ link[c] # "new"
        /\ id' = [id EXCEPT ![t] = u] /\ session' = [session EXCEPT ![c] = u] /\ pc[t] = "dispatch"
    BY <1>4 DEF LoginGranted, Take, dbVars, mapVars
  <2>2. \A d \in Conns : session[d] # NoUser => session'[d] # NoUser
    BY <2>1, ChatServiceAssumption
  <2>3. \A x \in Threads : \A f \in Range(pending[x]) \cup Range(batch[x]) : f.conn \in Conns
    BY QueueType
  <2>4. EntriesReach' /\ FunctorsReach'
    BY <2>1, <2>2, <2>3 DEF EntriesReach, FunctorsReach, ClientOf
  <2>5. RowsAddressed' /\ NewIsUnknown'
    BY <2>1 DEF RowsAddressed, NewIsUnknown
  <2>6. MailAddressed'
    BY <2>1, MailStays DEF EmptyHands
  <2> QED
    BY <2>4, <2>5, <2>6 DEF AddressInv
<1>5. ASSUME NEW t \in Threads, NEW c \in Conns, NEW u \in Users, LoginRefused(t, c, u) PROVE AddressInv'
  <2>1. EntriesReach'
    BY <1>5, ChatServiceAssumption DEF LoginRefused, Take, EntriesReach, ClientOf, dbVars, mapVars, loopVars, reqVars, cliVars, histVars, procVars
  <2>2. FunctorsReach'
    BY <1>5, ChatServiceAssumption DEF LoginRefused, Take, FunctorsReach, ClientOf, dbVars, mapVars, loopVars, reqVars, cliVars, histVars, procVars
  <2>3. RowsAddressed'
    BY <1>5, ChatServiceAssumption DEF LoginRefused, Take, RowsAddressed, dbVars, mapVars, loopVars, reqVars, cliVars, histVars, procVars
  <2>4. MailAddressed'
    BY <1>5, ChatServiceAssumption DEF LoginRefused, Take, MailAddressed, EmptyHands, dbVars, mapVars, loopVars, reqVars, cliVars, histVars, procVars
  <2>5. NewIsUnknown'
    BY <1>5, ChatServiceAssumption DEF LoginRefused, Take, NewIsUnknown, dbVars, mapVars, loopVars, reqVars, cliVars, histVars, procVars
  <2> QED
    BY <2>1, <2>2, <2>3, <2>4, <2>5 DEF AddressInv
<1>6. ASSUME NEW t \in Threads, LoginInsert(t) PROVE AddressInv'
  <2>1. EntriesReach'
    <3>1. UNCHANGED session /\ id[t] = session[cur[t]] /\ id[t] \in Users /\ cur[t] \in Conns
      BY <1>6 DEF LoginInsert, LoginOwned, cliVars
    <3>3. ClientOf(cur[t], id[t])
      BY <3>1, ChatServiceAssumption DEF SessionOwned, ClientOf
    <3>2. \A v \in Users : userConnMap'[v] = userConnMap[v] \/ (v = id[t] /\ userConnMap'[v] = cur[t])
      BY <1>6 DEF LoginInsert
    <3> QED
      BY <3>1, <3>2, <3>3 DEF EntriesReach, ClientOf
  <2>2. FunctorsReach'
    BY <1>6, ChatServiceAssumption DEF LoginInsert, FunctorsReach, ClientOf, dbVars, mapVars, loopVars, reqVars, cliVars, histVars, procVars
  <2>3. RowsAddressed'
    BY <1>6, ChatServiceAssumption DEF LoginInsert, RowsAddressed, dbVars, mapVars, loopVars, reqVars, cliVars, histVars, procVars
  <2>4. MailAddressed'
    BY <1>6, ChatServiceAssumption DEF LoginInsert, MailAddressed, EmptyHands, dbVars, mapVars, loopVars, reqVars, cliVars, histVars, procVars
  <2>5. NewIsUnknown'
    BY <1>6, ChatServiceAssumption DEF LoginInsert, NewIsUnknown, dbVars, mapVars, loopVars, reqVars, cliVars, histVars, procVars
  <2> QED
    BY <2>1, <2>2, <2>3, <2>4, <2>5 DEF AddressInv
<1>7. ASSUME NEW t \in Threads, LoginSetOnline(t) PROVE AddressInv'
  <2>1. EntriesReach'
    BY <1>7, ChatServiceAssumption DEF LoginSetOnline, UpdateState, EntriesReach, ClientOf, dbVars, mapVars, loopVars, reqVars, cliVars, histVars, procVars
  <2>2. FunctorsReach'
    BY <1>7, ChatServiceAssumption DEF LoginSetOnline, UpdateState, FunctorsReach, ClientOf, dbVars, mapVars, loopVars, reqVars, cliVars, histVars, procVars
  <2>3. RowsAddressed'
    BY <1>7, ChatServiceAssumption DEF LoginSetOnline, UpdateState, RowsAddressed, dbVars, mapVars, loopVars, reqVars, cliVars, histVars, procVars
  <2>4. MailAddressed'
    BY <1>7, ChatServiceAssumption DEF LoginSetOnline, UpdateState, MailAddressed, EmptyHands, dbVars, mapVars, loopVars, reqVars, cliVars, histVars, procVars
  <2>5. NewIsUnknown'
    BY <1>7, ChatServiceAssumption DEF LoginSetOnline, UpdateState, NewIsUnknown, dbVars, mapVars, loopVars, reqVars, cliVars, histVars, procVars
  <2> QED
    BY <2>1, <2>2, <2>3, <2>4, <2>5 DEF AddressInv
<1>8. ASSUME NEW t \in Threads, LoginFetch(t) PROVE AddressInv'
  <2>1. EntriesReach'
    BY <1>8, ChatServiceAssumption DEF LoginFetch, QueryOffline, EntriesReach, ClientOf, dbVars, mapVars, loopVars, reqVars, cliVars, histVars, procVars
  <2>2. FunctorsReach'
    BY <1>8, ChatServiceAssumption DEF LoginFetch, QueryOffline, FunctorsReach, ClientOf, dbVars, mapVars, loopVars, reqVars, cliVars, histVars, procVars
  <2>3. RowsAddressed'
    BY <1>8, ChatServiceAssumption DEF LoginFetch, QueryOffline, RowsAddressed, dbVars, mapVars, loopVars, reqVars, cliVars, histVars, procVars
  <2>4. MailAddressed'
    <3>0. id[t] \in Users /\ UNCHANGED id /\ mail \in [Threads -> Seq(Copy)]
      BY <1>8 DEF LoginFetch
    <3>1. \/ mail'[t] = dbOffline[id[t]]
          \/ \E k \in 0..Len(dbOffline[id[t]]) : mail'[t] = SubSeq(dbOffline[id[t]], 1, k)
      BY <1>8, <3>0 DEF LoginFetch, QueryOffline
    <3>b. \A x \in Threads : x # t => mail'[x] = mail[x]
      BY <1>8, <3>0 DEF LoginFetch, QueryOffline
    <3>a. ASSUME NEW k \in 0..Len(dbOffline[id[t]])
          PROVE  Range(SubSeq(dbOffline[id[t]], 1, k)) \subseteq Range(dbOffline[id[t]])
      <4>1. dbOffline[id[t]] \in Seq(Copy)
        BY <3>0
      <4>2. \A i \in 1..k : i \in DOMAIN dbOffline[id[t]]
                             /\ SubSeq(dbOffline[id[t]], 1, k)[i] = dbOffline[id[t]][i]
        BY <4>1
      <4>3. DOMAIN SubSeq(dbOffline[id[t]], 1, k) = 1..k
        BY <4>1
      <4> QED
        BY <4>2, <4>3 DEF Range
    <3>2. \A m \in Range(mail'[t]) : m.to = id[t]
      BY <3>0, <3>1, <3>a DEF RowsAddressed
    <3>3. \A x \in Threads : x # t => \A m \in Range(mail'[x]) : m.to = id[x]
      BY <3>b DEF MailAddressed
    <3> QED
      BY <3>0, <3>2, <3>3, Zenon DEF MailAddressed
  <2>5. NewIsUnknown'
    BY <1>8, ChatServiceAssumption DEF LoginFetch, QueryOffline, NewIsUnknown, dbVars, mapVars, loopVars, reqVars, cliVars, histVars, procVars
  <2> QED
    BY <2>1, <2>2, <2>3, <2>4, <2>5 DEF AddressInv
<1>9. ASSUME NEW t \in Threads, LoginRemove(t) PROVE AddressInv'
  <2>1. EntriesReach'
    BY <1>9, ChatServiceAssumption DEF LoginRemove, RemoveOffline, EntriesReach, ClientOf, dbVars, mapVars, loopVars, reqVars, cliVars, histVars, procVars
  <2>2. FunctorsReach'
    BY <1>9, ChatServiceAssumption DEF LoginRemove, RemoveOffline, FunctorsReach, ClientOf, dbVars, mapVars, loopVars, reqVars, cliVars, histVars, procVars
  <2>3. RowsAddressed'
    <3>1. \A v \in Users : dbOffline'[v] = dbOffline[v] \/ dbOffline'[v] = <<>>
      BY <1>9 DEF LoginRemove, RemoveOffline
    <3> QED
      BY <3>1, RangeEmpty DEF RowsAddressed
  <2>4. MailAddressed'
    BY <1>9, ChatServiceAssumption DEF LoginRemove, RemoveOffline, MailAddressed, EmptyHands, dbVars, mapVars, loopVars, reqVars, cliVars, histVars, procVars
  <2>5. NewIsUnknown'
    BY <1>9, ChatServiceAssumption DEF LoginRemove, RemoveOffline, NewIsUnknown, dbVars, mapVars, loopVars, reqVars, cliVars, histVars, procVars
  <2> QED
    BY <2>1, <2>2, <2>3, <2>4, <2>5 DEF AddressInv
<1>10. ASSUME NEW t \in Threads, LoginReply(t) PROVE AddressInv'
  <2>1. EntriesReach'
    BY <1>10, ChatServiceAssumption DEF LoginReply, Return, EntriesReach, ClientOf, dbVars, mapVars, loopVars, reqVars, cliVars, histVars, procVars
  <2>2. FunctorsReach'
    BY <1>10, ChatServiceAssumption DEF LoginReply, Return, FunctorsReach, ClientOf, dbVars, mapVars, loopVars, reqVars, cliVars, histVars, procVars
  <2>3. RowsAddressed'
    BY <1>10, ChatServiceAssumption DEF LoginReply, Return, RowsAddressed, dbVars, mapVars, loopVars, reqVars, cliVars, histVars, procVars
  <2>4. MailAddressed'
    <3>1. /\ mail'[t] = <<>> /\ \A x \in Threads : x # t => mail'[x] = mail[x] /\ id'[x] = id[x]
      BY <1>10 DEF LoginReply, Return
    <3> QED
      BY <3>1, RangeEmpty DEF MailAddressed
  <2>5. NewIsUnknown'
    BY <1>10, ChatServiceAssumption DEF LoginReply, Return, NewIsUnknown, dbVars, mapVars, loopVars, reqVars, cliVars, histVars, procVars
  <2> QED
    BY <2>1, <2>2, <2>3, <2>4, <2>5 DEF AddressInv
<1>11. ASSUME NEW t \in Threads, NEW c \in Conns, NEW u \in Users, OneChat(t, c, u) PROVE AddressInv'
  <2>1. EntriesReach'
    BY <1>11, ChatServiceAssumption DEF OneChat, Accept, Take, EntriesReach, ClientOf, dbVars, mapVars, loopVars, reqVars, cliVars, histVars, procVars
  <2>2. FunctorsReach'
    BY <1>11, ChatServiceAssumption DEF OneChat, Accept, Take, FunctorsReach, ClientOf, dbVars, mapVars, loopVars, reqVars, cliVars, histVars, procVars
  <2>3. RowsAddressed'
    BY <1>11, ChatServiceAssumption DEF OneChat, Accept, Take, RowsAddressed, dbVars, mapVars, loopVars, reqVars, cliVars, histVars, procVars
  <2>4. MailAddressed'
    BY <1>11, ChatServiceAssumption DEF OneChat, Accept, Take, MailAddressed, EmptyHands, dbVars, mapVars, loopVars, reqVars, cliVars, histVars, procVars
  <2>5. NewIsUnknown'
    BY <1>11, ChatServiceAssumption DEF OneChat, Accept, Take, NewIsUnknown, dbVars, mapVars, loopVars, reqVars, cliVars, histVars, procVars
  <2> QED
    BY <2>1, <2>2, <2>3, <2>4, <2>5 DEF AddressInv
<1>12. ASSUME NEW t \in Threads, NEW c \in Conns, GroupChat(t, c) PROVE AddressInv'
  <2>1. EntriesReach'
    BY <1>12, ChatServiceAssumption DEF GroupChat, QueryGroupUsers, Accept, Take, EntriesReach, ClientOf, dbVars, mapVars, loopVars, reqVars, cliVars, histVars, procVars
  <2>2. FunctorsReach'
    BY <1>12, ChatServiceAssumption DEF GroupChat, QueryGroupUsers, Accept, Take, FunctorsReach, ClientOf, dbVars, mapVars, loopVars, reqVars, cliVars, histVars, procVars
  <2>3. RowsAddressed'
    BY <1>12, ChatServiceAssumption DEF GroupChat, QueryGroupUsers, Accept, Take, RowsAddressed, dbVars, mapVars, loopVars, reqVars, cliVars, histVars, procVars
  <2>4. MailAddressed'
    BY <1>12, ChatServiceAssumption DEF GroupChat, QueryGroupUsers, Accept, Take, MailAddressed, EmptyHands, dbVars, mapVars, loopVars, reqVars, cliVars, histVars, procVars
  <2>5. NewIsUnknown'
    BY <1>12, ChatServiceAssumption DEF GroupChat, QueryGroupUsers, Accept, Take, NewIsUnknown, dbVars, mapVars, loopVars, reqVars, cliVars, histVars, procVars
  <2> QED
    BY <2>1, <2>2, <2>3, <2>4, <2>5 DEF AddressInv
<1>13. ASSUME NEW t \in Threads, Deliver(t) PROVE AddressInv'
  <2>1. EntriesReach'
    BY <1>13, ChatServiceAssumption DEF Deliver, InsertOffline, Send, EntriesReach, ClientOf, dbVars, mapVars, loopVars, reqVars, cliVars, histVars, procVars
  <2>2. FunctorsReach'
    <3>1. PICK k \in outbox[t] :
            \/ userConnMap[k.to] = NoConn /\ InsertOffline(k) /\ UNCHANGED <<pending, recv>>
            \/ userConnMap[k.to] # NoConn /\ Send(t, userConnMap[k.to], k) /\ UNCHANGED dbOffline
      BY <1>13 DEF Deliver
    <3>2. k \in Copy /\ k.to \in Users /\ UNCHANGED <<batch, session, link>>
      BY <1>13, <3>1 DEF Deliver, Copy, cliVars
    <3>3. userConnMap[k.to] # NoConn =>
            userConnMap[k.to] \in Conns /\ ClientOf(userConnMap[k.to], k.to)
      BY <3>2 DEF EntriesReach, ClientOf
    <3>4. CASE userConnMap[k.to] = NoConn
      BY <3>1, <3>2, <3>4 DEF FunctorsReach, ClientOf
    <3>5. CASE userConnMap[k.to] # NoConn
      BY <3>1, <3>2, <3>3, <3>5, SendReaches
    <3> QED
      BY <3>4, <3>5
  <2>3. RowsAddressed'
    <3>1. PICK k \in outbox[t] :
            \/ userConnMap[k.to] = NoConn /\ InsertOffline(k) /\ UNCHANGED <<pending, recv>>
            \/ userConnMap[k.to] # NoConn /\ Send(t, userConnMap[k.to], k) /\ UNCHANGED dbOffline
      BY <1>13 DEF Deliver
    <3>2. k \in Copy /\ k.to \in Users /\ UNCHANGED <<batch, session, link>>
      BY <1>13, <3>1 DEF Deliver, Copy, cliVars
    <3>3. userConnMap[k.to] # NoConn =>
            userConnMap[k.to] \in Conns /\ ClientOf(userConnMap[k.to], k.to)
      BY <3>2 DEF EntriesReach, ClientOf
    <3>4. CASE UNCHANGED dbOffline
      BY <3>4 DEF RowsAddressed
    <3>5. CASE dbOffline' = [dbOffline EXCEPT ![k.to] = Append(dbOffline[k.to], k)]
      <4>1. /\ Range(dbOffline'[k.to]) = Range(dbOffline[k.to]) \cup {k}
            /\ \A v \in Users : v # k.to => dbOffline'[v] = dbOffline[v]
        BY <3>2, <3>5, RangeAppend
      <4> QED
        BY <4>1 DEF RowsAddressed
    <3> QED
      BY <3>1, <3>4, <3>5 DEF InsertOffline
  <2>4. MailAddressed'
    BY <1>13, ChatServiceAssumption DEF Deliver, InsertOffline, Send, MailAddressed, EmptyHands, dbVars, mapVars, loopVars, reqVars, cliVars, histVars, procVars
  <2>5. NewIsUnknown'
    BY <1>13, ChatServiceAssumption DEF Deliver, InsertOffline, Send, NewIsUnknown, dbVars, mapVars, loopVars, reqVars, cliVars, histVars, procVars
  <2> QED
    BY <2>1, <2>2, <2>3, <2>4, <2>5 DEF AddressInv
<1>14. ASSUME NEW t \in Threads, NEW c \in Conns, Logout(t, c) PROVE AddressInv'
  <2>1. EntriesReach'
    BY <1>14, ChatServiceAssumption DEF Logout, EraseEntry, Take, EntriesReach, ClientOf, dbVars, mapVars, loopVars, reqVars, cliVars, histVars, procVars
  <2>2. FunctorsReach'
    BY <1>14, ChatServiceAssumption DEF Logout, EraseEntry, Take, FunctorsReach, ClientOf, dbVars, mapVars, loopVars, reqVars, cliVars, histVars, procVars
  <2>3. RowsAddressed'
    BY <1>14, ChatServiceAssumption DEF Logout, EraseEntry, Take, RowsAddressed, dbVars, mapVars, loopVars, reqVars, cliVars, histVars, procVars
  <2>4. MailAddressed'
    <3>1. UNCHANGED mail /\ mail[t] = <<>> /\ \A x \in Threads : x # t => id'[x] = id[x]
      BY <1>14 DEF Logout, Take, EmptyHands
    <3> QED
      BY <3>1, MailStays
  <2>5. NewIsUnknown'
    BY <1>14, ChatServiceAssumption DEF Logout, EraseEntry, Take, NewIsUnknown, dbVars, mapVars, loopVars, reqVars, cliVars, histVars, procVars
  <2> QED
    BY <2>1, <2>2, <2>3, <2>4, <2>5 DEF AddressInv
<1>15. ASSUME NEW t \in Threads, NEW c \in Conns, CloseException(t, c) PROVE AddressInv'
  <2>1. EntriesReach'
    BY <1>15, ChatServiceAssumption DEF CloseException, EraseEntry, Take, EntriesReach, ClientOf, dbVars, mapVars, loopVars, reqVars, cliVars, histVars, procVars
  <2>2. FunctorsReach'
    BY <1>15, ChatServiceAssumption DEF CloseException, EraseEntry, Take, FunctorsReach, ClientOf, dbVars, mapVars, loopVars, reqVars, cliVars, histVars, procVars
  <2>3. RowsAddressed'
    BY <1>15, ChatServiceAssumption DEF CloseException, EraseEntry, Take, RowsAddressed, dbVars, mapVars, loopVars, reqVars, cliVars, histVars, procVars
  <2>4. MailAddressed'
    <3>1. UNCHANGED mail /\ mail[t] = <<>> /\ \A x \in Threads : x # t => id'[x] = id[x]
      BY <1>15 DEF CloseException, Take, EmptyHands
    <3> QED
      BY <3>1, MailStays
  <2>5. NewIsUnknown'
    BY <1>15, ChatServiceAssumption DEF CloseException, EraseEntry, Take, NewIsUnknown, dbVars, mapVars, loopVars, reqVars, cliVars, histVars, procVars
  <2> QED
    BY <2>1, <2>2, <2>3, <2>4, <2>5 DEF AddressInv
<1>16. ASSUME NEW t \in Threads, SetOffline(t) PROVE AddressInv'
  <2>1. EntriesReach'
    BY <1>16, ChatServiceAssumption DEF SetOffline, UpdateState, Return, EntriesReach, ClientOf, dbVars, mapVars, loopVars, reqVars, cliVars, histVars, procVars
  <2>2. FunctorsReach'
    BY <1>16, ChatServiceAssumption DEF SetOffline, UpdateState, Return, FunctorsReach, ClientOf, dbVars, mapVars, loopVars, reqVars, cliVars, histVars, procVars
  <2>3. RowsAddressed'
    BY <1>16, ChatServiceAssumption DEF SetOffline, UpdateState, Return, RowsAddressed, dbVars, mapVars, loopVars, reqVars, cliVars, histVars, procVars
  <2>4. MailAddressed'
    <3>1. UNCHANGED mail /\ mail[t] = <<>> /\ \A x \in Threads : x # t => id'[x] = id[x]
      BY <1>16 DEF SetOffline, Return, EmptyHands
    <3> QED
      BY <3>1, MailStays
  <2>5. NewIsUnknown'
    BY <1>16, ChatServiceAssumption DEF SetOffline, UpdateState, Return, NewIsUnknown, dbVars, mapVars, loopVars, reqVars, cliVars, histVars, procVars
  <2> QED
    BY <2>1, <2>2, <2>3, <2>4, <2>5 DEF AddressInv
<1>17. ASSUME NEW c \in Conns, Connect(c) \/ Quit(c) PROVE AddressInv'
  <2>1. EntriesReach'
    BY <1>17, ChatServiceAssumption DEF Connect, Quit, EntriesReach, ClientOf, dbVars, mapVars, loopVars, reqVars, cliVars, histVars, procVars
  <2>2. FunctorsReach'
    BY <1>17, ChatServiceAssumption DEF Connect, Quit, FunctorsReach, ClientOf, dbVars, mapVars, loopVars, reqVars, cliVars, histVars, procVars
  <2>3. RowsAddressed'
    BY <1>17, ChatServiceAssumption DEF Connect, Quit, RowsAddressed, dbVars, mapVars, loopVars, reqVars, cliVars, histVars, procVars
  <2>4. MailAddressed'
    BY <1>17, ChatServiceAssumption DEF Connect, Quit, MailAddressed, EmptyHands, dbVars, mapVars, loopVars, reqVars, cliVars, histVars, procVars
  <2>5. NewIsUnknown'
    BY <1>17, ChatServiceAssumption DEF Connect, Quit, NewIsUnknown, dbVars, mapVars, loopVars, reqVars, cliVars, histVars, procVars
  <2> QED
    BY <2>1, <2>2, <2>3, <2>4, <2>5 DEF AddressInv
<1>18. CASE Sigint \/ ResetState \/ Restart
  <2>1. EntriesReach'
    BY <1>18, ChatServiceAssumption DEF Sigint, ResetState, Restart, EntriesReach, ClientOf, dbVars, mapVars, loopVars, reqVars, cliVars, histVars, procVars
  <2>2. FunctorsReach'
    BY <1>18, ChatServiceAssumption DEF Sigint, ResetState, Restart, FunctorsReach, ClientOf, dbVars, mapVars, loopVars, reqVars, cliVars, histVars, procVars
  <2>3. RowsAddressed'
    BY <1>18, ChatServiceAssumption DEF Sigint, ResetState, Restart, RowsAddressed, dbVars, mapVars, loopVars, reqVars, cliVars, histVars, procVars
  <2>4. MailAddressed'
    BY <1>18, ChatServiceAssumption DEF Sigint, ResetState, Restart, MailAddressed, EmptyHands, dbVars, mapVars, loopVars, reqVars, cliVars, histVars, procVars
  <2>5. NewIsUnknown'
    BY <1>18, ChatServiceAssumption DEF Sigint, ResetState, Restart, NewIsUnknown, dbVars, mapVars, loopVars, reqVars, cliVars, histVars, procVars
  <2> QED
    BY <2>1, <2>2, <2>3, <2>4, <2>5 DEF AddressInv
<1>19. CASE Exit \/ Kill
  <2>1. EntriesReach'
    BY <1>19 DEF Exit, Kill, ProcessEnds, EntriesReach
  <2>2. FunctorsReach'
    <3>1. \A t \in Threads : pending'[t] = <<>> /\ batch'[t] = <<>>
      BY <1>19 DEF Exit, Kill, ProcessEnds
    <3>2. \A t \in Threads : Range(pending'[t]) \cup Range(batch'[t]) = {}
      BY <3>1, RangeEmpty
    <3> QED
      BY <3>2 DEF FunctorsReach
  <2>3. RowsAddressed'
    BY <1>19, ChatServiceAssumption DEF Exit, Kill, ProcessEnds, RowsAddressed, dbVars, mapVars, loopVars, reqVars, cliVars, histVars, procVars
  <2>4. MailAddressed'
    <3>1. \A t \in Threads : pc'[t] = "poll" /\ mail'[t] = <<>>
      BY <1>19 DEF Exit, Kill, ProcessEnds
    <3> QED
      BY <3>1, RangeEmpty DEF MailAddressed
  <2>5. NewIsUnknown'
    BY <1>19, ChatServiceAssumption DEF Exit, Kill, ProcessEnds, NewIsUnknown, dbVars, mapVars, loopVars, reqVars, cliVars, histVars, procVars
  <2> QED
    BY <2>1, <2>2, <2>3, <2>4, <2>5 DEF AddressInv
<1>20. CASE Idle \/ UNCHANGED vars
  <2>1. EntriesReach'
    BY <1>20, ChatServiceAssumption DEF Idle, vars, EntriesReach, ClientOf, dbVars, mapVars, loopVars, reqVars, cliVars, histVars, procVars
  <2>2. FunctorsReach'
    BY <1>20, ChatServiceAssumption DEF Idle, vars, FunctorsReach, ClientOf, dbVars, mapVars, loopVars, reqVars, cliVars, histVars, procVars
  <2>3. RowsAddressed'
    BY <1>20, ChatServiceAssumption DEF Idle, vars, RowsAddressed, dbVars, mapVars, loopVars, reqVars, cliVars, histVars, procVars
  <2>4. MailAddressed'
    BY <1>20, ChatServiceAssumption DEF Idle, vars, MailAddressed, EmptyHands, dbVars, mapVars, loopVars, reqVars, cliVars, histVars, procVars
  <2>5. NewIsUnknown'
    BY <1>20, ChatServiceAssumption DEF Idle, vars, NewIsUnknown, dbVars, mapVars, loopVars, reqVars, cliVars, histVars, procVars
  <2> QED
    BY <2>1, <2>2, <2>3, <2>4, <2>5 DEF AddressInv
<1> QED
  BY <1>1, <1>2, <1>3, <1>4, <1>5, <1>6, <1>7, <1>8, <1>9, <1>10, <1>11, <1>12, <1>13,
     <1>14, <1>15, <1>16, <1>17, <1>18, <1>19, <1>20 DEF Next, LoopThread, Handle

(* A client that has logged in stays one, and nobody comes back over a     *)
(* connection that has ended.                                              *)
LEMMA ClientsStay ==
  ASSUME TypeOK, [Next]_vars, NEW c \in Conns
  PROVE  /\ session[c] # NoUser => session'[c] # NoUser
         /\ link[c] \in {"gone", "down"} => link'[c] \in {"gone", "down"}
<1> USE DEF cliVars
<1>1. ASSUME NEW t \in Threads, LoopThread(t)
      PROVE  /\ UNCHANGED session \/ \E d \in Conns, u \in Users : LoginGranted(t, d, u)
             /\ UNCHANGED link \/ \E d \in Conns : CloseException(t, d)
  <2>1. CASE Poll(t) \/ SwapFunctors(t) \/ RunFunctor(t)
    BY <2>1 DEF Poll, SwapFunctors, RunFunctor
  <2>2. ASSUME NEW d \in Conns, NEW u \in Users,
               \/ LoginGranted(t, d, u) \/ LoginRefused(t, d, u) \/ OneChat(t, d, u)
        PROVE  /\ UNCHANGED session \/ LoginGranted(t, d, u)
               /\ UNCHANGED link
    BY <2>2 DEF LoginGranted, LoginRefused, OneChat, Accept
  <2>3. ASSUME NEW d \in Conns, GroupChat(t, d) \/ Logout(t, d) \/ CloseException(t, d)
        PROVE  UNCHANGED session /\ (UNCHANGED link \/ CloseException(t, d))
    BY <2>3 DEF GroupChat, Accept, Logout, CloseException
  <2>4. CASE LoginInsert(t) \/ LoginSetOnline(t) \/ LoginFetch(t) \/ LoginRemove(t)
    BY <2>4 DEF LoginInsert, LoginSetOnline, LoginFetch, LoginRemove
  <2>5. CASE LoginReply(t) \/ Deliver(t) \/ SetOffline(t)
    BY <2>5 DEF LoginReply, Deliver, SetOffline
  <2> QED
    BY <1>1, <2>1, <2>2, <2>3, <2>4, <2>5 DEF LoopThread, Handle
<1>2. ASSUME NEW d \in Conns, Connect(d) \/ Quit(d) PROVE UNCHANGED session
  BY <1>2 DEF Connect, Quit
<1>3. CASE \/ Sigint \/ ResetState \/ Exit \/ Kill \/ Restart \/ Idle \/ UNCHANGED vars
  <2>1. UNCHANGED session /\ (UNCHANGED link \/ ProcessEnds)
    BY <1>3 DEF Sigint, ResetState, Exit, Kill, ProcessEnds, Restart, Idle, vars
  <2> QED
    BY <2>1 DEF ProcessEnds, TypeOK, ClientType
<1>4. ASSUME NEW d \in Conns, \/ Connect(d) \/ Quit(d)
                              \/ \E t \in Threads : CloseException(t, d)
      PROVE  link[c] \in {"gone", "down"} => link'[c] \in {"gone", "down"}
  BY <1>4 DEF Connect, Quit, CloseException, TypeOK, ClientType
<1>5. ASSUME NEW t \in Threads, NEW d \in Conns, NEW u \in Users, LoginGranted(t, d, u)
      PROVE  session[c] # NoUser => session'[c] # NoUser
  BY <1>5, ChatServiceAssumption DEF LoginGranted, TypeOK, ClientType
<1> QED
  BY <1>1, <1>2, <1>3, <1>4, <1>5 DEF Next

(* While the process lives and the database answers, what is lost had no   *)
(* reader any more.                                                        *)
LEMMA LossNext ==
  ASSUME MaxDbFaults = 0, MaxStops = 0, TypeOK, OwnedInv, AddressInv, LossNeedsDeadPeer,
         server = "run", [Next]_vars
  PROVE  LossNeedsDeadPeer'
<1> DEFINE Dead(m) == \E c \in Conns : ClientOf(c, m.to) /\ link[c] \in {"gone", "down"}
<1>0. /\ ~Fails /\ ~Sigint /\ ~Kill /\ ~Exit /\ ~ResetState /\ ~Restart
      /\ LoopType /\ RequestType /\ MailType /\ ClientType /\ HistoryType
  BY DEF TypeOK, DbType, ProcessType, Fails, Sigint, Kill, Exit, ResetState, Restart
<1>1. \A c \in Conns : \A m : ClientOf(c, m.to) /\ link[c] # "up" => Dead(m)
  BY <1>0 DEF ClientType, ClientOf, AddressInv, NewIsUnknown
<1>2. ASSUME NEW t \in Threads, RunFunctor(t) PROVE \A m \in dropped' \ dropped : Dead(m)
  <2>1. /\ batch[t] \in Seq(Functor) /\ batch[t] # <<>>
        /\ Write(Head(batch[t]).conn, Head(batch[t]).copy)
    BY <1>0, <1>2 DEF RunFunctor, LoopType
  <2>2. PICK f \in Functor : f = Head(batch[t]) /\ f \in Range(batch[t])
    BY <2>1, RangeHeadTail
  <2>3. f.conn \in Conns /\ ClientOf(f.conn, f.copy.to)
    BY <2>2 DEF Functor, AddressInv, FunctorsReach
  <2> QED
    BY <1>1, <2>1, <2>2, <2>3 DEF Write
<1>3. ASSUME NEW t \in Threads, LoginReply(t) PROVE \A m \in dropped' \ dropped : Dead(m)
  <2>1. /\ cur[t] \in Conns /\ id[t] \in Users /\ id[t] = session[cur[t]]
        /\ UNCHANGED dropped \/ (link[cur[t]] # "up" /\ dropped' = dropped \cup Range(mail[t]))
    BY <1>0, <1>3 DEF LoginReply, LoginSteps, RequestType, OwnedInv, LoginOwned
  <2>2. ClientOf(cur[t], id[t])
    BY <2>1, ChatServiceAssumption DEF ClientOf, OwnedInv, SessionOwned
  <2> QED
    BY <1>1, <2>1, <2>2 DEF AddressInv, MailAddressed
<1>4. ASSUME NEW t \in Threads, Deliver(t) PROVE \A m \in dropped' \ dropped : Dead(m)
  <2>1. PICK k \in outbox[t] :
          \/ userConnMap[k.to] = NoConn /\ InsertOffline(k)
          \/ userConnMap[k.to] # NoConn /\ Send(t, userConnMap[k.to], k)
    BY <1>4 DEF Deliver
  <2>2. k.to \in Users
    BY <1>0 DEF MailType, Copy
  <2>3. CASE UNCHANGED dropped
    BY <2>3
  <2>4. CASE userConnMap[k.to] # NoConn /\ Write(userConnMap[k.to], k)
    <3>1. userConnMap[k.to] \in Conns /\ ClientOf(userConnMap[k.to], k.to)
      BY <2>2, <2>4 DEF TypeOK, MapType, AddressInv, EntriesReach
    <3> QED
      BY <1>1, <2>4, <3>1 DEF Write
  <2> QED
    BY <1>0, <2>1, <2>3, <2>4 DEF InsertOffline, Send
<1>5. UNCHANGED dropped \/ \E t \in Threads : RunFunctor(t) \/ LoginReply(t) \/ Deliver(t)
  BY <1>0 DEF Next, LoopThread, Handle, Poll, LoginGranted, LoginRefused, OneChat, GroupChat,
         Accept, Logout, CloseException, LoginInsert, LoginSetOnline, LoginFetch, LoginRemove,
         SetOffline, SwapFunctors, Connect, Quit, Idle, vars, histVars
<1>6. \A m \in dropped' : m \in dropped \/ Dead(m)
  BY <1>2, <1>3, <1>4, <1>5
<1> QED
  BY <1>6, ClientsStay DEF LossNeedsDeadPeer, ClientOf

(* A process that nobody stops runs for ever.                              *)
LEMMA RunsOn ==
  ASSUME MaxStops = 0, TypeOK, server = "run", [Next]_vars
  PROVE  server' = "run"
<1> USE DEF procVars
<1>1. ~Sigint /\ ~Kill /\ ~Exit /\ ~ResetState
  BY DEF TypeOK, ProcessType, Sigint, Kill, Exit, ResetState
<1>2. ASSUME NEW t \in Threads, LoopThread(t) PROVE UNCHANGED server
  <2>1. CASE Poll(t) \/ SwapFunctors(t) \/ RunFunctor(t)
    BY <2>1 DEF Poll, SwapFunctors, RunFunctor
  <2>2. ASSUME NEW c \in Conns, Handle(t, c) PROVE UNCHANGED server
    BY <2>2 DEF Handle, LoginGranted, LoginRefused, OneChat, GroupChat, Accept, Logout,
                CloseException
  <2>3. CASE LoginInsert(t) \/ LoginSetOnline(t) \/ LoginFetch(t) \/ LoginRemove(t)
    BY <2>3 DEF LoginInsert, LoginSetOnline, LoginFetch, LoginRemove
  <2>4. CASE LoginReply(t) \/ Deliver(t) \/ SetOffline(t)
    BY <2>4 DEF LoginReply, Deliver, SetOffline
  <2> QED
    BY <1>2, <2>1, <2>2, <2>3, <2>4 DEF LoopThread
<1>3. ASSUME NEW c \in Conns, Connect(c) \/ Quit(c) PROVE UNCHANGED server
  BY <1>3 DEF Connect, Quit
<1>4. CASE Restart \/ Idle \/ UNCHANGED vars
  BY <1>4 DEF Restart, Idle, vars
<1> QED
  BY <1>1, <1>2, <1>3, <1>4 DEF Next

(* If the database answers and the process lives, a copy is lost only when *)
(* a client of its reader has gone, whoever shares accounts.               *)
THEOREM LossHasDeadPeer ==
  ASSUME MaxDbFaults = 0, MaxStops = 0
  PROVE  Spec => []LossNeedsDeadPeer
<1>1. TypeOK /\ OwnedInv /\ [Next]_vars => OwnedInv'
  BY OwnedNext
<1>2. TypeOK /\ EmptyHands /\ [Next]_vars => EmptyHands'
  BY HandsNext
<1>3. TypeOK /\ OwnedInv /\ EmptyHands /\ AddressInv /\ [Next]_vars => AddressInv'
  BY AddressNext
<1>4. TypeOK /\ server = "run" /\ [Next]_vars => (server = "run")'
  BY RunsOn
<1>5. TypeOK /\ OwnedInv /\ AddressInv /\ LossNeedsDeadPeer /\ server = "run" /\ [Next]_vars
        => LossNeedsDeadPeer'
  BY LossNext
<1>6. Init => OwnedInv /\ EmptyHands /\ server = "run" /\ LossNeedsDeadPeer
  BY RouteInit, CleanInit DEF RouteInv, CleanInv, OwnedInv, Init, LossNeedsDeadPeer
<1> QED
  BY <1>1, <1>2, <1>3, <1>4, <1>5, <1>6, AddressInit, TypeCorrect, PTL DEF Spec

-----------------------------------------------------------------------------
(* A functor that waits for a connection finds the client it was queued    *)
(* for: one that has logged out is not handled again before the loop has   *)
(* run what was queued.                                                    *)
FunctorsAddressed ==
  \A t \in Threads : \A f \in Range(pending[t]) \cup Range(batch[t]) :
    LoopOf[f.conn] = t /\ session[f.conn] = f.copy.to

BatchRuns == \A t \in Threads : batch[t] # <<>> => pc[t] = "functors"

MenuIsHandled ==
  \A t \in Threads : \A f \in Range(pending[t]) :
    phase[f.conn] = "menu" => pc[t] \notin {"poll", "functors"} /\ f.conn \notin active[t]

PushInv ==
  /\ FunctorsAddressed
  /\ BatchRuns
  /\ MenuIsHandled

LEMMA PushInit == Init => PushInv
BY RangeEmpty DEF Init, PushInv, FunctorsAddressed, BatchRuns, MenuIsHandled

(* Running a functor leaves the others where they are.                     *)
LEMMA RunAddressed ==
  ASSUME LoopType, FunctorsAddressed, NEW t \in Threads, RunFunctor(t)
  PROVE  FunctorsAddressed'
<1>1. /\ batch[t] \in Seq(Functor) /\ batch[t] # <<>> /\ UNCHANGED <<pending, session>>
      /\ batch'[t] = Tail(batch[t]) /\ \A x \in Threads : x # t => batch'[x] = batch[x]
  BY DEF RunFunctor, LoopType, cliVars
<1>2. Range(batch[t]) = {Head(batch[t])} \cup Range(batch'[t])
  BY <1>1, RangeHeadTail
<1>3. \A x \in Threads : Range(batch'[x]) \subseteq Range(batch[x])
  BY <1>1, <1>2
<1> QED
  BY <1>1, <1>3 DEF FunctorsAddressed

LEMMA PushNext ==
  ASSUME MissedAck = FALSE, TypeOK, SessionInv, PushInv, [Next]_vars
  PROVE  PushInv'
<1> USE DEF LoopSteps, LoginSteps, Goto
<1>0. /\ MapType /\ LoopType /\ RequestType /\ MailType /\ ClientType
      /\ FunctorsAddressed /\ BatchRuns /\ MenuIsHandled
      /\ LoginServesItsClient /\ ActiveOnOwnLoop /\ EntryHasReason /\ MapPointsAtLiveSession
  BY DEF TypeOK, SessionInv, PushInv
<1> USE <1>0 DEF MapType, LoopType, RequestType, ClientType
<1>1. ASSUME NEW t \in Threads, Poll(t) PROVE PushInv'
  <2>1. FunctorsAddressed'
    BY <1>1, ChatServiceAssumption, RangeEmpty DEF Poll, Ready, FunctorsAddressed, dbVars, mapVars, loopVars, reqVars, cliVars
  <2>2. BatchRuns'
    BY <1>1, ChatServiceAssumption, RangeEmpty DEF Poll, Ready, BatchRuns, dbVars, mapVars, loopVars, reqVars, cliVars
  <2>3. MenuIsHandled'
    BY <1>1, ChatServiceAssumption, RangeEmpty DEF Poll, Ready, MenuIsHandled, dbVars, mapVars, loopVars, reqVars, cliVars
  <2> QED
    BY <2>1, <2>2, <2>3 DEF PushInv
<1>2. ASSUME NEW t \in Threads, SwapFunctors(t) PROVE PushInv'
  <2>1. FunctorsAddressed'
    BY <1>2, ChatServiceAssumption, RangeEmpty DEF SwapFunctors, FunctorsAddressed, dbVars, mapVars, loopVars, reqVars, cliVars
  <2>2. BatchRuns'
    BY <1>2, ChatServiceAssumption, RangeEmpty DEF SwapFunctors, BatchRuns, dbVars, mapVars, loopVars, reqVars, cliVars
  <2>3. MenuIsHandled'
    BY <1>2, ChatServiceAssumption, RangeEmpty DEF SwapFunctors, MenuIsHandled, dbVars, mapVars, loopVars, reqVars, cliVars
  <2> QED
    BY <2>1, <2>2, <2>3 DEF PushInv
<1>3. ASSUME NEW t \in Threads, RunFunctor(t) PROVE PushInv'
  <2>1. FunctorsAddressed'
    BY <1>3, RunAddressed
  <2>2. BatchRuns'
    BY <1>3, ChatServiceAssumption, RangeEmpty DEF RunFunctor, BatchRuns, dbVars, mapVars, loopVars, reqVars, cliVars
  <2>3. MenuIsHandled'
    BY <1>3, ChatServiceAssumption, RangeEmpty DEF RunFunctor, MenuIsHandled, dbVars, mapVars, loopVars, reqVars, cliVars
  <2> QED
    BY <2>1, <2>2, <2>3 DEF PushInv
<1>4. ASSUME NEW t \in Threads, NEW c \in Conns, NEW u \in Users, LoginGranted(t, c, u) PROVE PushInv'
  <2>1. FunctorsAddressed'
    <3>1. /\ LoopOf[c] = t /\ pc[t] = "dispatch" /\ c \in active[t] /\ phase[c] = "menu"
          /\ UNCHANGED <<pending, batch>> /\ \A d \in Conns : d # c => session'[d] = session[d]
      BY <1>4 DEF LoginGranted, Take, ActiveOnOwnLoop
    <3>2. \A x \in Threads : \A f \in Range(pending[x]) \cup Range(batch[x]) : f.conn \in Conns
      BY QueueType
    <3>3. batch[t] = <<>> /\ Range(batch[t]) = {}
      BY <3>1, RangeEmpty DEF BatchRuns
    <3>4. \A x \in Threads : \A f \in Range(pending[x]) \cup Range(batch[x]) : f.conn # c
      BY <3>1, <3>3 DEF FunctorsAddressed, MenuIsHandled
    <3> QED
      BY <3>1, <3>2, <3>4 DEF FunctorsAddressed
  <2>2. BatchRuns'
    BY <1>4, ChatServiceAssumption, RangeEmpty DEF LoginGranted, Take, BatchRuns, dbVars, mapVars, loopVars, reqVars, cliVars
  <2>3. MenuIsHandled'
    BY <1>4, ChatServiceAssumption, RangeEmpty DEF LoginGranted, Take, MenuIsHandled, dbVars, mapVars, loopVars, reqVars, cliVars
  <2> QED
    BY <2>1, <2>2, <2>3 DEF PushInv
<1>5. ASSUME NEW t \in Threads, NEW c \in Conns, NEW u \in Users, LoginRefused(t, c, u) PROVE PushInv'
  <2>1. FunctorsAddressed'
    BY <1>5, ChatServiceAssumption, RangeEmpty DEF LoginRefused, Take, FunctorsAddressed, dbVars, mapVars, loopVars, reqVars, cliVars
  <2>2. BatchRuns'
    BY <1>5, ChatServiceAssumption, RangeEmpty DEF LoginRefused, Take, BatchRuns, dbVars, mapVars, loopVars, reqVars, cliVars
  <2>3. MenuIsHandled'
    BY <1>5, ChatServiceAssumption, RangeEmpty DEF LoginRefused, Take, MenuIsHandled, dbVars, mapVars, loopVars, reqVars, cliVars
  <2> QED
    BY <2>1, <2>2, <2>3 DEF PushInv
<1>6. ASSUME NEW t \in Threads, LoginInsert(t) PROVE PushInv'
  <2>1. FunctorsAddressed'
    BY <1>6, ChatServiceAssumption, RangeEmpty DEF LoginInsert, FunctorsAddressed, dbVars, mapVars, loopVars, reqVars, cliVars
  <2>2. BatchRuns'
    BY <1>6, ChatServiceAssumption, RangeEmpty DEF LoginInsert, BatchRuns, dbVars, mapVars, loopVars, reqVars, cliVars
  <2>3. MenuIsHandled'
    BY <1>6, ChatServiceAssumption, RangeEmpty DEF LoginInsert, MenuIsHandled, dbVars, mapVars, loopVars, reqVars, cliVars
  <2> QED
    BY <2>1, <2>2, <2>3 DEF PushInv
<1>7. ASSUME NEW t \in Threads, LoginSetOnline(t) PROVE PushInv'
  <2>1. FunctorsAddressed'
    BY <1>7, ChatServiceAssumption, RangeEmpty DEF LoginSetOnline, UpdateState, FunctorsAddressed, dbVars, mapVars, loopVars, reqVars, cliVars
  <2>2. BatchRuns'
    BY <1>7, ChatServiceAssumption, RangeEmpty DEF LoginSetOnline, UpdateState, BatchRuns, dbVars, mapVars, loopVars, reqVars, cliVars
  <2>3. MenuIsHandled'
    BY <1>7, ChatServiceAssumption, RangeEmpty DEF LoginSetOnline, UpdateState, MenuIsHandled, dbVars, mapVars, loopVars, reqVars, cliVars
  <2> QED
    BY <2>1, <2>2, <2>3 DEF PushInv
<1>8. ASSUME NEW t \in Threads, LoginFetch(t) PROVE PushInv'
  <2>1. FunctorsAddressed'
    BY <1>8, ChatServiceAssumption, RangeEmpty DEF LoginFetch, QueryOffline, FunctorsAddressed, dbVars, mapVars, loopVars, reqVars, cliVars
  <2>2. BatchRuns'
    BY <1>8, ChatServiceAssumption, RangeEmpty DEF LoginFetch, QueryOffline, BatchRuns, dbVars, mapVars, loopVars, reqVars, cliVars
  <2>3. MenuIsHandled'
    BY <1>8, ChatServiceAssumption, RangeEmpty DEF LoginFetch, QueryOffline, MenuIsHandled, dbVars, mapVars, loopVars, reqVars, cliVars
  <2> QED
    BY <2>1, <2>2, <2>3 DEF PushInv
<1>9. ASSUME NEW t \in Threads, LoginRemove(t) PROVE PushInv'
  <2>1. FunctorsAddressed'
    BY <1>9, ChatServiceAssumption, RangeEmpty DEF LoginRemove, RemoveOffline, FunctorsAddressed, dbVars, mapVars, loopVars, reqVars, cliVars
  <2>2. BatchRuns'
    BY <1>9, ChatServiceAssumption, RangeEmpty DEF LoginRemove, RemoveOffline, BatchRuns, dbVars, mapVars, loopVars, reqVars, cliVars
  <2>3. MenuIsHandled'
    BY <1>9, ChatServiceAssumption, RangeEmpty DEF LoginRemove, RemoveOffline, MenuIsHandled, dbVars, mapVars, loopVars, reqVars, cliVars
  <2> QED
    BY <2>1, <2>2, <2>3 DEF PushInv
<1>10. ASSUME NEW t \in Threads, LoginReply(t) PROVE PushInv'
  <2>1. FunctorsAddressed'
    BY <1>10, ChatServiceAssumption, RangeEmpty DEF LoginReply, Return, FunctorsAddressed, dbVars, mapVars, loopVars, reqVars, cliVars
  <2>2. BatchRuns'
    BY <1>10, ChatServiceAssumption, RangeEmpty DEF LoginReply, Return, BatchRuns, dbVars, mapVars, loopVars, reqVars, cliVars
  <2>3. MenuIsHandled'
    <3>1. /\ UNCHANGED <<active, pending>> /\ cur[t] \in Conns /\ pc'[t] = "dispatch"
          /\ \A x \in Threads : x # t => pc'[x] = pc[x]
      BY <1>10 DEF LoginReply, Return, loopVars
    <3>2. \A d \in Conns : phase'[d] = "menu" => phase[d] = "menu"
      BY <1>10 DEF LoginReply
    <3>3. \A x \in Threads : \A f \in Range(pending[x]) : f.conn \in Conns
      BY QueueType
    <3> QED
      BY <3>1, <3>2, <3>3 DEF MenuIsHandled
  <2> QED
    BY <2>1, <2>2, <2>3 DEF PushInv
<1>11. ASSUME NEW t \in Threads, NEW c \in Conns, NEW u \in Users, OneChat(t, c, u) PROVE PushInv'
  <2>1. FunctorsAddressed'
    BY <1>11, ChatServiceAssumption, RangeEmpty DEF OneChat, Accept, Take, FunctorsAddressed, dbVars, mapVars, loopVars, reqVars, cliVars
  <2>2. BatchRuns'
    BY <1>11, ChatServiceAssumption, RangeEmpty DEF OneChat, Accept, Take, BatchRuns, dbVars, mapVars, loopVars, reqVars, cliVars
  <2>3. MenuIsHandled'
    BY <1>11, ChatServiceAssumption, RangeEmpty DEF OneChat, Accept, Take, MenuIsHandled, dbVars, mapVars, loopVars, reqVars, cliVars
  <2> QED
    BY <2>1, <2>2, <2>3 DEF PushInv
<1>12. ASSUME NEW t \in Threads, NEW c \in Conns, GroupChat(t, c) PROVE PushInv'
  <2>1. FunctorsAddressed'
    BY <1>12, ChatServiceAssumption, RangeEmpty DEF GroupChat, QueryGroupUsers, Accept, Take, FunctorsAddressed, dbVars, mapVars, loopVars, reqVars, cliVars
  <2>2. BatchRuns'
    BY <1>12, ChatServiceAssumption, RangeEmpty DEF GroupChat, QueryGroupUsers, Accept, Take, BatchRuns, dbVars, mapVars, loopVars, reqVars, cliVars
  <2>3. MenuIsHandled'
    BY <1>12, ChatServiceAssumption, RangeEmpty DEF GroupChat, QueryGroupUsers, Accept, Take, MenuIsHandled, dbVars, mapVars, loopVars, reqVars, cliVars
  <2> QED
    BY <2>1, <2>2, <2>3 DEF PushInv
<1>13. ASSUME NEW t \in Threads, Deliver(t) PROVE PushInv'
  <2>1. FunctorsAddressed'
    <3>1. PICK k \in outbox[t] :
            \/ UNCHANGED pending
            \/ userConnMap[k.to] # NoConn /\ Send(t, userConnMap[k.to], k)
      BY <1>13 DEF Deliver
    <3>2. /\ k \in Copy /\ k.to \in Users /\ UNCHANGED <<batch, active, session, phase>>
          /\ pc[t] = "deliver" /\ pc'[t] \in {"deliver", "dispatch"}
          /\ \A x \in Threads : x # t => pc'[x] = pc[x]
      BY <1>13, <3>1 DEF Deliver, MailType, Copy, cliVars
    <3>3. CASE UNCHANGED pending
      BY <3>2, <3>3 DEF FunctorsAddressed
    <3>4. CASE userConnMap[k.to] # NoConn /\ Send(t, userConnMap[k.to], k)
      <4>1. userConnMap[k.to] \in Conns /\ session[userConnMap[k.to]] = k.to
        BY <3>2, <3>4 DEF MapPointsAtLiveSession
      <4>2. \A x \in Threads : \A f \in Range(pending'[x]) :
              \/ f \in Range(pending[x])
              \/ x = LoopOf[userConnMap[k.to]] /\ f.conn = userConnMap[k.to] /\ f.copy = k
        BY <3>2, <3>4, <4>1, SendQueues
      <4> QED
        BY <3>2, <4>1, <4>2 DEF FunctorsAddressed
    <3> QED
      BY <3>1, <3>3, <3>4
  <2>2. BatchRuns'
    BY <1>13, ChatServiceAssumption, RangeEmpty DEF Deliver, InsertOffline, Send, BatchRuns, dbVars, mapVars, loopVars, reqVars, cliVars
  <2>3. MenuIsHandled'
    <3>1. PICK k \in outbox[t] :
            \/ UNCHANGED pending
            \/ userConnMap[k.to] # NoConn /\ Send(t, userConnMap[k.to], k)
      BY <1>13 DEF Deliver
    <3>2. /\ k \in Copy /\ k.to \in Users /\ UNCHANGED <<batch, active, session, phase>>
          /\ pc[t] = "deliver" /\ pc'[t] \in {"deliver", "dispatch"}
          /\ \A x \in Threads : x # t => pc'[x] = pc[x]
      BY <1>13, <3>1 DEF Deliver, MailType, Copy, cliVars
    <3>3. CASE UNCHANGED pending
      BY <3>2, <3>3 DEF MenuIsHandled
    <3>4. CASE userConnMap[k.to] # NoConn /\ Send(t, userConnMap[k.to], k)
      <4>1. userConnMap[k.to] \in Conns /\ phase[userConnMap[k.to]] # "menu"
        <5> DEFINE d == userConnMap[k.to]
        <5>1. d \in Conns /\ LoopOf[d] \in Threads
          BY <3>2, <3>4, ChatServiceAssumption
        <5>2. \/ phase[d] = "main" \/ phase[d] = "wait"
              \/ pc[LoopOf[d]] \in LoginSteps /\ cur[LoopOf[d]] = d
          BY <3>2, <3>4 DEF EntryHasReason
        <5>3. pc[LoopOf[d]] \in LoginSteps /\ cur[LoopOf[d]] = d => phase[d] = "wait"
          BY <5>1 DEF LoginServesItsClient
        <5> QED
          BY <5>1, <5>2, <5>3
      <4>2. \A x \in Threads : \A f \in Range(pending'[x]) :
              f \in Range(pending[x]) \/ f.conn = userConnMap[k.to]
        BY <3>2, <3>4, <4>1, SendQueues
      <4> QED
        BY <3>2, <4>1, <4>2 DEF MenuIsHandled
    <3> QED
      BY <3>1, <3>3, <3>4
  <2> QED
    BY <2>1, <2>2, <2>3 DEF PushInv
<1>14. ASSUME NEW t \in Threads, NEW c \in Conns, Logout(t, c) PROVE PushInv'
  <2>1. FunctorsAddressed'
    BY <1>14, ChatServiceAssumption, RangeEmpty DEF Logout, EraseEntry, Take, FunctorsAddressed, dbVars, mapVars, loopVars, reqVars, cliVars
  <2>2. BatchRuns'
    BY <1>14, ChatServiceAssumption, RangeEmpty DEF Logout, EraseEntry, Take, BatchRuns, dbVars, mapVars, loopVars, reqVars, cliVars
  <2>3. MenuIsHandled'
    <3>1. /\ LoopOf[c] = t /\ pc[t] = "dispatch" /\ pc'[t] = "setoffline" /\ UNCHANGED pending
          /\ active'[t] = active[t] \ {c}
          /\ \A x \in Threads : x # t => pc'[x] = pc[x] /\ active'[x] = active[x]
          /\ \A d \in Conns : d # c => phase'[d] = phase[d]
      BY <1>14 DEF Logout, Take, ActiveOnOwnLoop
    <3>2. \A x \in Threads : \A f \in Range(pending[x]) : f.conn \in Conns
      BY QueueType
    <3>3. \A x \in Threads : \A f \in Range(pending[x]) : f.conn = c => x = t
      BY <3>1 DEF FunctorsAddressed
    <3> QED
      BY <3>1, <3>2, <3>3 DEF MenuIsHandled
  <2> QED
    BY <2>1, <2>2, <2>3 DEF PushInv
<1>15. ASSUME NEW t \in Threads, NEW c \in Conns, CloseException(t, c) PROVE PushInv'
  <2>1. FunctorsAddressed'
    BY <1>15, ChatServiceAssumption, RangeEmpty DEF CloseException, EraseEntry, Take, FunctorsAddressed, dbVars, mapVars, loopVars, reqVars, cliVars
  <2>2. BatchRuns'
    BY <1>15, ChatServiceAssumption, RangeEmpty DEF CloseException, EraseEntry, Take, BatchRuns, dbVars, mapVars, loopVars, reqVars, cliVars
  <2>3. MenuIsHandled'
    BY <1>15, ChatServiceAssumption, RangeEmpty DEF CloseException, EraseEntry, Take, MenuIsHandled, dbVars, mapVars, loopVars, reqVars, cliVars
  <2> QED
    BY <2>1, <2>2, <2>3 DEF PushInv
<1>16. ASSUME NEW t \in Threads, SetOffline(t) PROVE PushInv'
  <2>1. FunctorsAddressed'
    BY <1>16, ChatServiceAssumption, RangeEmpty DEF SetOffline, UpdateState, Return, FunctorsAddressed, dbVars, mapVars, loopVars, reqVars, cliVars
  <2>2. BatchRuns'
    BY <1>16, ChatServiceAssumption, RangeEmpty DEF SetOffline, UpdateState, Return, BatchRuns, dbVars, mapVars, loopVars, reqVars, cliVars
  <2>3. MenuIsHandled'
    BY <1>16, ChatServiceAssumption, RangeEmpty DEF SetOffline, UpdateState, Return, MenuIsHandled, dbVars, mapVars, loopVars, reqVars, cliVars
  <2> QED
    BY <2>1, <2>2, <2>3 DEF PushInv
<1>17. ASSUME NEW c \in Conns, Connect(c) \/ Quit(c) PROVE PushInv'
  <2>1. FunctorsAddressed'
    BY <1>17, ChatServiceAssumption, RangeEmpty DEF Connect, Quit, FunctorsAddressed, dbVars, mapVars, loopVars, reqVars, cliVars
  <2>2. BatchRuns'
    BY <1>17, ChatServiceAssumption, RangeEmpty DEF Connect, Quit, BatchRuns, dbVars, mapVars, loopVars, reqVars, cliVars
  <2>3. MenuIsHandled'
    BY <1>17, ChatServiceAssumption, RangeEmpty DEF Connect, Quit, MenuIsHandled, dbVars, mapVars, loopVars, reqVars, cliVars
  <2> QED
    BY <2>1, <2>2, <2>3 DEF PushInv
<1>18. CASE Sigint \/ ResetState \/ Restart
  <2>1. FunctorsAddressed'
    BY <1>18, ChatServiceAssumption, RangeEmpty DEF Sigint, ResetState, Restart, FunctorsAddressed, dbVars, mapVars, loopVars, reqVars, cliVars
  <2>2. BatchRuns'
    BY <1>18, ChatServiceAssumption, RangeEmpty DEF Sigint, ResetState, Restart, BatchRuns, dbVars, mapVars, loopVars, reqVars, cliVars
  <2>3. MenuIsHandled'
    BY <1>18, ChatServiceAssumption, RangeEmpty DEF Sigint, ResetState, Restart, MenuIsHandled, dbVars, mapVars, loopVars, reqVars, cliVars
  <2> QED
    BY <2>1, <2>2, <2>3 DEF PushInv
<1>19. CASE Exit \/ Kill
  <2>1. FunctorsAddressed'
    BY <1>19, ChatServiceAssumption, RangeEmpty DEF Exit, Kill, ProcessEnds, FunctorsAddressed, dbVars, mapVars, loopVars, reqVars, cliVars
  <2>2. BatchRuns'
    BY <1>19, ChatServiceAssumption, RangeEmpty DEF Exit, Kill, ProcessEnds, BatchRuns, dbVars, mapVars, loopVars, reqVars, cliVars
  <2>3. MenuIsHandled'
    BY <1>19, ChatServiceAssumption, RangeEmpty DEF Exit, Kill, ProcessEnds, MenuIsHandled, dbVars, mapVars, loopVars, reqVars, cliVars
  <2> QED
    BY <2>1, <2>2, <2>3 DEF PushInv
<1>20. CASE Idle \/ UNCHANGED vars
  <2>1. FunctorsAddressed'
    BY <1>20, ChatServiceAssumption, RangeEmpty DEF Idle, vars, FunctorsAddressed, dbVars, mapVars, loopVars, reqVars, cliVars
  <2>2. BatchRuns'
    BY <1>20, ChatServiceAssumption, RangeEmpty DEF Idle, vars, BatchRuns, dbVars, mapVars, loopVars, reqVars, cliVars
  <2>3. MenuIsHandled'
    BY <1>20, ChatServiceAssumption, RangeEmpty DEF Idle, vars, MenuIsHandled, dbVars, mapVars, loopVars, reqVars, cliVars
  <2> QED
    BY <2>1, <2>2, <2>3 DEF PushInv
<1> QED
  BY <1>1, <1>2, <1>3, <1>4, <1>5, <1>6, <1>7, <1>8, <1>9, <1>10, <1>11, <1>12, <1>13,
     <1>14, <1>15, <1>16, <1>17, <1>18, <1>19, <1>20 DEF Next, LoopThread, Handle

(* A push is the last copy of an outbox, written on its own loop, or the   *)
(* first functor of a batch.                                               *)
Delivers(t, c, m) ==
  /\ pc[t] = "deliver" /\ m \in outbox[t] /\ userConnMap[m.to] = c
  /\ LoopOf[c] = t \/ link[c] = "down"
Runs(t, f) == pc[t] = "functors" /\ batch[t] # <<>> /\ f = Head(batch[t])

LEMMA PushIs ==
  ASSUME TypeOK, [Next]_vars, NEW c \in Conns, Pushes(c)
  PROVE  \E m \in Copy, t \in Threads :
           /\ recv'[c] = Append(recv[c], m)
           /\ Delivers(t, c, m) \/ \E f \in Functor : Runs(t, f) /\ f.conn = c /\ f.copy = m
<1> USE DEF LoopSteps, LoginSteps, Goto
<1>0. MapType /\ LoopType /\ RequestType /\ MailType /\ HistoryType
  BY DEF TypeOK
<1> USE <1>0 DEF MapType, LoopType, RequestType, MailType, HistoryType
<1>a. /\ recv'[c] # recv[c]
      /\ \E x \in Threads : outbox'[x] # outbox[x] \/ batch'[x] # batch[x]
  BY DEF Pushes
<1>1. ASSUME NEW t \in Threads, Deliver(t)
      PROVE  \E m \in Copy : recv'[c] = Append(recv[c], m) /\ Delivers(t, c, m)
  <2>1. PICK m \in outbox[t] :
          \/ UNCHANGED recv
          \/ userConnMap[m.to] # NoConn /\ Send(t, userConnMap[m.to], m)
    BY <1>1 DEF Deliver
  <2>2. m \in Copy /\ m.to \in Users /\ pc[t] = "deliver"
    BY <1>1 DEF Deliver, Copy
  <2>3. /\ LoopOf[userConnMap[m.to]] = t \/ link[userConnMap[m.to]] = "down"
        /\ Write(userConnMap[m.to], m)
    BY <1>a, <2>1 DEF Send
  <2>4. recv' = [recv EXCEPT ![userConnMap[m.to]] = Append(@, m)]
    BY <1>a, <2>3 DEF Write
  <2> QED
    BY <1>a, <2>2, <2>3, <2>4 DEF Delivers
<1>2. ASSUME NEW t \in Threads, RunFunctor(t)
      PROVE  \E f \in Functor : /\ recv'[c] = Append(recv[c], f.copy) /\ f.copy \in Copy
                                /\ Runs(t, f) /\ f.conn = c
  <2>1. batch[t] # <<>> /\ pc[t] = "functors" /\ Write(Head(batch[t]).conn, Head(batch[t]).copy)
    BY <1>2 DEF RunFunctor
  <2>2. Head(batch[t]) \in Functor
    BY <2>1
  <2>3. PICK f \in Functor : f = Head(batch[t])
    BY <2>2
  <2>4. recv' = [recv EXCEPT ![f.conn] = Append(@, f.copy)]
    BY <1>a, <2>1, <2>3 DEF Write
  <2>5. f.copy \in Copy
    BY DEF Functor
  <2> QED
    BY <1>a, <2>1, <2>3, <2>4, <2>5 DEF Runs
<1>3. ASSUME NEW t \in Threads, LoginReply(t) PROVE FALSE
  BY <1>a, <1>3 DEF LoginReply, loopVars
<1>4. \/ \E t \in Threads : Deliver(t) \/ RunFunctor(t) \/ LoginReply(t)
      \/ UNCHANGED recv
  <2>1. ASSUME NEW t \in Threads, NEW d \in Conns, Handle(t, d) PROVE UNCHANGED recv
    BY <2>1 DEF Handle, LoginGranted, LoginRefused, OneChat, GroupChat, Accept, Logout,
                CloseException, histVars
  <2>2. ASSUME NEW t \in Threads,
               Poll(t) \/ LoginInsert(t) \/ LoginSetOnline(t) \/ LoginFetch(t) \/ LoginRemove(t)
                 \/ SetOffline(t) \/ SwapFunctors(t)
        PROVE  UNCHANGED recv
    BY <2>2 DEF Poll, LoginInsert, LoginSetOnline, LoginFetch, LoginRemove, SetOffline,
                SwapFunctors, histVars
  <2>3. ASSUME \/ \E d \in Conns : Connect(d) \/ Quit(d)
               \/ Sigint \/ ResetState \/ Exit \/ Kill \/ Restart \/ Idle \/ UNCHANGED vars
        PROVE  UNCHANGED recv
    BY <2>3 DEF Connect, Quit, Sigint, ResetState, Exit, Kill, ProcessEnds, Restart, Idle, vars, histVars
  <2> QED
    BY <2>1, <2>2, <2>3 DEF Next, LoopThread
<1> QED
  BY <1>a, <1>1, <1>2, <1>3, <1>4

(* If no client misses its login answer, a pushed chat reaches the account *)
(* it was sent to, whoever shares that account, also when it waited as a   *)
(* functor while the client logged out.                                    *)
THEOREM PushFindsAddressee ==
  ASSUME MissedAck = FALSE
  PROVE  Spec => PushReachesAddressee
<1>1. TypeOK /\ SessionInv /\ [Next]_vars => SessionInv'
  BY SessionNext
<1>2. TypeOK /\ SessionInv /\ PushInv /\ [Next]_vars => PushInv'
  BY PushNext
<1>3. ASSUME TypeOK, SessionInv, PushInv, [Next]_vars, NEW c \in Conns, Pushes(c)
      PROVE  Pushed(c).to = session[c]
  <2>1. PICK m \in Copy, t \in Threads :
          /\ recv'[c] = Append(recv[c], m)
          /\ Delivers(t, c, m) \/ \E f \in Functor : Runs(t, f) /\ f.conn = c /\ f.copy = m
    BY <1>3, PushIs
  <2>2. recv[c] \in Seq(Copy)
    BY <1>3 DEF TypeOK, HistoryType
  <2>3. recv'[c][Len(recv'[c])] = m
    BY <2>1, <2>2, AppendProperties
  <2>4. CASE Delivers(t, c, m)
    <3>1. m.to \in Users /\ userConnMap[m.to] = c /\ c # NoConn
      BY <2>4, ChatServiceAssumption DEF Delivers, Copy
    <3> QED
      BY <1>3, <2>3, <3>1 DEF Pushed, SessionInv, MapPointsAtLiveSession
  <2>5. ASSUME NEW f \in Functor, Runs(t, f), f.conn = c, f.copy = m
        PROVE  session[c] = m.to
    <3>1. batch[t] \in Seq(Functor) /\ batch[t] # <<>> /\ f = Head(batch[t])
      BY <1>3, <2>5 DEF Runs, TypeOK, LoopType
    <3>2. f \in Range(batch[t])
      BY <3>1, RangeHeadTail
    <3> QED
      BY <1>3, <2>5, <3>2 DEF PushInv, FunctorsAddressed
  <2> QED
    BY <2>1, <2>3, <2>4, <2>5 DEF Pushed
<1>4. TypeOK /\ SessionInv /\ PushInv /\ [Next]_vars
        => [\A c \in Conns : Pushes(c) => Pushed(c).to = session[c]]_vars
  BY <1>3
<1> QED
  BY <1>1, <1>2, <1>4, SessionInit, PushInit, TypeCorrect, PTL DEF Spec, PushReachesAddressee

-----------------------------------------------------------------------------
(* The order in which one sender's copies for one reader were sent.        *)
Older(S, T) == \A x \in S, y \in T : x.from = y.from /\ x.to = y.to => x.n < y.n
InOrder(s) == \A i, j \in 1..Len(s) : i < j => Older({s[i]}, {s[j]})

Messages(q) == [i \in 1..Len(q) |-> q[i].copy]
Line(t)    == Range(Messages(pending[t]))
Running(t) == Range(Messages(batch[t]))

LogsIn(t, u) == pc[t] \in LoginSteps /\ id[t] = u

(* A functor waits for a client that the map still names, or for one that  *)
(* this round of the loop has handled.                                     *)
WaitsInTurn ==
  \A t \in Threads : \A f \in Range(pending[t]) :
    \/ userConnMap[f.copy.to] = f.conn
    \/ /\ pc[t] \notin {"poll", "functors"} /\ f.conn \notin active[t]
       /\ ~(pc[t] \in LoginSteps /\ cur[t] = f.conn)

(* A loop hands out one request at a time, of a client of its own, and     *)
(* queues nothing for itself.                                              *)
OneRequest ==
  \A t \in Threads : \A m \in outbox[t] :
    /\ \A o \in outbox[t] : o.n = m.n /\ o.from = m.from
    /\ \E c \in Conns : LoopOf[c] = t /\ m.from \in Accounts[c]

FromElsewhere ==
  \A t \in Threads : \A m \in Line(t) \cup Running(t) :
    \E c \in Conns : LoopOf[c] # t /\ m.from \in Accounts[c]

(* Rows of a login that runs are older than what its loop has queued, other*)
(* rows are younger.                                                       *)
TableInTurn ==
  \A t \in Threads : \A u \in Users :
    /\ LogsIn(t, u)  => Older(Range(dbOffline[u]) \cup Range(mail[t]), Line(t))
    /\ ~LogsIn(t, u) => Older(Line(t) \cup Running(t), Range(dbOffline[u]))

QueuesInOrder ==
  \A t \in Threads :
    /\ InOrder(Messages(pending[t])) /\ InOrder(Messages(batch[t])) /\ InOrder(mail[t])
    /\ Older(Running(t), Line(t))

RowsInOrder == \A u \in Users : InOrder(dbOffline[u])

(* What a client was given is older than all that waits for it.            *)
ReaderInOrder ==
  \A c \in Conns :
    /\ InOrder(recv[c])
    /\ Older(Range(recv[c]), Line(LoopOf[c]) \cup Running(LoopOf[c]) \cup Range(mail[LoopOf[c]]))
    /\ \A u \in Users : Older(Range(recv[c]), Range(dbOffline[u]))

ReaderAddressed == \A c \in Conns : \A m \in Range(recv[c]) : m.to \in Accounts[c]

(* What has left the outboxes; an outbox is younger than all of it.        *)
Out(m) ==
  \/ \E t \in Threads : m \in Line(t) \cup Running(t) \cup Range(mail[t])
  \/ \E u \in Users : m \in Range(dbOffline[u])
  \/ \E c \in Conns : m \in Range(recv[c])

OutboxYoungest ==
  \A t \in Threads : \A o \in outbox[t] : \A m \in Copy : Out(m) => Older({m}, {o})

Numbered ==
  /\ \A m \in Copy : Out(m) => m.n <= nsent
  /\ \A t \in Threads : \A o \in outbox[t] : o.n <= nsent

OrderInv ==
  /\ OneRequest
  /\ FromElsewhere
  /\ QueuesInOrder
  /\ RowsInOrder
  /\ TableInTurn
  /\ ReaderInOrder
  /\ ReaderAddressed
  /\ OutboxYoungest
  /\ Numbered

LEMMA OrderInit == Init => WaitsInTurn /\ OrderInv
<1> SUFFICES ASSUME Init PROVE WaitsInTurn /\ OrderInv
  OBVIOUS
<1>1. Messages(<<>>) = <<>>
  BY DEF Messages
<1>2. InOrder(<<>>)
  BY DEF InOrder
<1>3. /\ \A t \in Threads : /\ pending[t] = <<>> /\ batch[t] = <<>> /\ mail[t] = <<>> /\ outbox[t] = {}
                            /\ Line(t) = {} /\ Running(t) = {} /\ Range(mail[t]) = {}
      /\ \A u \in Users : dbOffline[u] = <<>> /\ Range(dbOffline[u]) = {}
      /\ \A c \in Conns : recv[c] = <<>> /\ Range(recv[c]) = {} /\ LoopOf[c] \in Threads
  BY <1>1, RangeEmpty, ChatServiceAssumption DEF Init, Line, Running
<1>4. WaitsInTurn
  BY <1>3, RangeEmpty DEF WaitsInTurn
<1>5. OneRequest /\ FromElsewhere /\ ReaderAddressed
  BY <1>3 DEF OneRequest, FromElsewhere, ReaderAddressed
<1>6. QueuesInOrder /\ RowsInOrder
  BY <1>1, <1>2, <1>3 DEF QueuesInOrder, RowsInOrder, Older
<1>7. TableInTurn /\ ReaderInOrder
  BY <1>2, <1>3 DEF TableInTurn, ReaderInOrder, Older
<1>8. OutboxYoungest /\ Numbered
  BY <1>3 DEF OutboxYoungest, Numbered, Out
<1> QED
  BY <1>4, <1>5, <1>6, <1>7, <1>8 DEF OrderInv

(* Sequences of copies that grow by a younger one, lose their head or are  *)
(* joined to younger ones stay in order.                                   *)
LEMMA OrderAppend ==
  ASSUME NEW s \in Seq(Copy), NEW m \in Copy, InOrder(s), Older(Range(s), {m})
  PROVE  InOrder(Append(s, m))
<1>1. /\ Len(Append(s, m)) = Len(s) + 1 /\ Append(s, m)[Len(s) + 1] = m /\ Len(s) \in Nat
      /\ \A i \in 1..Len(s) : Append(s, m)[i] = s[i]
  BY AppendProperties
<1>2. \A i \in 1..Len(s) : s[i] \in Range(s)
  BY DEF Range
<1>3. ASSUME NEW i \in 1..Len(s)+1, NEW j \in 1..Len(s)+1, i < j
      PROVE  Older({Append(s, m)[i]}, {Append(s, m)[j]})
  <2>1. i \in 1..Len(s) /\ (j \in 1..Len(s) \/ j = Len(s) + 1)
    BY <1>1, <1>3
  <2>2. CASE j \in 1..Len(s)
    BY <1>1, <1>3, <2>1, <2>2 DEF InOrder
  <2>3. CASE j = Len(s) + 1
    BY <1>1, <1>2, <2>1, <2>3 DEF Older
  <2> QED
    BY <2>1, <2>2, <2>3
<1> QED
  BY <1>1, <1>3 DEF InOrder

LEMMA OrderTail ==
  ASSUME NEW s \in Seq(Copy), s # <<>>, InOrder(s)
  PROVE  InOrder(Tail(s)) /\ Older({Head(s)}, Range(Tail(s)))
<1>1. /\ Tail(s) \in Seq(Copy) /\ Len(Tail(s)) = Len(s) - 1 /\ Len(s) \in Nat \ {0}
      /\ \A i \in 1..Len(Tail(s)) : Tail(s)[i] = s[i + 1]
  BY HeadTailProperties
<1>2. \A i \in 1..Len(Tail(s)) : i + 1 \in 1..Len(s) /\ 1 < i + 1
  BY <1>1
<1>3. Head(s) = s[1] /\ 1 \in 1..Len(s) /\ DOMAIN Tail(s) = 1..Len(Tail(s))
  BY <1>1
<1>4. \A i, j \in 1..Len(Tail(s)) : i < j => Older({Tail(s)[i]}, {Tail(s)[j]})
  <2>1. \A i, j \in 1..Len(Tail(s)) : i < j => i + 1 < j + 1
    BY <1>1
  <2> QED
    BY <1>1, <1>2, <2>1 DEF InOrder
<1>5. \A i \in 1..Len(Tail(s)) : Older({s[1]}, {Tail(s)[i]})
  BY <1>1, <1>2, <1>3 DEF InOrder
<1> QED
  BY <1>3, <1>4, <1>5 DEF InOrder, Older, Range

LEMMA OrderConcat ==
  ASSUME NEW s \in Seq(Copy), NEW r \in Seq(Copy), InOrder(s), InOrder(r), Older(Range(s), Range(r))
  PROVE  InOrder(s \o r)
<1> DEFINE k == Len(s)
           n == Len(r)
<1>1. k \in Nat /\ n \in Nat /\ DOMAIN s = 1..k /\ DOMAIN r = 1..n
  OBVIOUS
<1>2. /\ Len(s \o r) = k + n
      /\ \A i \in 1..k+n : (s \o r)[i] = IF i <= k THEN s[i] ELSE r[i - k]
  BY ConcatProperties
<1>3. \A i \in 1..k : s[i] \in Range(s)
  BY <1>1 DEF Range
<1>4. \A i \in 1..n : r[i] \in Range(r)
  BY <1>1 DEF Range
<1> HIDE DEF k, n
<1>5. ASSUME NEW i \in 1..k+n, NEW j \in 1..k+n, i < j
      PROVE  Older({(s \o r)[i]}, {(s \o r)[j]})
  <2>1. CASE j <= k
    <3>1. i \in 1..k /\ j \in 1..k /\ i <= k
      BY <1>1, <1>5, <2>1
    <3> QED
      BY <1>2, <1>5, <2>1, <3>1 DEF InOrder, k
  <2>2. CASE ~(j <= k) /\ i <= k
    <3>1. i \in 1..k /\ j - k \in 1..n
      BY <1>1, <1>5, <2>2
    <3> QED
      BY <1>2, <1>3, <1>4, <2>2, <3>1 DEF Older
  <2>3. CASE ~(j <= k) /\ ~(i <= k)
    <3>1. i - k \in 1..n /\ j - k \in 1..n /\ i - k < j - k
      BY <1>1, <1>5, <2>3
    <3> QED
      BY <1>2, <2>3, <3>1 DEF InOrder, n
  <2> QED
    BY <2>1, <2>2, <2>3
<1> QED
  BY <1>2, <1>5 DEF InOrder

(* The copies that a queue of functors carries.                            *)
LEMMA MessagesOf ==
  ASSUME NEW q \in Seq(Functor)
  PROVE  /\ Messages(q) \in Seq(Copy)
         /\ Range(Messages(q)) = {f.copy : f \in Range(q)}
         /\ \A f \in Functor : Messages(Append(q, f)) = Append(Messages(q), f.copy)
         /\ q # <<>> => /\ Messages(q) # <<>>
                        /\ Head(Messages(q)) = Head(q).copy
                        /\ Messages(Tail(q)) = Tail(Messages(q))
<1>0. \A f \in Functor : f.copy \in Copy
  BY DEF Functor
<1>1. /\ Messages(q) \in Seq(Copy) /\ Len(Messages(q)) = Len(q) /\ DOMAIN Messages(q) = 1..Len(q)
      /\ DOMAIN q = 1..Len(q) /\ Len(q) \in Nat
      /\ \A i \in 1..Len(q) : Messages(q)[i] = q[i].copy /\ q[i] \in Functor
  BY <1>0 DEF Messages
<1>2. Range(Messages(q)) = {f.copy : f \in Range(q)}
  BY <1>1 DEF Range
<1>3. ASSUME NEW f \in Functor PROVE Messages(Append(q, f)) = Append(Messages(q), f.copy)
  <2>1. /\ Append(q, f) \in Seq(Functor) /\ Len(Append(q, f)) = Len(q) + 1
        /\ Append(q, f)[Len(q) + 1] = f /\ \A i \in 1..Len(q) : Append(q, f)[i] = q[i]
    BY AppendProperties
  <2>2. /\ Append(Messages(q), f.copy) \in Seq(Copy)
        /\ Len(Append(Messages(q), f.copy)) = Len(q) + 1
        /\ Append(Messages(q), f.copy)[Len(q) + 1] = f.copy
        /\ \A i \in 1..Len(q) : Append(Messages(q), f.copy)[i] = q[i].copy
    BY <1>0, <1>1, AppendProperties
  <2>3. /\ Messages(Append(q, f)) \in Seq(Copy) /\ Len(Messages(Append(q, f))) = Len(q) + 1
        /\ \A i \in 1..Len(q)+1 : Messages(Append(q, f))[i] = Append(q, f)[i].copy
    BY <1>0, <2>1 DEF Messages
  <2>4. \A i \in 1..Len(q)+1 : i \in 1..Len(q) \/ i = Len(q) + 1
    BY <1>1
  <2>5. \A i \in 1..Len(Messages(Append(q, f))) :
          Messages(Append(q, f))[i] = Append(Messages(q), f.copy)[i]
    BY <2>1, <2>2, <2>3, <2>4
  <2> QED
    BY <2>2, <2>3, <2>5, SeqEqual
<1>4. ASSUME q # <<>>
      PROVE  /\ Messages(q) # <<>> /\ Head(Messages(q)) = Head(q).copy
             /\ Messages(Tail(q)) = Tail(Messages(q))
  <2>1. /\ Tail(q) \in Seq(Functor) /\ Len(Tail(q)) = Len(q) - 1 /\ Len(q) \in Nat \ {0}
        /\ \A i \in 1..Len(Tail(q)) : Tail(q)[i] = q[i + 1]
    BY <1>4, HeadTailProperties
  <2>2. Messages(q) # <<>> /\ Head(Messages(q)) = Head(q).copy
    BY <1>1, <2>1
  <2>3. /\ Tail(Messages(q)) \in Seq(Copy) /\ Len(Tail(Messages(q))) = Len(q) - 1
        /\ \A i \in 1..Len(q)-1 : Tail(Messages(q))[i] = Messages(q)[i + 1]
    BY <1>1, <2>2, HeadTailProperties
  <2>4. /\ Messages(Tail(q)) \in Seq(Copy) /\ Len(Messages(Tail(q))) = Len(q) - 1
        /\ \A i \in 1..Len(q)-1 : Messages(Tail(q))[i] = Tail(q)[i].copy
    BY <1>0, <2>1 DEF Messages
  <2>5. \A i \in 1..Len(q)-1 : i + 1 \in 1..Len(q)
    BY <2>1
  <2>6. \A i \in 1..Len(Messages(Tail(q))) : Messages(Tail(q))[i] = Tail(Messages(q))[i]
    BY <1>1, <2>1, <2>3, <2>4, <2>5
  <2> QED
    BY <2>2, <2>3, <2>4, <2>6, SeqEqual
<1> QED
  BY <1>1, <1>2, <1>3, <1>4

(* Functors wait in turn: their client is handled again only after them.   *)
LEMMA TurnNext ==
  ASSUME AccountsApart, TypeOK, RouteInv, AddressInv, WaitsInTurn, [Next]_vars
  PROVE  WaitsInTurn'
<1> USE DEF LoopSteps, LoginSteps, Goto
<1>0. /\ MapType /\ LoopType /\ RequestType /\ MailType /\ ClientType
      /\ FunctorsReach /\ EntriesReach /\ ActiveOnOwnLoop /\ LoginOwned /\ WaitsInTurn
  BY DEF TypeOK, RouteInv, AddressInv
<1> USE <1>0 DEF MapType, LoopType, RequestType, ClientType
<1>q. \A x \in Threads : \A f \in Range(pending[x]) :
        /\ f.conn \in Conns /\ f.copy.to \in Users
        /\ LoopOf[f.conn] = x /\ ClientOf(f.conn, f.copy.to)
  BY QueueType DEF FunctorsReach, Copy
<1>1. ASSUME NEW t \in Threads, Poll(t) PROVE WaitsInTurn'
  BY <1>1, ChatServiceAssumption, <1>q, RangeEmpty DEF Poll, Ready, WaitsInTurn, dbVars, mapVars, loopVars, reqVars, cliVars
<1>2. ASSUME NEW t \in Threads, SwapFunctors(t) PROVE WaitsInTurn'
  BY <1>2, ChatServiceAssumption, <1>q, RangeEmpty DEF SwapFunctors, WaitsInTurn, dbVars, mapVars, loopVars, reqVars, cliVars
<1>3. ASSUME NEW t \in Threads, RunFunctor(t) PROVE WaitsInTurn'
  BY <1>3, ChatServiceAssumption, <1>q, RangeEmpty DEF RunFunctor, WaitsInTurn, dbVars, mapVars, loopVars, reqVars, cliVars
<1>4. ASSUME NEW t \in Threads, NEW c \in Conns, NEW u \in Users, LoginGranted(t, c, u) PROVE WaitsInTurn'
  BY <1>4, ChatServiceAssumption, <1>q, RangeEmpty DEF LoginGranted, Take, WaitsInTurn, dbVars, mapVars, loopVars, reqVars, cliVars
<1>5. ASSUME NEW t \in Threads, NEW c \in Conns, NEW u \in Users, LoginRefused(t, c, u) PROVE WaitsInTurn'
  BY <1>5, ChatServiceAssumption, <1>q, RangeEmpty DEF LoginRefused, Take, WaitsInTurn, dbVars, mapVars, loopVars, reqVars, cliVars
<1>6. ASSUME NEW t \in Threads, LoginInsert(t) PROVE WaitsInTurn'
  BY <1>6, ChatServiceAssumption, <1>q, RangeEmpty DEF LoginInsert, WaitsInTurn, dbVars, mapVars, loopVars, reqVars, cliVars
<1>7. ASSUME NEW t \in Threads, LoginSetOnline(t) PROVE WaitsInTurn'
  BY <1>7, ChatServiceAssumption, <1>q, RangeEmpty DEF LoginSetOnline, UpdateState, WaitsInTurn, dbVars, mapVars, loopVars, reqVars, cliVars
<1>8. ASSUME NEW t \in Threads, LoginFetch(t) PROVE WaitsInTurn'
  BY <1>8, ChatServiceAssumption, <1>q, RangeEmpty DEF LoginFetch, QueryOffline, WaitsInTurn, dbVars, mapVars, loopVars, reqVars, cliVars
<1>9. ASSUME NEW t \in Threads, LoginRemove(t) PROVE WaitsInTurn'
  BY <1>9, ChatServiceAssumption, <1>q, RangeEmpty DEF LoginRemove, RemoveOffline, WaitsInTurn, dbVars, mapVars, loopVars, reqVars, cliVars
<1>10. ASSUME NEW t \in Threads, LoginReply(t) PROVE WaitsInTurn'
  BY <1>10, ChatServiceAssumption, <1>q, RangeEmpty DEF LoginReply, Return, WaitsInTurn, dbVars, mapVars, loopVars, reqVars, cliVars
<1>11. ASSUME NEW t \in Threads, NEW c \in Conns, NEW u \in Users, OneChat(t, c, u) PROVE WaitsInTurn'
  BY <1>11, ChatServiceAssumption, <1>q, RangeEmpty DEF OneChat, Accept, Take, WaitsInTurn, dbVars, mapVars, loopVars, reqVars, cliVars
<1>12. ASSUME NEW t \in Threads, NEW c \in Conns, GroupChat(t, c) PROVE WaitsInTurn'
  BY <1>12, ChatServiceAssumption, <1>q, RangeEmpty DEF GroupChat, QueryGroupUsers, Accept, Take, WaitsInTurn, dbVars, mapVars, loopVars, reqVars, cliVars
<1>13. ASSUME NEW t \in Threads, Deliver(t) PROVE WaitsInTurn'
  <2>1. PICK k \in outbox[t] :
          \/ UNCHANGED pending
          \/ userConnMap[k.to] # NoConn /\ Send(t, userConnMap[k.to], k)
    BY <1>13 DEF Deliver
  <2>2. /\ k \in Copy /\ k.to \in Users /\ UNCHANGED <<active, userConnMap, cur>>
        /\ pc[t] = "deliver" /\ pc'[t] \in {"deliver", "dispatch"}
        /\ \A x \in Threads : x # t => pc'[x] = pc[x]
    BY <1>13, <2>1 DEF Deliver, MailType, Copy
  <2>3. \A x \in Threads : \A f \in Range(pending'[x]) :
          f \in Range(pending[x]) \/ userConnMap[f.copy.to] = f.conn
    <3>1. CASE userConnMap[k.to] # NoConn /\ Send(t, userConnMap[k.to], k)
      <4>1. userConnMap[k.to] \in Conns
        BY <2>2, <3>1
      <4>2. \A x \in Threads : \A f \in Range(pending'[x]) :
              f \in Range(pending[x]) \/ (f.conn = userConnMap[k.to] /\ f.copy = k)
        BY <2>2, <3>1, <4>1, SendQueues
      <4> QED
        BY <4>2
    <3> QED
      BY <2>1, <3>1
  <2> QED
    BY <2>2, <2>3 DEF WaitsInTurn
<1>14. ASSUME NEW t \in Threads, NEW c \in Conns, Logout(t, c) PROVE WaitsInTurn'
  <2>1. /\ LoopOf[c] = t /\ pc[t] = "dispatch" /\ pc'[t] = "setoffline" /\ UNCHANGED <<pending, cur>>
        /\ active'[t] = active[t] \ {c}
        /\ \A x \in Threads : x # t => pc'[x] = pc[x] /\ active'[x] = active[x]
        /\ \A v \in Users : v # session[c] => userConnMap'[v] = userConnMap[v]
    BY <1>14 DEF Logout, Take, EraseEntry, ActiveOnOwnLoop, reqVars
  <2>2. ASSUME NEW x \in Threads, NEW f \in Range(pending[x]), userConnMap[f.copy.to] = f.conn,
               f.copy.to = session[c]
        PROVE  x = t /\ f.conn = c
    <3>1. f.conn \in Conns /\ session[c] \in Users /\ LoopOf[f.conn] = x
      BY <1>q, <2>2
    <3>2. session[c] \in Accounts[c] /\ session[c] \in Accounts[f.conn]
      BY <1>q, <2>2, <3>1, ChatServiceAssumption DEF RouteInv, SessionOwned, ClientOf
    <3>3. f.conn = c
      BY <3>1, <3>2 DEF AccountsApart
    <3> QED
      BY <2>1, <3>1, <3>3
  <2>3. \A x \in Threads : \A f \in Range(pending[x]) :
          \/ userConnMap'[f.copy.to] = f.conn
          \/ x = t /\ f.conn = c
          \/ /\ pc[x] \notin {"poll", "functors"} /\ f.conn \notin active[x]
             /\ ~(pc[x] \in LoginSteps /\ cur[x] = f.conn)
    BY <1>q, <2>1, <2>2 DEF WaitsInTurn
  <2> QED
    BY <2>1, <2>3 DEF WaitsInTurn
<1>15. ASSUME NEW t \in Threads, NEW c \in Conns, CloseException(t, c) PROVE WaitsInTurn'
  <2>1. /\ LoopOf[c] = t /\ pc[t] = "dispatch" /\ UNCHANGED <<pending, cur>>
        /\ active'[t] = active[t] \ {c} /\ pc'[t] \in {"dispatch", "setoffline"}
        /\ \A x \in Threads : x # t => pc'[x] = pc[x] /\ active'[x] = active[x]
    BY <1>15 DEF CloseException, Take, ActiveOnOwnLoop, reqVars
  <2>2. \A v \in Users : userConnMap'[v] = userConnMap[v] \/ userConnMap[v] = c
    BY <1>15 DEF CloseException, EraseEntry
  <2>3. \A x \in Threads : \A f \in Range(pending[x]) :
          \/ userConnMap'[f.copy.to] = f.conn
          \/ x = t /\ f.conn = c
          \/ /\ pc[x] \notin {"poll", "functors"} /\ f.conn \notin active[x]
             /\ ~(pc[x] \in LoginSteps /\ cur[x] = f.conn)
    BY <1>q, <2>1, <2>2 DEF WaitsInTurn
  <2> QED
    BY <2>1, <2>3 DEF WaitsInTurn
<1>16. ASSUME NEW t \in Threads, SetOffline(t) PROVE WaitsInTurn'
  BY <1>16, ChatServiceAssumption, <1>q, RangeEmpty DEF SetOffline, UpdateState, Return, WaitsInTurn, dbVars, mapVars, loopVars, reqVars, cliVars
<1>17. ASSUME NEW c \in Conns, Connect(c) \/ Quit(c) PROVE WaitsInTurn'
  BY <1>17, ChatServiceAssumption, <1>q, RangeEmpty DEF Connect, Quit, WaitsInTurn, dbVars, mapVars, loopVars, reqVars, cliVars
<1>18. CASE Sigint \/ ResetState \/ Restart
  BY <1>18, ChatServiceAssumption, <1>q, RangeEmpty DEF Sigint, ResetState, Restart, WaitsInTurn, dbVars, mapVars, loopVars, reqVars, cliVars
<1>19. CASE Exit \/ Kill
  BY <1>19, ChatServiceAssumption, <1>q, RangeEmpty DEF Exit, Kill, ProcessEnds, WaitsInTurn, dbVars, mapVars, loopVars, reqVars, cliVars
<1>20. CASE Idle \/ UNCHANGED vars
  BY <1>20, ChatServiceAssumption, <1>q, RangeEmpty DEF Idle, vars, WaitsInTurn, dbVars, mapVars, loopVars, reqVars, cliVars
<1> QED
  BY <1>1, <1>2, <1>3, <1>4, <1>5, <1>6, <1>7, <1>8, <1>9, <1>10, <1>11, <1>12, <1>13,
     <1>14, <1>15, <1>16, <1>17, <1>18, <1>19, <1>20 DEF Next, LoopThread, Handle

(* The rows of a user whose entry is in the map are fetched and removed by *)
(* a login that runs; afterwards there are none.                           *)
FetchesFor(t, u) == pc[t] \in {"setonline", "fetch", "remove"} /\ id[t] = u

RowsFetched ==
  \A u \in Users : userConnMap[u] # NoConn /\ dbOffline[u] # <<>> => FetchesFor(LoopOf[userConnMap[u]], u)

LEMMA RowsInit == Init => RowsFetched
BY DEF Init, RowsFetched

(* A delivery stores a row only for a user without an entry, and a login   *)
(* that makes the entry has yet to fetch and remove.                       *)
LEMMA RowsNext ==
  ASSUME MaxDbFaults = 0, TypeOK, RouteInv, RowsFetched, [Next]_vars
  PROVE  RowsFetched'
<1> USE DEF LoopSteps, LoginSteps, Goto
<1>0. /\ DbType /\ MapType /\ RequestType /\ MailType /\ RowsFetched /\ LoginOwned /\ ~Fails
      /\ \A u \in Users : userConnMap[u] # NoConn =>
            userConnMap[u] \in Conns /\ LoopOf[userConnMap[u]] \in Threads
  BY ChatServiceAssumption DEF TypeOK, DbType, MapType, Fails, RouteInv
<1> USE <1>0 DEF DbType, MapType, RequestType, MailType
<1>pc. DOMAIN pc = Threads
  BY DEF TypeOK, RequestType, LoopType
<1>1. ASSUME NEW t \in Threads, Poll(t) PROVE RowsFetched'
  BY <1>1 DEF Poll, Ready, RowsFetched, FetchesFor, dbVars, mapVars, reqVars
<1>2. ASSUME NEW t \in Threads, SwapFunctors(t) PROVE RowsFetched'
  BY <1>2 DEF SwapFunctors, RowsFetched, FetchesFor, dbVars, mapVars, reqVars
<1>3. ASSUME NEW t \in Threads, RunFunctor(t) PROVE RowsFetched'
  BY <1>3 DEF RunFunctor, RowsFetched, FetchesFor, dbVars, mapVars, reqVars
<1>4. ASSUME NEW t \in Threads, NEW c \in Conns, NEW u \in Users, LoginGranted(t, c, u) PROVE RowsFetched'
  BY <1>4 DEF LoginGranted, Take, RowsFetched, FetchesFor, dbVars, mapVars, reqVars
<1>5. ASSUME NEW t \in Threads, NEW c \in Conns, NEW u \in Users, LoginRefused(t, c, u) PROVE RowsFetched'
  BY <1>5 DEF LoginRefused, Take, RowsFetched, FetchesFor, dbVars, mapVars, reqVars
<1>6. ASSUME NEW t \in Threads, LoginInsert(t) PROVE RowsFetched'
  <2>1. /\ LoopOf[cur[t]] = t /\ pc[t] = "insert" /\ pc' = [pc EXCEPT ![t] = "setonline"]
        /\ UNCHANGED <<dbOffline, id>>
        /\ \A v \in Users : userConnMap'[v] = userConnMap[v] \/ (v = id[t] /\ userConnMap'[v] = cur[t])
    BY <1>6 DEF LoginInsert, LoginOwned, dbVars, reqVars
  <2>2. ASSUME NEW v \in Users, userConnMap'[v] # NoConn, dbOffline[v] # <<>>
        PROVE  FetchesFor(LoopOf[userConnMap[v]], v)'
    <3>1. CASE userConnMap'[v] = userConnMap[v]
      <4>1. PICK x \in Threads : x = LoopOf[userConnMap[v]] /\ FetchesFor(x, v)
        BY <1>0, <2>2, <3>1 DEF RowsFetched
      <4>2. x # t /\ pc'[x] = pc[x]
        BY <2>1, <4>1 DEF FetchesFor
      <4> QED
        BY <2>1, <3>1, <4>1, <4>2 DEF FetchesFor
    <3>2. CASE v = id[t] /\ userConnMap'[v] = cur[t]
      <4>1. pc'[t] = "setonline"
        BY <2>1, <1>pc
      <4> QED
        BY <2>1, <3>2, <4>1 DEF FetchesFor
    <3> QED
      BY <2>1, <3>1, <3>2
  <2> QED
    BY <2>1, <2>2 DEF RowsFetched
<1>7. ASSUME NEW t \in Threads, LoginSetOnline(t) PROVE RowsFetched'
  BY <1>7 DEF LoginSetOnline, UpdateState, RowsFetched, FetchesFor, dbVars, mapVars, reqVars
<1>8. ASSUME NEW t \in Threads, LoginFetch(t) PROVE RowsFetched'
  <2>1. /\ pc[t] = "fetch" /\ UNCHANGED <<dbOffline, userConnMap, id>>
        /\ dbOffline[id[t]] # <<>> => pc'[t] = "remove"
        /\ \A x \in Threads : x # t => pc'[x] = pc[x]
    BY <1>8 DEF LoginFetch, QueryOffline, mapVars
  <2> QED
    BY <2>1 DEF RowsFetched, FetchesFor
<1>9. ASSUME NEW t \in Threads, LoginRemove(t) PROVE RowsFetched'
  <2>1. /\ UNCHANGED <<userConnMap, id>> /\ dbOffline' = [dbOffline EXCEPT ![id[t]] = <<>>]
        /\ \A x \in Threads : x # t => pc'[x] = pc[x]
    BY <1>9 DEF LoginRemove, RemoveOffline, mapVars, reqVars
  <2> QED
    BY <2>1 DEF RowsFetched, FetchesFor
<1>10. ASSUME NEW t \in Threads, LoginReply(t) PROVE RowsFetched'
  BY <1>10 DEF LoginReply, Return, RowsFetched, FetchesFor, dbVars, mapVars, reqVars
<1>11. ASSUME NEW t \in Threads, NEW c \in Conns, NEW u \in Users, OneChat(t, c, u) PROVE RowsFetched'
  BY <1>11 DEF OneChat, Accept, Take, RowsFetched, FetchesFor, dbVars, mapVars, reqVars
<1>12. ASSUME NEW t \in Threads, NEW c \in Conns, GroupChat(t, c) PROVE RowsFetched'
  BY <1>12 DEF GroupChat, Accept, Take, RowsFetched, FetchesFor, dbVars, mapVars, reqVars
<1>13. ASSUME NEW t \in Threads, Deliver(t) PROVE RowsFetched'
  <2>1. /\ \A v \in Users : userConnMap[v] # NoConn => dbOffline'[v] = dbOffline[v]
        /\ pc[t] = "deliver" /\ UNCHANGED <<userConnMap, id>>
        /\ \A x \in Threads : x # t => pc'[x] = pc[x]
    BY <1>13 DEF Deliver, InsertOffline
  <2> QED
    BY <2>1 DEF RowsFetched, FetchesFor
<1>14. ASSUME NEW t \in Threads, NEW c \in Conns, Logout(t, c) PROVE RowsFetched'
  BY <1>14 DEF Logout, EraseEntry, Take, RowsFetched, FetchesFor, dbVars, mapVars, reqVars
<1>15. ASSUME NEW t \in Threads, NEW c \in Conns, CloseException(t, c) PROVE RowsFetched'
  <2>1. /\ pc[t] = "dispatch" /\ UNCHANGED dbOffline
        /\ \A x \in Threads : x # t => pc'[x] = pc[x] /\ id'[x] = id[x]
        /\ \A v \in Users : userConnMap'[v] \in {userConnMap[v], NoConn}
    BY <1>15 DEF CloseException, EraseEntry, Take, dbVars
  <2>2. ASSUME NEW v \in Users, userConnMap'[v] # NoConn, dbOffline[v] # <<>>
        PROVE  FetchesFor(LoopOf[userConnMap[v]], v)'
    <3>1. PICK x \in Threads : x = LoopOf[userConnMap[v]] /\ FetchesFor(x, v)
      BY <1>0, <2>1, <2>2 DEF RowsFetched
    <3>2. x # t
      BY <2>1, <3>1 DEF FetchesFor
    <3> QED
      BY <2>1, <2>2, <3>1, <3>2 DEF FetchesFor
  <2> QED
    BY <2>1, <2>2 DEF RowsFetched
<1>16. ASSUME NEW t \in Threads, SetOffline(t) PROVE RowsFetched'
  BY <1>16 DEF SetOffline, UpdateState, Return, RowsFetched, FetchesFor, dbVars, mapVars, reqVars
<1>17. ASSUME NEW c \in Conns, Connect(c) \/ Quit(c) PROVE RowsFetched'
  BY <1>17 DEF Connect, Quit, RowsFetched, FetchesFor, dbVars, mapVars, reqVars
<1>18. CASE Sigint \/ ResetState \/ Restart
  BY <1>18 DEF Sigint, ResetState, Restart, RowsFetched, FetchesFor, dbVars, mapVars, reqVars
<1>19. CASE Exit \/ Kill
  BY <1>19 DEF Exit, Kill, ProcessEnds, RowsFetched, FetchesFor, dbVars, mapVars, reqVars
<1>20. CASE Idle \/ UNCHANGED vars
  BY <1>20 DEF Idle, vars, RowsFetched, FetchesFor, dbVars, mapVars, reqVars
<1> QED
  BY <1>1, <1>2, <1>3, <1>4, <1>5, <1>6, <1>7, <1>8, <1>9, <1>10, <1>11, <1>12, <1>13,
     <1>14, <1>15, <1>16, <1>17, <1>18, <1>19, <1>20 DEF Next, LoopThread, Handle

(* What the steps that move a copy rely on.                                *)
WaitInv ==
  /\ RouteInv
  /\ CleanInv
  /\ AddressInv
  /\ RowsFetched
  /\ WaitsInTurn

LEMMA CopiesOf ==
  ASSUME TypeOK
  PROVE  /\ \A x \in Threads : /\ Line(x) \subseteq Copy /\ Running(x) \subseteq Copy
                               /\ Range(mail[x]) \subseteq Copy /\ outbox[x] \subseteq Copy
         /\ \A u \in Users : Range(dbOffline[u]) \subseteq Copy
         /\ \A c \in Conns : Range(recv[c]) \subseteq Copy
<1>1. ASSUME NEW x \in Threads PROVE Line(x) \subseteq Copy /\ Running(x) \subseteq Copy
  BY MessagesOf, RangeType DEF TypeOK, LoopType, Line, Running
<1>2. \A x \in Threads : Range(mail[x]) \subseteq Copy /\ outbox[x] \subseteq Copy
  BY RangeType DEF TypeOK, MailType
<1>3. \A u \in Users : Range(dbOffline[u]) \subseteq Copy
  BY RangeType DEF TypeOK, DbType
<1>4. \A c \in Conns : Range(recv[c]) \subseteq Copy
  BY RangeType DEF TypeOK, HistoryType
<1> QED
  BY <1>1, <1>2, <1>3, <1>4

(* A waiting functor carries a copy for an account of its connection.      *)
LEMMA LineOf ==
  ASSUME AccountsApart, TypeOK, AddressInv, NEW x \in Threads, NEW m \in Line(x)
  PROVE  \E f \in Range(pending[x]) :
           /\ f.copy = m /\ f.conn \in Conns /\ LoopOf[f.conn] = x /\ m.to \in Accounts[f.conn]
           /\ m.to \in Users /\ \A c \in Conns : m.to \in Accounts[c] => c = f.conn
<1>1. PICK f \in Range(pending[x]) : f.copy = m
  BY MessagesOf DEF Line, TypeOK, LoopType
<1>2. f.conn \in Conns /\ m \in Copy
  BY <1>1, QueueType DEF TypeOK
<1>3. LoopOf[f.conn] = x /\ m.to \in Accounts[f.conn] /\ m.to \in Users
  BY <1>1, <1>2 DEF AddressInv, FunctorsReach, ClientOf, Copy
<1> QED
  BY <1>1, <1>2, <1>3 DEF AccountsApart

(* A step that moves no copy keeps the order of all ...                    *)
LEMMA OrderStays ==
  ASSUME OrderInv, UNCHANGED <<pending, batch, mail, dbOffline, recv, outbox, nsent>>
  PROVE  /\ OneRequest' /\ FromElsewhere' /\ QueuesInOrder' /\ RowsInOrder' /\ ReaderInOrder'
         /\ ReaderAddressed' /\ OutboxYoungest' /\ Numbered'
<1>1. OneRequest' /\ FromElsewhere' /\ QueuesInOrder' /\ RowsInOrder'
  BY DEF OrderInv, OneRequest, FromElsewhere, QueuesInOrder, RowsInOrder, Line, Running
<1>4. ReaderInOrder'
  <2>1. \A d \in Conns : LoopOf[d] \in Threads
    BY ChatServiceAssumption
  <2> QED
    BY <2>1 DEF OrderInv, ReaderInOrder, Line, Running
<1>2. ReaderAddressed'
  BY DEF OrderInv, ReaderAddressed
<1>3. OutboxYoungest' /\ Numbered'
  BY DEF OrderInv, OutboxYoungest, Numbered, Out, Line, Running
<1> QED
  BY <1>1, <1>2, <1>3, <1>4

(* ... if it neither starts nor ends a login.                              *)
LEMMA OrderQuiet ==
  ASSUME OrderInv, UNCHANGED <<pending, batch, mail, dbOffline, recv, outbox, nsent>>,
         \A x \in Threads : \A u \in Users : LogsIn(x, u)' <=> LogsIn(x, u)
  PROVE  OrderInv'
<1>1. TableInTurn'
  BY DEF OrderInv, TableInTurn, Line, Running
<1> QED
  BY <1>1, OrderStays DEF OrderInv

(* A login of an account finds nothing in line for it if the map does not  *)
(* name the account, because the client is handled again, and no rows of it*)
(* if the map does.                                                        *)
LEMMA OrderGranted ==
  ASSUME AccountsApart, TypeOK, WaitInv, OrderInv,
         NEW t \in Threads, NEW c \in Conns, NEW u \in Users, LoginGranted(t, c, u)
  PROVE  OrderInv'
<1>1. /\ UNCHANGED <<pending, batch, mail, dbOffline, recv, outbox, nsent>>
      /\ pc[t] = "dispatch" /\ pc'[t] = "insert" /\ id'[t] = u /\ c \in active[t] /\ u \in Accounts[c]
      /\ \A x \in Threads : x # t => pc'[x] = pc[x] /\ id'[x] = id[x]
  BY DEF LoginGranted, Take, Goto, TypeOK, RequestType, dbVars, mapVars, histVars
<1>2. /\ ~LogsIn(t, u) /\ \A v \in Users : ~LogsIn(t, v)
      /\ LogsIn(t, u)' /\ \A v \in Users : v # u => ~LogsIn(t, v)'
      /\ \A x \in Threads : x # t => \A v \in Users : LogsIn(x, v)' <=> LogsIn(x, v)
  BY <1>1 DEF LogsIn, LoginSteps
<1>3. Range(mail[t]) = {} /\ \A m \in Range(dbOffline[u]) : m.to = u
  BY <1>1, RangeEmpty DEF WaitInv, CleanInv, EmptyHands, AddressInv, RowsAddressed
<1>4. ASSUME userConnMap[u] # NoConn PROVE Range(dbOffline[u]) = {}
  <2>1. userConnMap[u] = c /\ LoopOf[c] = t
    BY <1>1, <1>4 DEF TypeOK, MapType, WaitInv, RouteInv, EntryOwned, ActiveOnOwnLoop, AccountsApart
  <2>2. dbOffline[u] = <<>>
    BY <1>1, <1>4, <2>1 DEF WaitInv, RowsFetched, FetchesFor
  <2> QED
    BY <2>2, RangeEmpty
<1>5. ASSUME userConnMap[u] = NoConn PROVE \A m \in Line(t) : m.to # u
  <2>1. ASSUME NEW m \in Line(t), m.to = u PROVE FALSE
    <3>1. PICK f \in Range(pending[t]) : f.copy = m /\ f.conn = c
      BY <1>1, <2>1, LineOf DEF WaitInv
    <3> QED
      BY <1>1, <1>5, <2>1, <3>1, ChatServiceAssumption DEF WaitInv, WaitsInTurn
  <2> QED
    BY <2>1
<1>6. Older(Range(dbOffline[u]) \cup Range(mail[t]), Line(t))
  BY <1>3, <1>4, <1>5 DEF Older
<1>7. \A x \in Threads : Line(x)' = Line(x) /\ Running(x)' = Running(x)
  BY <1>1 DEF Line, Running
<1>8. TableInTurn'
  BY <1>1, <1>2, <1>6, <1>7 DEF OrderInv, TableInTurn
<1> QED
  BY <1>1, <1>8, OrderStays DEF OrderInv

(* The login reads the rows in order ...                                   *)
LEMMA OrderFetch ==
  ASSUME MaxDbFaults = 0, TypeOK, WaitInv, OrderInv, NEW t \in Threads, LoginFetch(t)
  PROVE  OrderInv'
<1>1. /\ UNCHANGED <<pending, batch, dbOffline, recv, outbox, nsent, session, id>>
      /\ pc[t] = "fetch" /\ pc'[t] \in LoginSteps /\ mail'[t] = dbOffline[id[t]] /\ id[t] \in Users
      /\ \A x \in Threads : x # t => pc'[x] = pc[x] /\ mail'[x] = mail[x]
  BY DEF LoginFetch, QueryOffline, Fails, Goto, LoginSteps, TypeOK, DbType, RequestType, MailType,
         loopVars, cliVars, histVars
<1>2. \A x \in Threads : Line(x)' = Line(x) /\ Running(x)' = Running(x)
  BY <1>1 DEF Line, Running
<1>3. \A x \in Threads : \A u \in Users : LogsIn(x, u)' <=> LogsIn(x, u)
  BY <1>1 DEF LogsIn, LoginSteps
<1>4. \A m : Out(m)' => Out(m)
  BY <1>1, <1>2 DEF Out
<1>5. OneRequest' /\ FromElsewhere' /\ RowsInOrder' /\ ReaderAddressed'
  BY <1>1, <1>2 DEF OrderInv, OneRequest, FromElsewhere, RowsInOrder, ReaderAddressed
<1>6. QueuesInOrder'
  BY <1>1, <1>2 DEF OrderInv, QueuesInOrder, RowsInOrder
<1>7. TableInTurn'
  <2>1. LogsIn(t, id[t]) /\ \A u \in Users : u # id[t] => ~LogsIn(t, u)
    BY <1>1 DEF LogsIn, LoginSteps
  <2> QED
    BY <1>1, <1>2, <1>3, <2>1 DEF OrderInv, TableInTurn, Older
<1>8. ReaderInOrder'
  <2>1. \A d \in Conns : LoopOf[d] \in Threads
    BY ChatServiceAssumption
  <2>2. \A d \in Conns : \/ mail'[LoopOf[d]] = mail[LoopOf[d]]
                        \/ mail'[LoopOf[d]] = dbOffline[id[t]]
    BY <1>1, <2>1
  <2> QED
    BY <1>1, <1>2, <2>1, <2>2 DEF OrderInv, ReaderInOrder, Older
<1>9. OutboxYoungest' /\ Numbered'
  BY <1>1, <1>4 DEF OrderInv, OutboxYoungest, Numbered
<1> QED
  BY <1>5, <1>6, <1>7, <1>8, <1>9 DEF OrderInv

(* ... removes them ...                                                    *)
LEMMA OrderRemove ==
  ASSUME MaxDbFaults = 0, TypeOK, WaitInv, OrderInv, NEW t \in Threads, LoginRemove(t)
  PROVE  OrderInv'
<1>1. /\ UNCHANGED <<pending, batch, mail, recv, outbox, nsent, session, id>>
      /\ pc[t] = "remove" /\ pc'[t] \in LoginSteps /\ dbOffline'[id[t]] = <<>>
      /\ \A x \in Threads : x # t => pc'[x] = pc[x]
      /\ \A u \in Users : u # id[t] => dbOffline'[u] = dbOffline[u]
  BY DEF LoginRemove, RemoveOffline, Fails, Goto, LoginSteps, TypeOK, DbType, RequestType,
         loopVars, reqVars, cliVars, histVars
<1>2. \A x \in Threads : Line(x)' = Line(x) /\ Running(x)' = Running(x)
  BY <1>1 DEF Line, Running
<1>3. \A x \in Threads : \A u \in Users : LogsIn(x, u)' <=> LogsIn(x, u)
  BY <1>1 DEF LogsIn, LoginSteps
<1>4. \A u \in Users : \/ dbOffline'[u] = dbOffline[u]
                       \/ dbOffline'[u] = <<>> /\ Range(dbOffline'[u]) = {}
  BY <1>1, RangeEmpty
<1>5. \A m : Out(m)' => Out(m)
  BY <1>1, <1>2, <1>4 DEF Out
<1>6. OneRequest' /\ FromElsewhere' /\ QueuesInOrder' /\ ReaderAddressed'
  BY <1>1, <1>2 DEF OrderInv, OneRequest, FromElsewhere, QueuesInOrder, ReaderAddressed
<1>7. RowsInOrder'
  BY <1>4 DEF OrderInv, RowsInOrder, InOrder
<1>8. TableInTurn'
  BY <1>1, <1>2, <1>3, <1>4 DEF OrderInv, TableInTurn, Older
<1>9. ReaderInOrder'
  <2>1. \A d \in Conns : LoopOf[d] \in Threads
    BY ChatServiceAssumption
  <2> QED
    BY <1>1, <1>2, <1>4, <2>1 DEF OrderInv, ReaderInOrder, Older
<1>10. OutboxYoungest' /\ Numbered'
  BY <1>1, <1>5 DEF OrderInv, OutboxYoungest, Numbered
<1> QED
  BY <1>6, <1>7, <1>8, <1>9, <1>10 DEF OrderInv

(* A copy that is written to its reader is younger than what the reader has*)
(* and older than what waits.                                              *)
LEMMA ReaderGets ==
  ASSUME TypeOK, OrderInv, NEW c \in Conns, NEW m \in Copy, recv' = [recv EXCEPT ![c] = Append(@, m)],
         \A x \in Threads : /\ Line(x)' \subseteq Line(x) /\ Running(x)' \subseteq Running(x)
                            /\ Range(mail'[x]) \subseteq Range(mail[x]),
         \A u \in Users : Range(dbOffline'[u]) \subseteq Range(dbOffline[u]),
         Older(Range(recv[c]), {m}),
         Older({m}, Line(LoopOf[c])' \cup Running(LoopOf[c])' \cup Range(mail[LoopOf[c]])'),
         \A u \in Users : Older({m}, Range(dbOffline'[u]))
  PROVE  ReaderInOrder'
<1>1. /\ recv[c] \in Seq(Copy) /\ recv'[c] = Append(recv[c], m)
      /\ \A d \in Conns : d # c => recv'[d] = recv[d]
  BY DEF TypeOK, HistoryType
<1>2. Range(recv'[c]) = Range(recv[c]) \cup {m}
  BY <1>1, RangeAppend
<1>3. InOrder(recv'[c])
  BY <1>1, OrderAppend DEF OrderInv, ReaderInOrder
<1>4. \A d \in Conns : LoopOf[d] \in Threads
  BY ChatServiceAssumption
<1>5. ASSUME NEW d \in Conns
      PROVE  /\ InOrder(recv'[d])
             /\ Older(Range(recv'[d]), Line(LoopOf[d])' \cup Running(LoopOf[d])' \cup Range(mail'[LoopOf[d]]))
             /\ \A u \in Users : Older(Range(recv'[d]), Range(dbOffline'[u]))
  <2>1. /\ InOrder(recv[d])
        /\ Older(Range(recv[d]), Line(LoopOf[d])' \cup Running(LoopOf[d])' \cup Range(mail'[LoopOf[d]]))
        /\ \A u \in Users : Older(Range(recv[d]), Range(dbOffline'[u]))
    BY <1>4 DEF OrderInv, ReaderInOrder, Older
  <2>2. CASE d = c
    BY <1>2, <1>3, <2>1, <2>2 DEF Older
  <2>3. CASE d # c
    BY <1>1, <2>1, <2>3
  <2> QED
    BY <2>2, <2>3
<1> QED
  BY <1>5 DEF ReaderInOrder

(* ... and answers with them: they are younger than what the client has and*)
(* older than what its loop has queued since the entry is in the map.      *)
LEMMA OrderReply ==
  ASSUME TypeOK, WaitInv, OrderInv, NEW t \in Threads, LoginReply(t)
  PROVE  OrderInv'
<1>1. PICK c \in Conns : c = cur[t]
  BY DEF LoginReply, LoginSteps, TypeOK, RequestType
<1>2. PICK u \in Users : u = id[t]
  BY DEF LoginReply, LoginSteps, TypeOK, RequestType
<1>3. /\ pc[t] = "reply" /\ LoopOf[c] = t /\ session[c] = u /\ userConnMap[u] = c
  BY <1>1, <1>2 DEF LoginReply, WaitInv, RouteInv, LoginOwned, LoginHasEntry, LoginSteps
<1>4. /\ UNCHANGED <<pending, batch, dbOffline, outbox, nsent, session>>
      /\ pc'[t] = "dispatch" /\ mail'[t] = <<>> /\ mail[t] \in Seq(Copy)
      /\ \A x \in Threads : x # t => pc'[x] = pc[x] /\ id'[x] = id[x] /\ mail'[x] = mail[x]
  BY DEF LoginReply, Return, Goto, TypeOK, RequestType, MailType, dbVars, loopVars, cliVars
<1>5. \/ UNCHANGED recv
      \/ recv'[c] = recv[c] \o mail[t] /\ \A d \in Conns : d # c => recv'[d] = recv[d]
  BY <1>1 DEF LoginReply, TypeOK, HistoryType
<1>6. \A d \in Conns : recv[d] \in Seq(Copy) /\ LoopOf[d] \in Threads
  BY ChatServiceAssumption DEF TypeOK, HistoryType
<1>7. dbOffline[u] = <<>> /\ Range(dbOffline[u]) = {}
  BY <1>3, RangeEmpty, ChatServiceAssumption DEF WaitInv, RowsFetched, FetchesFor
<1>8. \A x \in Threads : Line(x)' = Line(x) /\ Running(x)' = Running(x)
  BY <1>4 DEF Line, Running
<1>9. Range(mail'[t]) = {} /\ InOrder(mail'[t]) /\ Running(t) = {}
  <2>1. batch[t] = <<>>
    BY <1>3 DEF WaitInv, CleanInv, EmptyHands
  <2> QED
    BY <1>4, <2>1, RangeEmpty DEF Messages, Running, InOrder
<1>10. LogsIn(t, u) /\ \A v \in Users : ~LogsIn(t, v)' /\ (v # u => ~LogsIn(t, v))
  BY <1>2, <1>3, <1>4 DEF LogsIn, LoginSteps
<1>11. \A x \in Threads : x # t => \A v \in Users : LogsIn(x, v)' <=> LogsIn(x, v)
  BY <1>4 DEF LogsIn
<1>12. \A d \in Conns : \/ recv'[d] = recv[d]
                        \/ d = c /\ Range(recv'[d]) = Range(recv[c]) \cup Range(mail[t])
  <2>1. Range(recv[c] \o mail[t]) = Range(recv[c]) \cup Range(mail[t])
    BY <1>4, <1>6, RangeConcat
  <2> QED
    BY <1>5, <2>1
<1>13. \A m : Out(m)' => Out(m)
  BY <1>4, <1>8, <1>9, <1>12 DEF Out
<1>14. OneRequest' /\ FromElsewhere' /\ RowsInOrder'
  BY <1>4, <1>8 DEF OrderInv, OneRequest, FromElsewhere, RowsInOrder
<1>15. QueuesInOrder'
  BY <1>4, <1>8, <1>9 DEF OrderInv, QueuesInOrder
<1>16. TableInTurn'
  <2>1. \A v \in Users : Older(Line(t)' \cup Running(t)', Range(dbOffline'[v]))
    BY <1>4, <1>7, <1>8, <1>10 DEF OrderInv, TableInTurn, Older
  <2> QED
    BY <1>4, <1>8, <1>10, <1>11, <2>1 DEF OrderInv, TableInTurn
<1>17. ReaderInOrder'
  <2>1. ASSUME NEW d \in Conns, recv'[d] = recv[d]
        PROVE  /\ InOrder(recv'[d])
               /\ Older(Range(recv'[d]), Line(LoopOf[d])' \cup Running(LoopOf[d])' \cup Range(mail'[LoopOf[d]]))
               /\ \A v \in Users : Older(Range(recv'[d]), Range(dbOffline'[v]))
    <3>1. Range(mail'[LoopOf[d]]) \subseteq Range(mail[LoopOf[d]])
      BY <1>4, <1>6, <1>9
    <3> QED
      BY <1>4, <1>6, <1>8, <2>1, <3>1 DEF OrderInv, ReaderInOrder, Older
  <2>2. ASSUME recv'[c] = recv[c] \o mail[t]
        PROVE  /\ InOrder(recv'[c])
               /\ Older(Range(recv'[c]), Line(t)' \cup Running(t)' \cup Range(mail'[t]))
               /\ \A v \in Users : Older(Range(recv'[c]), Range(dbOffline'[v]))
    <3>1. /\ InOrder(recv[c]) /\ InOrder(mail[t]) /\ Older(Range(recv[c]), Range(mail[t]))
          /\ Older(Range(recv[c]), Line(t))
          /\ \A v \in Users : Older(Range(recv[c]), Range(dbOffline[v]))
      BY <1>3 DEF OrderInv, ReaderInOrder, QueuesInOrder, Older
    <3>2. InOrder(recv'[c]) /\ Range(recv'[c]) = Range(recv[c]) \cup Range(mail[t])
      BY <1>4, <1>6, <2>2, <3>1, OrderConcat, RangeConcat
    <3>3. Older(Range(mail[t]), Line(t))
      BY <1>10 DEF OrderInv, TableInTurn, Older
    <3>4. \A v \in Users : Older(Range(mail[t]), Range(dbOffline[v]))
      BY <1>2, <1>7 DEF WaitInv, AddressInv, MailAddressed, RowsAddressed, Older
    <3> QED
      BY <1>4, <1>8, <1>9, <3>1, <3>2, <3>3, <3>4 DEF Older
  <2> QED
    BY <1>3, <1>5, <2>1, <2>2 DEF ReaderInOrder
<1>18. ReaderAddressed'
  <2>1. u \in Accounts[c]
    BY <1>3, ChatServiceAssumption DEF WaitInv, RouteInv, SessionOwned
  <2> QED
    BY <1>2, <1>12, <2>1 DEF OrderInv, ReaderAddressed, WaitInv, AddressInv, MailAddressed
<1>19. OutboxYoungest' /\ Numbered'
  BY <1>4, <1>13 DEF OrderInv, OutboxYoungest, Numbered
<1> QED
  BY <1>14, <1>15, <1>16, <1>17, <1>18, <1>19 DEF OrderInv

(* A new request is younger than everything the server has seen.           *)
LEMMA OrderAccept ==
  ASSUME TypeOK, WaitInv, OrderInv, NEW t \in Threads, NEW c \in Conns, NEW copies \in SUBSET Copy,
         Take(t, c), phase[c] = "main", Accept(t, c, copies),
         \A o \in copies : o.n = nsent + 1 /\ o.from = session[c]
  PROVE  OrderInv'
<1>1. /\ UNCHANGED <<pending, batch, mail, dbOffline, recv, session, id>>
      /\ nsent \in Nat /\ nsent' = nsent + 1 /\ outbox'[t] = copies
      /\ pc[t] = "dispatch" /\ pc'[t] \in {"dispatch", "deliver"} /\ c \in active[t]
      /\ \A x \in Threads : x # t => pc'[x] = pc[x] /\ outbox'[x] = outbox[x]
  BY ChatServiceAssumption DEF Take, Accept, Goto, TypeOK, RequestType, MailType, HistoryType, cliVars
<1>2. LoopOf[c] = t /\ session[c] \in Accounts[c]
  BY <1>1 DEF WaitInv, RouteInv, ActiveOnOwnLoop, SessionOwned, TypeOK, ClientType
<1>3. \A x \in Threads : Line(x)' = Line(x) /\ Running(x)' = Running(x)
  BY <1>1 DEF Line, Running
<1>4. \A x \in Threads : \A u \in Users : LogsIn(x, u)' <=> LogsIn(x, u)
  BY <1>1 DEF LogsIn, LoginSteps
<1>5. \A m : Out(m)' => Out(m)
  BY <1>1, <1>3 DEF Out
<1>6. OneRequest'
  BY <1>1, <1>2 DEF OrderInv, OneRequest
<1>7. FromElsewhere' /\ QueuesInOrder' /\ RowsInOrder' /\ ReaderAddressed'
  BY <1>1, <1>3 DEF OrderInv, FromElsewhere, QueuesInOrder, RowsInOrder, ReaderAddressed
<1>8. TableInTurn'
  BY <1>1, <1>3, <1>4 DEF OrderInv, TableInTurn
<1>9. ReaderInOrder'
  <2>1. \A d \in Conns : LoopOf[d] \in Threads
    BY ChatServiceAssumption
  <2> QED
    BY <1>1, <1>3, <2>1 DEF OrderInv, ReaderInOrder
<1>10. OutboxYoungest'
  <2>1. ASSUME NEW x \in Threads, NEW o \in outbox'[x], NEW m \in Copy, Out(m)
        PROVE  Older({m}, {o})
    <3>1. CASE x # t
      BY <1>1, <2>1, <3>1 DEF OrderInv, OutboxYoungest
    <3>2. CASE x = t
      <4>1. o.n = nsent + 1 /\ m.n <= nsent /\ m.n \in Nat
        BY <1>1, <2>1, <3>2 DEF OrderInv, Numbered, Copy
      <4> QED
        BY <1>1, <4>1 DEF Older
    <3> QED
      BY <3>1, <3>2
  <2> QED
    BY <1>5, <2>1 DEF OutboxYoungest
<1>11. Numbered'
  <2>1. \A m \in Copy : Out(m)' => m.n <= nsent + 1
    BY <1>1, <1>5 DEF OrderInv, Numbered, Copy
  <2>2. \A x \in Threads : \A o \in outbox'[x] : o.n <= nsent + 1
    <3>1. \A x \in Threads : \A o \in outbox[x] : o.n \in Nat /\ o.n <= nsent
      BY CopiesOf DEF OrderInv, Numbered, Copy
    <3> QED
      BY <1>1, <3>1
  <2> QED
    BY <1>1, <2>1, <2>2 DEF Numbered
<1> QED
  BY <1>6, <1>7, <1>8, <1>9, <1>10, <1>11 DEF OrderInv

(* The functors queued so far become those that run.                       *)
LEMMA OrderSwap ==
  ASSUME TypeOK, WaitInv, OrderInv, NEW t \in Threads, SwapFunctors(t)
  PROVE  OrderInv'
<1>1. /\ UNCHANGED <<mail, dbOffline, recv, outbox, nsent, session, id>>
      /\ pc[t] = "dispatch" /\ pc'[t] \in {"poll", "functors"}
      /\ pending'[t] = <<>> /\ batch'[t] = pending[t] /\ batch[t] = <<>>
      /\ \A x \in Threads : x # t => pc'[x] = pc[x] /\ pending'[x] = pending[x] /\ batch'[x] = batch[x]
  BY DEF SwapFunctors, Goto, TypeOK, LoopType, RequestType, WaitInv, CleanInv, EmptyHands,
         dbVars, reqVars, cliVars, histVars
<1>2. Messages(<<>>) = <<>> /\ InOrder(<<>>)
  BY DEF Messages, InOrder
<1>3. /\ Line(t)' = {} /\ Running(t) = {} /\ Running(t)' = Line(t)
      /\ Messages(pending[t])' = <<>> /\ Messages(batch[t])' = Messages(pending[t])
      /\ \A x \in Threads : x # t => Line(x)' = Line(x) /\ Running(x)' = Running(x)
  BY <1>1, <1>2, RangeEmpty DEF Messages, Line, Running
<1>4. \A x \in Threads : \A u \in Users : LogsIn(x, u)' <=> LogsIn(x, u)
  BY <1>1 DEF LogsIn, LoginSteps
<1>5. \A u \in Users : ~LogsIn(t, u)
  BY <1>1 DEF LogsIn, LoginSteps
<1>6. \A x \in Threads : Line(x)' \cup Running(x)' = Line(x) \cup Running(x)
  BY <1>3
<1>7. \A m : Out(m)' => Out(m)
  BY <1>1, <1>6 DEF Out
<1>8. OneRequest' /\ FromElsewhere' /\ RowsInOrder' /\ ReaderAddressed'
  BY <1>1, <1>6 DEF OrderInv, OneRequest, FromElsewhere, RowsInOrder, ReaderAddressed
<1>9. QueuesInOrder'
  <2>1. ASSUME NEW x \in Threads
        PROVE  /\ InOrder(Messages(pending[x]))' /\ InOrder(Messages(batch[x]))' /\ InOrder(mail[x])'
               /\ Older(Running(x), Line(x))'
    <3>1. CASE x = t
      BY <1>1, <1>2, <1>3, <3>1 DEF OrderInv, QueuesInOrder, Older
    <3>2. CASE x # t
      <4>1. Messages(pending[x])' = Messages(pending[x]) /\ Messages(batch[x])' = Messages(batch[x])
        BY <1>1, <3>2 DEF Messages
      <4> QED
        BY <1>1, <1>3, <3>2, <4>1 DEF OrderInv, QueuesInOrder
    <3> QED
      BY <3>1, <3>2
  <2> QED
    BY <2>1 DEF QueuesInOrder
<1>10. TableInTurn'
  BY <1>1, <1>3, <1>4, <1>5, <1>6 DEF OrderInv, TableInTurn
<1>11. ReaderInOrder'
  <2>1. \A d \in Conns : LoopOf[d] \in Threads
    BY ChatServiceAssumption
  <2> QED
    BY <1>1, <1>6, <2>1 DEF OrderInv, ReaderInOrder
<1>12. OutboxYoungest' /\ Numbered'
  BY <1>1, <1>7 DEF OrderInv, OutboxYoungest, Numbered
<1> QED
  BY <1>8, <1>9, <1>10, <1>11, <1>12 DEF OrderInv

(* The first of them is written: the rest of the batch, the queue behind it*)
(* and the rows of the table are younger.                                  *)
LEMMA OrderRun ==
  ASSUME TypeOK, WaitInv, OrderInv, NEW t \in Threads, RunFunctor(t)
  PROVE  OrderInv'
<1>1. /\ UNCHANGED <<pending, mail, dbOffline, outbox, nsent, session, id>>
      /\ pc[t] = "functors" /\ pc'[t] \in {"poll", "functors"}
      /\ batch[t] \in Seq(Functor) /\ batch[t] # <<>> /\ batch'[t] = Tail(batch[t])
      /\ \A x \in Threads : x # t => pc'[x] = pc[x] /\ batch'[x] = batch[x]
  BY DEF RunFunctor, Goto, TypeOK, LoopType, RequestType, dbVars, reqVars, cliVars
<1>2. PICK f \in Functor : f = Head(batch[t])
  BY <1>1, HeadTailProperties
<1>3. PICK k \in Copy : k = f.copy
  BY DEF Functor
<1>4. PICK c \in Conns : c = f.conn
  BY DEF Functor
<1>5. Write(c, k)
  BY <1>2, <1>3, <1>4 DEF RunFunctor
<1>6. LoopOf[c] = t /\ k.to \in Accounts[c]
  <2>1. f \in Range(batch[t])
    BY <1>1, <1>2, RangeHeadTail
  <2> QED
    BY <1>3, <1>4, <2>1 DEF WaitInv, AddressInv, FunctorsReach, ClientOf
<1>7. /\ Messages(batch[t]) \in Seq(Copy) /\ Messages(batch[t]) # <<>>
      /\ Head(Messages(batch[t])) = k /\ Messages(Tail(batch[t])) = Tail(Messages(batch[t]))
  BY <1>1, <1>2, <1>3, MessagesOf
<1>8. /\ \A x \in Threads : Line(x)' = Line(x) /\ (x # t => Running(x)' = Running(x))
      /\ Running(t)' = Range(Tail(Messages(batch[t])))
  BY <1>1, <1>7 DEF Line, Running, Messages
<1>9. Running(t) = {k} \cup Running(t)'
  BY <1>7, <1>8, RangeHeadTail DEF Running
<1>10. InOrder(Tail(Messages(batch[t]))) /\ Older({k}, Running(t)')
  BY <1>7, <1>8, OrderTail DEF OrderInv, QueuesInOrder
<1>11. /\ Older(Running(t), Line(t))
       /\ \A u \in Users : Older(Line(t) \cup Running(t), Range(dbOffline[u]))
  BY <1>1 DEF OrderInv, QueuesInOrder, TableInTurn, LogsIn, LoginSteps
<1>12. \A x \in Threads : Running(x)' \subseteq Running(x)
  BY <1>8, <1>9
<1>13. \A x \in Threads : \A u \in Users : LogsIn(x, u)' <=> LogsIn(x, u)
  BY <1>1 DEF LogsIn, LoginSteps
<1>14. \/ UNCHANGED recv
       \/ recv' = [recv EXCEPT ![c] = Append(@, k)]
  BY <1>5 DEF Write
<1>15. \A d \in Conns : recv[d] \in Seq(Copy) /\ LoopOf[d] \in Threads
  BY ChatServiceAssumption DEF TypeOK, HistoryType
<1>16. \A d \in Conns : \/ recv'[d] = recv[d]
                        \/ d = c /\ Range(recv'[d]) = Range(recv[d]) \cup {k}
  <2>1. Range(Append(recv[c], k)) = Range(recv[c]) \cup {k}
    BY <1>15, RangeAppend
  <2> QED
    BY <1>14, <2>1 DEF TypeOK, HistoryType
<1>17. \A m : Out(m)' => Out(m)
  BY <1>1, <1>8, <1>9, <1>12, <1>16 DEF Out
<1>18. OneRequest' /\ FromElsewhere' /\ RowsInOrder'
  BY <1>1, <1>8, <1>12 DEF OrderInv, OneRequest, FromElsewhere, RowsInOrder
<1>19. QueuesInOrder'
  <2>1. ASSUME NEW x \in Threads
        PROVE  /\ InOrder(Messages(pending[x]))' /\ InOrder(Messages(batch[x]))' /\ InOrder(mail[x])'
               /\ Older(Running(x), Line(x))'
    <3>1. Older(Running(x), Line(x))'
      BY <1>8, <1>12 DEF OrderInv, QueuesInOrder, Older
    <3>2. CASE x = t
      <4>1. Messages(pending[x])' = Messages(pending[x]) /\ Messages(batch[x])' = Messages(Tail(batch[x]))
        BY <1>1, <3>2 DEF Messages
      <4> QED
        BY <1>1, <1>7, <1>10, <3>1, <3>2, <4>1 DEF OrderInv, QueuesInOrder
    <3>3. CASE x # t
      <4>1. Messages(pending[x])' = Messages(pending[x]) /\ Messages(batch[x])' = Messages(batch[x])
        BY <1>1, <3>3 DEF Messages
      <4> QED
        BY <1>1, <3>1, <3>3, <4>1 DEF OrderInv, QueuesInOrder
    <3> QED
      BY <3>2, <3>3
  <2> QED
    BY <2>1 DEF QueuesInOrder
<1>20. TableInTurn'
  BY <1>1, <1>8, <1>12, <1>13 DEF OrderInv, TableInTurn, Older
<1>21. ReaderInOrder'
  <2>1. CASE UNCHANGED recv
    BY <1>1, <1>8, <1>12, <1>15, <2>1 DEF OrderInv, ReaderInOrder, Older
  <2>2. CASE recv' = [recv EXCEPT ![c] = Append(@, k)]
    <3>1. Older(Range(recv[c]), {k})
      BY <1>6, <1>9 DEF OrderInv, ReaderInOrder, Older
    <3>2. Range(mail[t]) = {}
      BY <1>1, RangeEmpty DEF WaitInv, CleanInv, EmptyHands
    <3>3. Older({k}, Line(LoopOf[c])' \cup Running(LoopOf[c])' \cup Range(mail[LoopOf[c]])')
      BY <1>1, <1>6, <1>8, <1>9, <1>10, <1>11, <3>2 DEF Older
    <3>4. \A u \in Users : Older({k}, Range(dbOffline'[u]))
      BY <1>1, <1>9, <1>11 DEF Older
    <3> QED
      BY <1>1, <1>8, <1>12, <2>2, <3>1, <3>3, <3>4, ReaderGets
  <2> QED
    BY <1>14, <2>1, <2>2
<1>22. ReaderAddressed'
  BY <1>1, <1>6, <1>16 DEF OrderInv, ReaderAddressed
<1>23. OutboxYoungest' /\ Numbered'
  BY <1>1, <1>17 DEF OrderInv, OutboxYoungest, Numbered
<1> QED
  BY <1>18, <1>19, <1>20, <1>21, <1>22, <1>23 DEF OrderInv

(* Handing a copy out of an outbox: what stays there goes elsewhere or     *)
(* comes from elsewhere.                                                   *)
LEMMA OrderHandOut ==
  ASSUME AccountsApart, TypeOK, OrderInv, NEW t \in Threads, NEW k \in outbox[t],
         outbox' = [outbox EXCEPT ![t] = outbox[t] \ {k}], UNCHANGED nsent,
         \A m \in Copy : Out(m)' => Out(m) \/ m = k
  PROVE  OneRequest' /\ OutboxYoungest' /\ Numbered'
<1>1. /\ k \in Copy /\ outbox'[t] = outbox[t] \ {k}
      /\ \A x \in Threads : outbox'[x] \subseteq outbox[x] /\ outbox[x] \subseteq Copy
  BY DEF TypeOK, MailType
<1>2. OneRequest'
  BY <1>1 DEF OrderInv, OneRequest
<1>3. OutboxYoungest'
  <2>1. ASSUME NEW x \in Threads, NEW o \in outbox'[x]
        PROVE  Older({k}, {o})
    <3>1. o \in Copy /\ o \in outbox[x]
      BY <1>1, <2>1
    <3>2. CASE x = t
      <4>1. o # k /\ o.n = k.n /\ o.from = k.from
        BY <1>1, <3>1, <3>2 DEF OrderInv, OneRequest
      <4>2. o.to # k.to
        BY <1>1, <3>1, <4>1 DEF Copy
      <4> QED
        BY <4>2 DEF Older
    <3>3. CASE x # t
      <4>1. o.from # k.from
        BY <3>1, <3>3 DEF OrderInv, OneRequest, AccountsApart
      <4> QED
        BY <4>1 DEF Older
    <3> QED
      BY <3>2, <3>3
  <2> QED
    BY <1>1, <2>1 DEF OrderInv, OutboxYoungest
<1>4. Numbered'
  BY <1>1 DEF OrderInv, Numbered
<1> QED
  BY <1>2, <1>3, <1>4

(* What every round of Deliver knows of its copy and leaves alone.         *)
HandsOut(t, k) ==
  /\ pc[t] = "deliver" /\ k \in outbox[t]
  /\ outbox' = [outbox EXCEPT ![t] = outbox[t] \ {k}]
  /\ \A x \in Threads : \A u \in Users : LogsIn(x, u)' <=> LogsIn(x, u)
  /\ UNCHANGED <<batch, mail, nsent, session>>

LEMMA Youngest ==
  ASSUME TypeOK, OrderInv, NEW t \in Threads, NEW k \in outbox[t]
  PROVE  /\ k \in Copy
         /\ \A x \in Threads : Older(Line(x) \cup Running(x) \cup Range(mail[x]), {k})
         /\ \A u \in Users : Older(Range(dbOffline[u]), {k})
         /\ \A d \in Conns : Older(Range(recv[d]), {k})
<1>1. \A m \in Copy : Out(m) => Older({m}, {k})
  BY DEF OrderInv, OutboxYoungest
<1> QED
  BY <1>1, CopiesOf DEF Out, Older

(* A row that is stored is the youngest; no functor waits for its reader   *)
(* if that one is logging in.                                              *)
LEMMA OrderStore ==
  ASSUME AccountsApart, TypeOK, WaitInv, OrderInv, NEW t \in Threads, NEW k, HandsOut(t, k),
         userConnMap[k.to] = NoConn, dbOffline' = [dbOffline EXCEPT ![k.to] = Append(@, k)],
         UNCHANGED <<pending, recv>>
  PROVE  OrderInv'
<1>0. k \in outbox[t] /\ k \in Copy /\ k.to \in Users
  BY DEF HandsOut, TypeOK, MailType, Copy
<1>1. /\ dbOffline[k.to] \in Seq(Copy) /\ dbOffline'[k.to] = Append(dbOffline[k.to], k)
      /\ \A v \in Users : v # k.to => dbOffline'[v] = dbOffline[v]
  BY <1>0 DEF TypeOK, DbType
<1>2. Range(dbOffline'[k.to]) = Range(dbOffline[k.to]) \cup {k}
  BY <1>0, <1>1, RangeAppend
<1>3. /\ \A x \in Threads : Older(Line(x) \cup Running(x) \cup Range(mail[x]), {k})
      /\ \A u \in Users : Older(Range(dbOffline[u]), {k})
      /\ \A d \in Conns : Older(Range(recv[d]), {k})
  BY <1>0, Youngest
<1>4. /\ UNCHANGED <<batch, mail, nsent, session>>
      /\ \A x \in Threads : Line(x)' = Line(x) /\ Running(x)' = Running(x)
      /\ \A x \in Threads : \A u \in Users : LogsIn(x, u)' <=> LogsIn(x, u)
  BY DEF HandsOut, Line, Running
<1>5. \A v \in Users : \/ dbOffline'[v] = dbOffline[v]
                       \/ v = k.to /\ Range(dbOffline'[v]) = Range(dbOffline[v]) \cup {k}
  BY <1>1, <1>2
<1>6. \A m \in Copy : Out(m)' => Out(m) \/ m = k
  BY <1>4, <1>5 DEF Out
<1>7. OneRequest' /\ OutboxYoungest' /\ Numbered'
  BY <1>0, <1>6, OrderHandOut DEF HandsOut
<1>8. FromElsewhere' /\ QueuesInOrder' /\ ReaderAddressed'
  BY <1>4 DEF OrderInv, FromElsewhere, QueuesInOrder, ReaderAddressed
<1>9. RowsInOrder'
  <2>1. InOrder(dbOffline'[k.to])
    BY <1>0, <1>1, <1>3, OrderAppend DEF OrderInv, RowsInOrder
  <2> QED
    BY <1>1, <2>1 DEF OrderInv, RowsInOrder
<1>10. TableInTurn'
  <2>1. ASSUME NEW x \in Threads, LogsIn(x, k.to), NEW m \in Line(x)
        PROVE  m.to # k.to
    <3>1. SUFFICES ASSUME m.to = k.to PROVE FALSE
      OBVIOUS
    <3>2. /\ cur[x] \in Conns /\ session[cur[x]] = k.to /\ pc[x] \in LoginSteps
      BY <2>1 DEF LogsIn, TypeOK, RequestType, WaitInv, RouteInv, LoginOwned
    <3>3. k.to \in Accounts[cur[x]]
      BY <1>0, <3>2, ChatServiceAssumption DEF WaitInv, RouteInv, SessionOwned
    <3>4. PICK f \in Range(pending[x]) : f.copy = m /\ f.conn = cur[x] /\ f.conn \in Conns
      BY <3>1, <3>2, <3>3, LineOf DEF WaitInv
    <3> QED
      BY <3>1, <3>2, <3>4, ChatServiceAssumption DEF WaitInv, WaitsInTurn
  <2>2. ASSUME NEW x \in Threads, NEW v \in Users, LogsIn(x, v)
        PROVE  Older(Range(dbOffline'[v]) \cup Range(mail[x]), Line(x))
    <3>1. Older(Range(dbOffline[v]) \cup Range(mail[x]), Line(x))
      BY <2>2 DEF OrderInv, TableInTurn
    <3> QED
      BY <1>5, <2>1, <2>2, <3>1 DEF Older
  <2>3. ASSUME NEW x \in Threads, NEW v \in Users, ~LogsIn(x, v)
        PROVE  Older(Line(x) \cup Running(x), Range(dbOffline'[v]))
    <3>1. Older(Line(x) \cup Running(x), Range(dbOffline[v]))
      BY <2>3 DEF OrderInv, TableInTurn
    <3> QED
      BY <1>3, <1>5, <3>1 DEF Older
  <2> QED
    BY <1>4, <2>2, <2>3 DEF TableInTurn
<1>11. ReaderInOrder'
  <2>1. ASSUME NEW d \in Conns
        PROVE  /\ InOrder(recv[d])
               /\ Older(Range(recv[d]), Line(LoopOf[d]) \cup Running(LoopOf[d]) \cup Range(mail[LoopOf[d]]))
               /\ \A u \in Users : Older(Range(recv[d]), Range(dbOffline'[u]))
    <3>1. /\ InOrder(recv[d])
          /\ Older(Range(recv[d]), Line(LoopOf[d]) \cup Running(LoopOf[d]) \cup Range(mail[LoopOf[d]]))
          /\ \A u \in Users : Older(Range(recv[d]), Range(dbOffline[u]))
      BY DEF OrderInv, ReaderInOrder
    <3> QED
      BY <1>3, <1>5, <3>1 DEF Older
  <2>2. \A d \in Conns : LoopOf[d] \in Threads
    BY ChatServiceAssumption
  <2> QED
    BY <1>4, <2>1, <2>2 DEF ReaderInOrder
<1> QED
  BY <1>7, <1>8, <1>9, <1>10, <1>11 DEF OrderInv

(* The rows of a user whose entry is in the map are gone, except while the *)
(* login that made the entry runs.                                         *)
LEMMA NoRows ==
  ASSUME TypeOK, WaitInv, NEW u \in Users, NEW c \in Conns, userConnMap[u] = c,
         ~LogsIn(LoopOf[c], u)
  PROVE  dbOffline[u] = <<>> /\ Range(dbOffline[u]) = {}
<1>1. LoopOf[c] \in Threads /\ c # NoConn
  BY ChatServiceAssumption
<1>2. ~FetchesFor(LoopOf[c], u)
  BY DEF FetchesFor, LogsIn, LoginSteps
<1> QED
  BY <1>1, <1>2, RangeEmpty DEF WaitInv, RowsFetched

(* A copy that is written from the reader's own loop overtakes nothing:    *)
(* what waits there comes from other senders.                              *)
LEMMA OrderWrite ==
  ASSUME AccountsApart, TypeOK, WaitInv, OrderInv, NEW t \in Threads, NEW k, HandsOut(t, k),
         NEW c \in Conns, userConnMap[k.to] = c, LoopOf[c] = t \/ link[c] = "down",
         Write(c, k), UNCHANGED <<pending, dbOffline>>
  PROVE  OrderInv'
<1>0. k \in outbox[t] /\ k \in Copy /\ k.to \in Users
  BY DEF HandsOut, TypeOK, MailType, Copy
<1>1. k.to \in Accounts[c]
  BY <1>0, ChatServiceAssumption DEF WaitInv, RouteInv, EntryOwned
<1>2. /\ UNCHANGED <<batch, mail, nsent, session>> /\ pc[t] = "deliver"
      /\ \A x \in Threads : Line(x)' = Line(x) /\ Running(x)' = Running(x)
      /\ \A x \in Threads : \A u \in Users : LogsIn(x, u)' <=> LogsIn(x, u)
  BY DEF HandsOut, Line, Running
<1>3. \/ UNCHANGED recv
      \/ LoopOf[c] = t /\ recv' = [recv EXCEPT ![c] = Append(@, k)]
  BY DEF Write
<1>4. \A d \in Conns : recv[d] \in Seq(Copy) /\ LoopOf[d] \in Threads
  BY ChatServiceAssumption DEF TypeOK, HistoryType
<1>5. \A d \in Conns : \/ recv'[d] = recv[d]
                       \/ d = c /\ Range(recv'[d]) = Range(recv[d]) \cup {k}
  <2>1. Range(Append(recv[c], k)) = Range(recv[c]) \cup {k}
    BY <1>0, <1>4, RangeAppend
  <2> QED
    BY <1>3, <2>1 DEF TypeOK, HistoryType
<1>6. \A m \in Copy : Out(m)' => Out(m) \/ m = k
  BY <1>2, <1>5 DEF Out
<1>7. OneRequest' /\ OutboxYoungest' /\ Numbered'
  BY <1>0, <1>6, OrderHandOut DEF HandsOut
<1>8. FromElsewhere' /\ QueuesInOrder' /\ RowsInOrder' /\ TableInTurn'
  BY <1>2 DEF OrderInv, FromElsewhere, QueuesInOrder, RowsInOrder, TableInTurn
<1>9. ReaderInOrder'
  <2>1. CASE UNCHANGED recv
    BY <1>2, <1>4, <2>1 DEF OrderInv, ReaderInOrder
  <2>2. CASE LoopOf[c] = t /\ recv' = [recv EXCEPT ![c] = Append(@, k)]
    <3>1. Older(Range(recv[c]), {k})
      BY <1>0, Youngest
    <3>2. Range(mail[t]) = {} /\ Running(t) = {}
      <4>1. mail[t] = <<>> /\ batch[t] = <<>>
        BY <1>2 DEF WaitInv, CleanInv, EmptyHands
      <4> QED
        BY <4>1, RangeEmpty DEF Running, Messages
    <3>3. \A m \in Line(t) : m.from # k.from
      BY <1>0 DEF OrderInv, FromElsewhere, OneRequest, AccountsApart
    <3>4. Older({k}, Line(LoopOf[c])' \cup Running(LoopOf[c])' \cup Range(mail[LoopOf[c]])')
      BY <1>2, <2>2, <3>2, <3>3 DEF Older
    <3>5. Range(dbOffline[k.to]) = {}
      BY <1>0, <1>2, <2>2, NoRows DEF LogsIn, LoginSteps
    <3>6. \A v \in Users : Older({k}, Range(dbOffline'[v]))
      BY <3>5 DEF WaitInv, AddressInv, RowsAddressed, Older
    <3> QED
      BY <1>0, <1>2, <2>2, <3>1, <3>4, <3>6, ReaderGets
  <2> QED
    BY <1>3, <2>1, <2>2
<1>10. ReaderAddressed'
  BY <1>1, <1>2, <1>5 DEF OrderInv, ReaderAddressed
<1> QED
  BY <1>7, <1>8, <1>9, <1>10 DEF OrderInv

(* A functor goes to the end of the line.                                  *)
LEMMA OrderQueue ==
  ASSUME AccountsApart, TypeOK, WaitInv, OrderInv, NEW t \in Threads, NEW k, HandsOut(t, k),
         NEW c \in Conns, userConnMap[k.to] = c, LoopOf[c] # t,
         pending' = [pending EXCEPT ![LoopOf[c]] = Append(@, [conn |-> c, copy |-> k])],
         UNCHANGED <<recv, dbOffline>>
  PROVE  OrderInv'
<1>0. k \in outbox[t] /\ k \in Copy /\ k.to \in Users
  BY DEF HandsOut, TypeOK, MailType, Copy
<1>1. PICK l \in Threads : l = LoopOf[c]
  BY ChatServiceAssumption
<1>2. PICK f \in Functor : f = [conn |-> c, copy |-> k]
  BY <1>0 DEF Functor
<1>3. /\ pending[l] \in Seq(Functor) /\ pending'[l] = Append(pending[l], f) /\ f.copy = k
      /\ \A x \in Threads : x # l => pending'[x] = pending[x]
  BY <1>1, <1>2 DEF TypeOK, LoopType
<1>4. /\ Messages(pending[l]) \in Seq(Copy)
      /\ Messages(Append(pending[l], f)) = Append(Messages(pending[l]), k)
      /\ Range(Append(Messages(pending[l]), k)) = Line(l) \cup {k}
  BY <1>0, <1>3, MessagesOf, RangeAppend DEF Line
<1>5. Messages(pending[l])' = Append(Messages(pending[l]), k)
  BY <1>3, <1>4 DEF Messages
<1>6. Line(l)' = Line(l) \cup {k}
  BY <1>4, <1>5 DEF Line
<1>7. /\ UNCHANGED <<batch, mail, nsent, session>>
      /\ \A x \in Threads : x # l => Line(x)' = Line(x)
      /\ \A x \in Threads : Running(x)' = Running(x) /\ Messages(batch[x])' = Messages(batch[x])
      /\ \A x \in Threads : \A u \in Users : LogsIn(x, u)' <=> LogsIn(x, u)
  <2>1. UNCHANGED <<batch, mail, nsent, session>>
    BY DEF HandsOut
  <2>2. \A x \in Threads : \A u \in Users : LogsIn(x, u)' <=> LogsIn(x, u)
    BY DEF HandsOut
  <2>3. \A x \in Threads : x # l => Line(x)' = Line(x)
    <3>1. \A x \in Threads : x # l => Messages(pending[x])' = Messages(pending[x])
      BY <1>3 DEF Messages
    <3> QED
      BY <3>1 DEF Line
  <2>4. \A x \in Threads : Running(x)' = Running(x) /\ Messages(batch[x])' = Messages(batch[x])
    BY <2>1 DEF Running, Messages
  <2> QED
    BY <2>1, <2>2, <2>3, <2>4
<1>8. \A x \in Threads : Line(x)' = Line(x) \/ (x = l /\ Line(x)' = Line(x) \cup {k})
  BY <1>6, <1>7
<1>9. /\ \A x \in Threads : Older(Line(x) \cup Running(x) \cup Range(mail[x]), {k})
      /\ \A u \in Users : Older(Range(dbOffline[u]), {k})
      /\ \A d \in Conns : Older(Range(recv[d]), {k})
  BY <1>0, Youngest
<1>10. \A m \in Copy : Out(m)' => Out(m) \/ m = k
  BY <1>7, <1>8 DEF Out
<1>11. OneRequest' /\ OutboxYoungest' /\ Numbered'
  BY <1>0, <1>10, OrderHandOut DEF HandsOut
<1>12. FromElsewhere'
  <2>1. \E d \in Conns : LoopOf[d] # l /\ k.from \in Accounts[d]
    BY <1>0, <1>1 DEF OrderInv, OneRequest
  <2> QED
    BY <1>7, <1>8, <2>1 DEF OrderInv, FromElsewhere
<1>13. QueuesInOrder'
  <2>1. InOrder(Messages(pending[l]))'
    BY <1>0, <1>4, <1>5, <1>9, OrderAppend DEF OrderInv, QueuesInOrder, Line, Older
  <2>2. \A x \in Threads : Older(Running(x), Line(x))'
    BY <1>7, <1>8, <1>9 DEF OrderInv, QueuesInOrder, Older
  <2>3. \A x \in Threads : x # l => Messages(pending[x])' = Messages(pending[x])
    BY <1>3 DEF Messages
  <2> QED
    BY <1>7, <2>1, <2>2, <2>3 DEF OrderInv, QueuesInOrder
<1>14. RowsInOrder' /\ ReaderAddressed'
  BY <1>7 DEF OrderInv, RowsInOrder, ReaderAddressed
<1>15. TableInTurn'
  <2>1. ASSUME NEW v \in Users, ~LogsIn(l, v)
        PROVE  Older({k}, Range(dbOffline[v]))
    <3>1. CASE v = k.to
      <4>1. Range(dbOffline[k.to]) = {}
        BY <1>0, <1>1, <2>1, <3>1, NoRows
      <4> QED
        BY <3>1, <4>1 DEF Older
    <3>2. CASE v # k.to
      BY <3>2 DEF WaitInv, AddressInv, RowsAddressed, Older
    <3> QED
      BY <3>1, <3>2
  <2>2. ASSUME NEW x \in Threads, NEW v \in Users
        PROVE  /\ LogsIn(x, v)  => Older(Range(dbOffline[v]) \cup Range(mail[x]), Line(x)')
               /\ ~LogsIn(x, v) => Older(Line(x)' \cup Running(x), Range(dbOffline[v]))
    <3>1. /\ LogsIn(x, v)  => Older(Range(dbOffline[v]) \cup Range(mail[x]), Line(x))
          /\ ~LogsIn(x, v) => Older(Line(x) \cup Running(x), Range(dbOffline[v]))
      BY DEF OrderInv, TableInTurn
    <3> QED
      BY <1>8, <1>9, <2>1, <3>1 DEF Older
  <2> QED
    BY <1>7, <2>2 DEF TableInTurn
<1>16. ReaderInOrder'
  <2>1. ASSUME NEW d \in Conns
        PROVE  /\ InOrder(recv[d])
               /\ Older(Range(recv[d]), Line(LoopOf[d])' \cup Running(LoopOf[d]) \cup Range(mail[LoopOf[d]]))
               /\ \A u \in Users : Older(Range(recv[d]), Range(dbOffline[u]))
    <3>1. /\ InOrder(recv[d]) /\ LoopOf[d] \in Threads
          /\ Older(Range(recv[d]), Line(LoopOf[d]) \cup Running(LoopOf[d]) \cup Range(mail[LoopOf[d]]))
          /\ \A u \in Users : Older(Range(recv[d]), Range(dbOffline[u]))
      BY ChatServiceAssumption DEF OrderInv, ReaderInOrder
    <3> QED
      BY <1>8, <1>9, <3>1 DEF Older
  <2>2. \A d \in Conns : LoopOf[d] \in Threads
    BY ChatServiceAssumption
  <2> QED
    BY <1>7, <2>1, <2>2 DEF ReaderInOrder
<1> QED
  BY <1>11, <1>12, <1>13, <1>14, <1>15, <1>16 DEF OrderInv

LEMMA OrderDeliver ==
  ASSUME AccountsApart, MaxDbFaults = 0, TypeOK, WaitInv, OrderInv, NEW t \in Threads, Deliver(t)
  PROVE  OrderInv'
<1>1. PICK k \in outbox[t] :
        /\ \/ userConnMap[k.to] = NoConn /\ InsertOffline(k) /\ UNCHANGED <<pending, recv>>
           \/ /\ userConnMap[k.to] # NoConn /\ Send(t, userConnMap[k.to], k)
              /\ UNCHANGED dbOffline
        /\ outbox' = [outbox EXCEPT ![t] = Remaining(t, k)]
        /\ Goto(t, IF Remaining(t, k) = {} THEN "dispatch" ELSE "deliver")
  BY DEF Deliver
<1>2. HandsOut(t, k)
  <2>1. pc[t] = "deliver" /\ UNCHANGED <<batch, mail, nsent, session, id>>
    BY DEF Deliver, cliVars
  <2>2. pc'[t] \in {"dispatch", "deliver"} /\ \A x \in Threads : x # t => pc'[x] = pc[x]
    BY <1>1 DEF Goto, TypeOK, RequestType
  <2>3. \A x \in Threads : \A u \in Users : LogsIn(x, u)' <=> LogsIn(x, u)
    BY <2>1, <2>2 DEF LogsIn, LoginSteps
  <2> QED
    BY <1>1, <2>1, <2>3 DEF HandsOut, Remaining
<1>3. CASE userConnMap[k.to] = NoConn /\ InsertOffline(k) /\ UNCHANGED <<pending, recv>>
  <2>1. dbOffline' = [dbOffline EXCEPT ![k.to] = Append(@, k)]
    BY <1>3 DEF InsertOffline, Fails, TypeOK, DbType
  <2> QED
    BY <1>2, <1>3, <2>1, OrderStore
<1>4. CASE userConnMap[k.to] # NoConn /\ Send(t, userConnMap[k.to], k) /\ UNCHANGED dbOffline
  <2>1. k.to \in Users
    BY DEF TypeOK, MailType, Copy
  <2>2. PICK c \in Conns : c = userConnMap[k.to]
    BY <1>4, <2>1 DEF TypeOK, MapType
  <2>3. CASE LoopOf[c] = t \/ link[c] = "down"
    <3>1. Write(c, k) /\ UNCHANGED pending
      BY <1>4, <2>2, <2>3 DEF Send
    <3> QED
      BY <1>2, <1>4, <2>2, <2>3, <3>1, OrderWrite
  <2>4. CASE ~(LoopOf[c] = t \/ link[c] = "down")
    <3>1. /\ pending' = [pending EXCEPT ![LoopOf[c]] = Append(@, [conn |-> c, copy |-> k])]
          /\ UNCHANGED recv
      BY <1>4, <2>2, <2>4 DEF Send
    <3> QED
      BY <1>2, <1>4, <2>2, <2>4, <3>1, OrderQueue
  <2> QED
    BY <2>3, <2>4
<1> QED
  BY <1>1, <1>3, <1>4

(* The end of the process takes what waits in its memory; what was shown   *)
(* and what is stored remain.                                              *)
LEMMA OrderEnds ==
  ASSUME OrderInv, ProcessEnds
  PROVE  OrderInv'
<1>1. /\ UNCHANGED <<dbOffline, nsent, recv>>
      /\ \A x \in Threads : /\ pending'[x] = <<>> /\ batch'[x] = <<>> /\ mail'[x] = <<>>
                            /\ outbox'[x] = {} /\ pc'[x] = "poll"
  BY DEF ProcessEnds, dbVars
<1>2. Messages(<<>>) = <<>> /\ InOrder(<<>>)
  BY DEF Messages, InOrder
<1>3. \A x \in Threads : /\ Messages(pending[x])' = <<>> /\ Messages(batch[x])' = <<>>
                         /\ Line(x)' = {} /\ Running(x)' = {} /\ Range(mail'[x]) = {}
  BY <1>1, <1>2, RangeEmpty DEF Messages, Line, Running
<1>4. \A m : Out(m)' => Out(m)
  BY <1>1, <1>3 DEF Out
<1>5. OneRequest' /\ FromElsewhere' /\ RowsInOrder' /\ ReaderAddressed'
  BY <1>1, <1>3 DEF OrderInv, OneRequest, FromElsewhere, RowsInOrder, ReaderAddressed
<1>6. QueuesInOrder'
  BY <1>1, <1>2, <1>3 DEF QueuesInOrder, Older
<1>7. TableInTurn'
  BY <1>3 DEF TableInTurn, Older
<1>8. ReaderInOrder'
  <2>1. \A d \in Conns : LoopOf[d] \in Threads
    BY ChatServiceAssumption
  <2> QED
    BY <1>1, <1>3, <2>1 DEF OrderInv, ReaderInOrder, Older
<1>9. OutboxYoungest' /\ Numbered'
  BY <1>1, <1>4 DEF OrderInv, OutboxYoungest, Numbered
<1> QED
  BY <1>5, <1>6, <1>7, <1>8, <1>9 DEF OrderInv

(* It stays so after every step, also when the process ends and restarts.  *)
LEMMA OrderNext ==
  ASSUME AccountsApart, MaxDbFaults = 0, TypeOK, WaitInv, OrderInv, [Next]_vars
  PROVE  OrderInv'
<1> USE DEF LoopSteps, LoginSteps, Goto
<1>0. RequestType
  BY DEF TypeOK
<1> USE <1>0 DEF RequestType
<1>1. ASSUME NEW t \in Threads, Poll(t) PROVE OrderInv'
  <2>1. UNCHANGED <<pending, batch, mail, dbOffline, recv, outbox, nsent>>
    BY <1>1 DEF Poll, dbVars, reqVars, cliVars, histVars
  <2>2. \A x \in Threads : \A u \in Users : LogsIn(x, u)' <=> LogsIn(x, u)
    BY <1>1 DEF Poll, LogsIn, reqVars
  <2> QED
    BY <2>1, <2>2, OrderQuiet
<1>2. ASSUME NEW t \in Threads, SwapFunctors(t) PROVE OrderInv'
  BY <1>2, OrderSwap
<1>3. ASSUME NEW t \in Threads, RunFunctor(t) PROVE OrderInv'
  BY <1>3, OrderRun
<1>4. ASSUME NEW t \in Threads, NEW c \in Conns, NEW u \in Users, LoginGranted(t, c, u)
      PROVE  OrderInv'
  BY <1>4, OrderGranted
<1>5. ASSUME NEW t \in Threads, NEW c \in Conns, NEW u \in Users, LoginRefused(t, c, u)
      PROVE  OrderInv'
  <2>1. UNCHANGED <<pending, batch, mail, dbOffline, recv, outbox, nsent>>
    BY <1>5 DEF LoginRefused, Take, reqVars, histVars
  <2>2. \A x \in Threads : \A v \in Users : LogsIn(x, v)' <=> LogsIn(x, v)
    BY <1>5 DEF LoginRefused, LogsIn, reqVars
  <2> QED
    BY <2>1, <2>2, OrderQuiet
<1>6. ASSUME NEW t \in Threads, LoginInsert(t) \/ LoginSetOnline(t) PROVE OrderInv'
  <2>1. UNCHANGED <<pending, batch, mail, dbOffline, recv, outbox, nsent>>
    BY <1>6 DEF LoginInsert, LoginSetOnline, dbVars, loopVars, reqVars, cliVars, histVars
  <2>2. \A x \in Threads : \A u \in Users : LogsIn(x, u)' <=> LogsIn(x, u)
    BY <1>6 DEF LoginInsert, LoginSetOnline, LogsIn, reqVars
  <2> QED
    BY <2>1, <2>2, OrderQuiet
<1>7. ASSUME NEW t \in Threads, LoginFetch(t) PROVE OrderInv'
  BY <1>7, OrderFetch
<1>8. ASSUME NEW t \in Threads, LoginRemove(t) PROVE OrderInv'
  BY <1>8, OrderRemove
<1>9. ASSUME NEW t \in Threads, LoginReply(t) PROVE OrderInv'
  BY <1>9, OrderReply
<1>10. ASSUME NEW t \in Threads, NEW c \in Conns, NEW u \in Users, OneChat(t, c, u)
       PROVE  OrderInv'
  <2>1. PICK copies : /\ copies = {[n |-> nsent + 1, from |-> session[c], to |-> u]}
                      /\ Accept(t, c, copies)
    BY <1>10 DEF OneChat
  <2>2. session[c] \in Users /\ nsent + 1 \in 1..MaxMsgs /\ Take(t, c) /\ phase[c] = "main"
    BY <1>10, <2>1, ChatServiceAssumption DEF OneChat, Accept, TypeOK, ClientType, HistoryType
  <2>3. copies \subseteq Copy
    BY <2>1, <2>2 DEF Copy
  <2>4. \A o \in copies : o.n = nsent + 1 /\ o.from = session[c]
    BY <2>1
  <2> QED
    BY <2>1, <2>2, <2>3, <2>4, OrderAccept
<1>11. ASSUME NEW t \in Threads, NEW c \in Conns, GroupChat(t, c) PROVE OrderInv'
  <2>5. PICK idVec \in SUBSET Users :
          Accept(t, c, {[n |-> nsent + 1, from |-> session[c], to |-> u] : u \in idVec})
    BY <1>11 DEF GroupChat
  <2>1. PICK copies :
          /\ copies = {[n |-> nsent + 1, from |-> session[c], to |-> u] : u \in idVec}
          /\ Accept(t, c, copies)
    BY <2>5
  <2>2. session[c] \in Users /\ nsent + 1 \in 1..MaxMsgs /\ Take(t, c) /\ phase[c] = "main"
    BY <1>11, <2>1, ChatServiceAssumption DEF GroupChat, Accept, TypeOK, ClientType, HistoryType
  <2>3. copies \subseteq Copy
    BY <2>1, <2>2 DEF Copy
  <2>4. \A o \in copies : o.n = nsent + 1 /\ o.from = session[c]
    BY <2>1
  <2> QED
    BY <2>1, <2>2, <2>3, <2>4, OrderAccept
<1>12. ASSUME NEW t \in Threads, Deliver(t) PROVE OrderInv'
  BY <1>12, OrderDeliver
<1>13. ASSUME NEW t \in Threads, NEW c \in Conns, Logout(t, c) \/ CloseException(t, c)
       PROVE  OrderInv'
  <2>1. UNCHANGED <<pending, batch, mail, dbOffline, recv, outbox, nsent>>
    BY <1>13 DEF Logout, CloseException, Take, dbVars, histVars
  <2>2. /\ pc[t] = "dispatch" /\ pc'[t] \in {"dispatch", "setoffline"}
        /\ \A x \in Threads : x # t => pc'[x] = pc[x] /\ id'[x] = id[x]
    BY <1>13 DEF Logout, CloseException, Take
  <2>3. \A x \in Threads : \A u \in Users : LogsIn(x, u)' <=> LogsIn(x, u)
    BY <2>2 DEF LogsIn
  <2> QED
    BY <2>1, <2>3, OrderQuiet
<1>14. ASSUME NEW t \in Threads, SetOffline(t) PROVE OrderInv'
  <2>1. UNCHANGED <<pending, batch, mail, dbOffline, recv, outbox, nsent>>
    BY <1>14 DEF SetOffline, loopVars, cliVars, histVars
  <2>2. /\ pc[t] = "setoffline" /\ pc'[t] = "dispatch"
        /\ \A x \in Threads : x # t => pc'[x] = pc[x] /\ id'[x] = id[x]
    BY <1>14 DEF SetOffline, Return
  <2>3. \A x \in Threads : \A u \in Users : LogsIn(x, u)' <=> LogsIn(x, u)
    BY <2>2 DEF LogsIn
  <2> QED
    BY <2>1, <2>3, OrderQuiet
<1>15. ASSUME NEW c \in Conns, Connect(c) \/ Quit(c) PROVE OrderInv'
  <2>1. UNCHANGED <<pending, batch, mail, dbOffline, recv, outbox, nsent>>
    BY <1>15 DEF Connect, Quit, dbVars, loopVars, reqVars, histVars
  <2>2. \A x \in Threads : \A u \in Users : LogsIn(x, u)' <=> LogsIn(x, u)
    BY <1>15 DEF Connect, Quit, LogsIn, reqVars
  <2> QED
    BY <2>1, <2>2, OrderQuiet
<1>16. CASE Idle \/ UNCHANGED vars
  <2>1. UNCHANGED <<pending, batch, mail, dbOffline, recv, outbox, nsent, pc, id>>
    BY <1>16 DEF Idle, vars, dbVars, loopVars, reqVars, cliVars, histVars
  <2>2. \A x \in Threads : \A u \in Users : LogsIn(x, u)' <=> LogsIn(x, u)
    BY <2>1 DEF LogsIn
  <2> QED
    BY <2>1, <2>2, OrderQuiet
<1>17. CASE Sigint \/ ResetState \/ Restart
  <2>1. UNCHANGED <<pending, batch, mail, dbOffline, recv, outbox, nsent, pc, id>>
    BY <1>17 DEF Sigint, ResetState, Restart, dbVars, loopVars, reqVars, histVars
  <2>2. \A x \in Threads : \A u \in Users : LogsIn(x, u)' <=> LogsIn(x, u)
    BY <2>1 DEF LogsIn
  <2> QED
    BY <2>1, <2>2, OrderQuiet
<1>18. CASE Exit \/ Kill
  BY <1>18, OrderEnds DEF Exit, Kill
<1> QED
  BY <1>1, <1>2, <1>3, <1>4, <1>5, <1>6, <1>7, <1>8, <1>9, <1>10, <1>11, <1>12, <1>13,
     <1>14, <1>15, <1>16, <1>17, <1>18 DEF Next, LoopThread, Handle

LEMMA InTurn ==
  ASSUME AccountsApart, MaxDbFaults = 0
  PROVE  Spec => [](TypeOK /\ WaitInv /\ OrderInv)
<1>1. TypeOK /\ RouteInv /\ CleanInv /\ AddressInv /\ [Next]_vars => AddressInv'
  BY AddressNext DEF OwnedInv, RouteInv, CleanInv
<1>2. TypeOK /\ RouteInv /\ RowsFetched /\ [Next]_vars => RowsFetched'
  BY RowsNext
<1>3. TypeOK /\ RouteInv /\ AddressInv /\ WaitsInTurn /\ [Next]_vars => WaitsInTurn'
  BY TurnNext
<1>4. TypeOK /\ RouteInv /\ CleanInv /\ AddressInv /\ RowsFetched /\ WaitsInTurn
        /\ OrderInv /\ [Next]_vars => OrderInv'
  BY OrderNext DEF WaitInv
<1>5. Spec => [](TypeOK /\ RouteInv /\ CleanInv)
  BY Belongs
<1> QED
  BY <1>1, <1>2, <1>3, <1>4, <1>5, AddressInit, RowsInit, OrderInit, PTL DEF Spec, WaitInv

(* If nobody shares an account and the database answers, what one account  *)
(* sends to another is shown in the order it was sent, over own loop,      *)
(* functor queue, table and login answer, also when the process ends and   *)
(* is started again, and when a client misses its login answer.            *)
THEOREM ReadInOrder ==
  ASSUME AccountsApart, MaxDbFaults = 0
  PROVE  Spec => []ShownInOrder
<1>1. ASSUME TypeOK, OrderInv, NEW c \in Conns, NEW i \in DOMAIN recv[c], NEW j \in DOMAIN recv[c],
             i < j, recv[c][i].from = recv[c][j].from, recv[c][i].to = recv[c][j].to
      PROVE  recv[c][i].n < recv[c][j].n
  <2>1. recv[c] \in Seq(Copy) /\ InOrder(recv[c])
    BY <1>1 DEF TypeOK, HistoryType, OrderInv, ReaderInOrder
  <2> QED
    BY <1>1, <2>1 DEF InOrder, Older
<1>2. TypeOK /\ OrderInv => ShownInOrder
  BY <1>1 DEF ShownInOrder
<1> QED
  BY <1>2, InTurn, PTL DEF Spec

(* Under the same assumptions no client is shown a copy twice.             *)
THEOREM NeverTwice ==
  ASSUME AccountsApart, MaxDbFaults = 0
  PROVE  Spec => []NoDuplicate
<1>1. ASSUME TypeOK, OrderInv PROVE NoDuplicate
  <2>1. ASSUME NEW c \in Conns, NEW i \in DOMAIN recv[c], NEW j \in DOMAIN recv[c],
               recv[c][i] = recv[c][j]
        PROVE  i = j
    <3>1. recv[c] \in Seq(Copy) /\ InOrder(recv[c])
      BY <1>1 DEF TypeOK, HistoryType, OrderInv, ReaderInOrder
    <3>2. i \in 1..Len(recv[c]) /\ j \in 1..Len(recv[c]) /\ recv[c][i] \in Copy
      BY <3>1
    <3>3. \A m \in Copy : ~(m.n < m.n)
      BY DEF Copy
    <3>4. ~(i < j) /\ ~(j < i)
      BY <2>1, <3>1, <3>2, <3>3 DEF InOrder, Older
    <3> QED
      BY <3>2, <3>4
  <2>2. ASSUME NEW m \in accepted, NEW c \in InHands(m), NEW d \in InHands(m)
        PROVE  c = d
    <3>1. /\ c \in Conns /\ d \in Conns /\ m.to \in Users
          /\ m.to \in Accounts[c] /\ m.to \in Accounts[d]
      BY <1>1 DEF InHands, OrderInv, ReaderAddressed, TypeOK, HistoryType, Copy
    <3> QED
      BY <3>1 DEF AccountsApart
  <2> QED
    BY <2>1, <2>2 DEF NoDuplicate
<1>2. TypeOK /\ OrderInv => NoDuplicate
  BY <1>1
<1> QED
  BY <1>2, InTurn, PTL DEF Spec

-----------------------------------------------------------------------------
(* The server is a mailbox.  A copy waits in an outbox, a queue, a login's *)
(* answer or the table.                                                    *)
Waits(m) == Boxed(m) \/ Queued(m) \/ Answered(m) \/ Stored(m)

LEMMA WaitsIs == \A m : (m \in Undelivered <=> Waits(m)) /\ (m \in Undelivered' <=> Waits(m)')
<1> DEFINE C(x, m) == \E f \in Range(pending[x]) \cup Range(batch[x]) : f.copy = m
<1>1. \A x, m : m \in InFlight(x) <=>
                 m \in outbox[x] \/ C(x, m) \/ (pc[x] = "reply" /\ m \in Range(mail[x]))
  BY DEF InFlight
<1>2. \A x, m : m \in InFlight(x)' <=>
                 m \in outbox'[x] \/ C(x, m)' \/ (pc'[x] = "reply" /\ m \in Range(mail'[x]))
  BY DEF InFlight
<1> HIDE DEF C
<1>3. \A m : m \in Undelivered <=>
        (\E x \in Threads : m \in InFlight(x)) \/ \E u \in Users : m \in Range(dbOffline[u])
  BY DEF Undelivered
<1>4. \A m : m \in Undelivered' <=>
        (\E x \in Threads : m \in InFlight(x)') \/ \E u \in Users : m \in Range(dbOffline'[u])
  BY DEF Undelivered
<1>5. \A m : Waits(m) <=>
        (\E x \in Threads : m \in InFlight(x)) \/ \E u \in Users : m \in Range(dbOffline[u])
  BY <1>1 DEF C, Waits, Boxed, Queued, Answered, Stored
<1>6. \A m : Waits(m)' <=>
        (\E x \in Threads : m \in InFlight(x)') \/ \E u \in Users : m \in Range(dbOffline'[u])
  BY <1>2 DEF C, Waits, Boxed, Queued, Answered, Stored
<1> QED
  BY <1>3, <1>4, <1>5, <1>6

LEMMA QueuedIs ==
  ASSUME TypeOK, TypeOK'
  PROVE  \A m : /\ Queued(m)  <=> \E x \in Threads : m \in Line(x) \cup Running(x)
                /\ Queued(m)' <=> \E x \in Threads : m \in Line(x)' \cup Running(x)'
<1>1. \A x \in Threads : /\ Line(x) = {f.copy : f \in Range(pending[x])}
                         /\ Running(x) = {f.copy : f \in Range(batch[x])}
  BY MessagesOf DEF TypeOK, LoopType, Line, Running
<1>2. \A x \in Threads : /\ Line(x)' = {f.copy : f \in Range(pending'[x])}
                         /\ Running(x)' = {f.copy : f \in Range(batch'[x])}
  <2>1. \A x \in Threads : pending'[x] \in Seq(Functor) /\ batch'[x] \in Seq(Functor)
    BY DEF TypeOK, LoopType
  <2>2. \A x \in Threads : /\ Line(x)' = Range(Messages(pending'[x]))
                           /\ Running(x)' = Range(Messages(batch'[x]))
    BY DEF Line, Running, Messages
  <2> QED
    BY <2>1, <2>2, MessagesOf
<1> QED
  BY <1>1, <1>2 DEF Queued

(* What waits for a client of a connection waits on the loop of that       *)
(* connection, in its login's answer or in the row of its account.         *)
LEMMA WaitsWhere ==
  ASSUME AccountsApart, TypeOK, WaitInv, NEW c \in Conns, NEW m, m.to \in Accounts[c], m.to \in Users
  PROVE  /\ \A x \in Threads : m \in Line(x) \cup Running(x) => x = LoopOf[c]
         /\ \A x \in Threads : pc[x] = "reply" /\ m \in Range(mail[x]) => x = LoopOf[c]
         /\ \A v \in Users : m \in Range(dbOffline[v]) => v = m.to
<1>1. ASSUME NEW x \in Threads, NEW f \in Range(pending[x]) \cup Range(batch[x]), f.copy = m
      PROVE  x = LoopOf[c]
  <2>1. f.conn \in Conns /\ LoopOf[f.conn] = x /\ m.to \in Accounts[f.conn]
    BY <1>1, QueueType DEF TypeOK, WaitInv, AddressInv, FunctorsReach, ClientOf
  <2> QED
    BY <2>1 DEF AccountsApart
<1>2. ASSUME NEW x \in Threads, m \in Line(x) \cup Running(x) PROVE x = LoopOf[c]
  <2>1. /\ Line(x) = {f.copy : f \in Range(pending[x])}
        /\ Running(x) = {f.copy : f \in Range(batch[x])}
    BY <1>2, MessagesOf DEF TypeOK, LoopType, Line, Running
  <2>2. \E f \in Range(pending[x]) \cup Range(batch[x]) : f.copy = m
    BY <1>2, <2>1
  <2> QED
    BY <1>1, <2>2
<1>3. ASSUME NEW x \in Threads, pc[x] = "reply", m \in Range(mail[x]) PROVE x = LoopOf[c]
  <2>1. cur[x] \in Conns /\ LoopOf[cur[x]] = x /\ session[cur[x]] = m.to
    BY <1>3 DEF WaitInv, RouteInv, LoginOwned, AddressInv, MailAddressed, TypeOK, RequestType, LoginSteps
  <2>2. m.to \in Accounts[cur[x]]
    BY <2>1, ChatServiceAssumption DEF WaitInv, RouteInv, SessionOwned
  <2> QED
    BY <2>1, <2>2 DEF AccountsApart
<1> QED
  BY <1>2, <1>3 DEF WaitInv, AddressInv, RowsAddressed

(* A step that moves no copy leaves the mailbox alone.                     *)
LEMMA MailboxRests ==
  ASSUME UNCHANGED <<nsent, recv, dropped, Left>>, \A m : Waits(m)' <=> Waits(m)
  PROVE  UNCHANGED <<nsent, Undelivered, ShownTo, dropped, Left>>
<1>1. Undelivered' = Undelivered
  BY WaitsIs
<1>2. ShownTo' = ShownTo
  BY DEF ShownTo
<1> QED
  BY <1>1, <1>2

LEMMA NothingMoves ==
  ASSUME UNCHANGED <<pending, batch, outbox, mail, dbOffline>>,
         \A x \in Threads : pc'[x] = "reply" <=> pc[x] = "reply"
  PROVE  \A m : Waits(m)' <=> Waits(m)
BY DEF Waits, Boxed, Queued, Answered, Stored

(* Copies that are written to their reader are shown: none that waits is   *)
(* older.                                                                  *)
LEMMA CopiesShown ==
  ASSUME NEW c \in Conns, NEW u \in Users, u \in Accounts[c], NEW S \in SUBSET Copy,
         \A m \in S : m.to = u, \A m : Waits(m) <=> Waits(m)' \/ m \in S,
         \A m \in S : \A j : Waits(j)' => Older({m}, {j}),
         Range(recv'[c]) = Range(recv[c]) \cup S, \A d \in Conns : d # c => recv'[d] = recv[d],
         UNCHANGED <<nsent, dropped, Left>>
  PROVE  Promised!Next
<1>1. \A m \in S : ~Waits(m)'
  BY DEF Older, Copy
<1>2. Undelivered' = Undelivered \ S /\ S \subseteq Undelivered
  BY <1>1, WaitsIs
<1>3. Promised!Oldest(S)
  BY <1>2, WaitsIs DEF Promised!Oldest, Older
<1>4. ShownTo' = [ShownTo EXCEPT ![u] = @ \cup S]
  <2>1. \A v \in Users : \A m : m \in ShownTo[v] <=>
          m.to = v /\ \E d \in Conns : v \in Accounts[d] /\ m \in Range(recv[d])
    BY DEF ShownTo
  <2>2. \A v \in Users : \A m : m \in ShownTo'[v] <=>
          m.to = v /\ \E d \in Conns : v \in Accounts[d] /\ m \in Range(recv'[d])
    BY DEF ShownTo
  <2>3. \A d \in Conns : \A m : m \in Range(recv'[d]) <=> m \in Range(recv[d]) \/ (d = c /\ m \in S)
    OBVIOUS
  <2>4. \A m : m \in ShownTo'[u] <=> m \in ShownTo[u] \cup S
    BY <2>1, <2>2, <2>3
  <2>5. \A v \in Users : v # u => \A m : m \in ShownTo'[v] <=> m \in ShownTo[v]
    BY <2>1, <2>2, <2>3
  <2>6. ShownTo'[u] = ShownTo[u] \cup S /\ \A v \in Users : v # u => ShownTo'[v] = ShownTo[v]
    BY <2>4, <2>5
  <2> QED
    BY <2>6 DEF ShownTo
<1>5. Promised!Show
  BY <1>2, <1>3, <1>4 DEF Promised!Show
<1> QED
  BY <1>5 DEF Promised!Next

(* Copies that are dropped had a reader who has left.                      *)
LEMMA CopiesLost ==
  ASSUME NEW S \in SUBSET Copy, \A m \in S : m.to \in Left,
         \A m : Waits(m) <=> Waits(m)' \/ m \in S, \A m \in S : ~Waits(m)',
         dropped' = dropped \cup S, UNCHANGED <<nsent, recv, Left>>
  PROVE  Promised!Next
<1>1. Undelivered' = Undelivered \ S /\ S \subseteq Undelivered
  BY WaitsIs
<1>2. ShownTo' = ShownTo
  BY DEF ShownTo
<1>3. Promised!Lose
  BY <1>1, <1>2 DEF Promised!Lose
<1> QED
  BY <1>3 DEF Promised!Next

(* A connection that is not up any more has lost its readers.              *)
LEMMA NotUpIsLeft ==
  ASSUME TypeOK, WaitInv, NEW c \in Conns, NEW u \in Users, ClientOf(c, u), link[c] # "up"
  PROVE  u \in Left
BY DEF TypeOK, ClientType, WaitInv, AddressInv, NewIsUnknown, ClientOf, Left

(* Steps that only concern the sessions ...                                *)
MailboxStep == [Promised!Next]_<<nsent, Undelivered, ShownTo, dropped, Left>>

LEMMA LeftStays ==
  ASSUME UNCHANGED session,
         \A c \in Conns : link'[c] \in {"gone", "down"} <=> link[c] \in {"gone", "down"}
  PROVE  Left' = Left
BY DEF Left

LEMMA MailboxQuiet ==
  ASSUME UNCHANGED <<pending, batch, outbox, mail, dbOffline, nsent, recv, dropped, Left>>,
         \A x \in Threads : pc'[x] = "reply" <=> pc[x] = "reply"
  PROVE  MailboxStep
BY NothingMoves, MailboxRests DEF MailboxStep

(* ... and the end of a connection, or the login of a client that is gone. *)
LEMMA MailboxLeave ==
  ASSUME UNCHANGED <<pending, batch, outbox, mail, dbOffline, nsent, recv, dropped>>,
         \A x \in Threads : pc'[x] = "reply" <=> pc[x] = "reply",
         NEW c \in Conns, link'[c] = "gone", session[c] # NoUser => session'[c] # NoUser,
         \A d \in Conns : d # c => link'[d] = link[d] /\ session'[d] = session[d]
  PROVE  MailboxStep
<1>1. PICK users \in SUBSET Users :
        users = {u \in Users : u \in Accounts[c] /\ session'[c] # NoUser}
  OBVIOUS
<1>2. Left' = Left \cup users
  BY <1>1 DEF Left
<1>3. Undelivered' = Undelivered /\ ShownTo' = ShownTo
  BY NothingMoves, WaitsIs DEF ShownTo
<1>4. Promised!Leave
  BY <1>2, <1>3 DEF Promised!Leave
<1> QED
  BY <1>4 DEF MailboxStep, Promised!Next

(* The login takes its mail from the table, and the loop its functors from *)
(* the queue: the copies wait elsewhere.                                   *)
LEMMA MailboxFetch ==
  ASSUME MaxDbFaults = 0, TypeOK, WaitInv, NEW t \in Threads, LoginFetch(t) \/ LoginRemove(t)
  PROVE  MailboxStep
<1>0. ~Fails
  BY DEF TypeOK, DbType, Fails
<1>1. /\ UNCHANGED <<pending, batch, outbox, nsent, recv, dropped, session, link>>
      /\ \A x \in Threads : x # t => pc'[x] = pc[x] /\ mail'[x] = mail[x]
      /\ id[t] \in Users
  BY DEF LoginFetch, LoginRemove, QueryOffline, RemoveOffline, Goto, TypeOK, RequestType, MailType,
         LoginSteps, loopVars, reqVars, cliVars, histVars
<1>2. Left' = Left
  BY <1>1, LeftStays
<1>3. \A m : (Boxed(m)' <=> Boxed(m)) /\ (Queued(m)' <=> Queued(m))
  BY <1>1 DEF Boxed, Queued
<1>4. ASSUME LoginFetch(t) PROVE \A m : (Answered(m)' <=> Answered(m)) /\ (Stored(m)' <=> Stored(m))
  <2>1. /\ UNCHANGED dbOffline /\ pc[t] = "fetch"
        /\ pc'[t] = "reply" => mail'[t] = <<>> /\ Range(mail'[t]) = {}
    BY <1>4, RangeEmpty DEF LoginFetch, Goto, TypeOK, RequestType
  <2> QED
    BY <1>1, <2>1 DEF Answered, Stored
<1>5. ASSUME LoginRemove(t)
      PROVE  \A m : Answered(m)' \/ Stored(m)' <=> Answered(m) \/ Stored(m)
  <2>1. /\ pc[t] = "remove" /\ pc'[t] = "reply" /\ mail'[t] = mail[t] /\ mail[t] = dbOffline[id[t]]
        /\ dbOffline'[id[t]] = <<>> /\ \A u \in Users : u # id[t] => dbOffline'[u] = dbOffline[u]
    BY <1>0, <1>1, <1>5 DEF LoginRemove, RemoveOffline, Goto, TypeOK, DbType, RequestType, WaitInv,
                            CleanInv, ReadIsStored, reqVars
  <2>2. Range(dbOffline'[id[t]]) = {}
    BY <2>1, RangeEmpty
  <2> QED
    BY <1>1, <2>1, <2>2 DEF Answered, Stored
<1> QED
  BY <1>1, <1>2, <1>3, <1>4, <1>5, MailboxRests DEF Waits, MailboxStep

LEMMA MailboxSwap ==
  ASSUME TypeOK, WaitInv, NEW t \in Threads, SwapFunctors(t)
  PROVE  MailboxStep
<1>1. /\ UNCHANGED <<mail, dbOffline, recv, outbox, nsent, dropped, session, link>>
      /\ pc[t] = "dispatch" /\ pc'[t] \in {"poll", "functors"}
      /\ pending'[t] = <<>> /\ batch'[t] = pending[t] /\ batch[t] = <<>>
      /\ \A x \in Threads : x # t => pc'[x] = pc[x] /\ pending'[x] = pending[x] /\ batch'[x] = batch[x]
  BY DEF SwapFunctors, Goto, TypeOK, LoopType, RequestType, WaitInv, CleanInv, EmptyHands,
         dbVars, reqVars, cliVars, histVars
<1>2. \A x \in Threads : Range(pending'[x]) \cup Range(batch'[x]) = Range(pending[x]) \cup Range(batch[x])
  BY <1>1, RangeEmpty
<1>3. Left' = Left
  BY <1>1, LeftStays
<1>4. \A m : Waits(m)' <=> Waits(m)
  BY <1>1, <1>2 DEF Waits, Boxed, Queued, Answered, Stored
<1> QED
  BY <1>1, <1>3, <1>4, MailboxRests DEF MailboxStep

(* The login's answer shows its mail or loses it: nothing older waits for  *)
(* that client.                                                            *)
LEMMA MailboxReply ==
  ASSUME AccountsApart, TypeOK, TypeOK', WaitInv, OrderInv, NEW t \in Threads, LoginReply(t)
  PROVE  MailboxStep
<1>1. PICK c \in Conns : c = cur[t]
  BY DEF LoginReply, LoginSteps, TypeOK, RequestType
<1>2. PICK u \in Users : u = id[t]
  BY DEF LoginReply, LoginSteps, TypeOK, RequestType
<1>3. /\ pc[t] = "reply" /\ LoopOf[c] = t /\ session[c] = u /\ userConnMap[u] = c
      /\ u \in Accounts[c] /\ ClientOf(c, u)
  BY <1>1, <1>2, ChatServiceAssumption DEF LoginReply, WaitInv, RouteInv, LoginOwned, LoginHasEntry,
     SessionOwned, LoginSteps, ClientOf
<1>4. /\ UNCHANGED <<pending, batch, dbOffline, outbox, nsent, session, link>>
      /\ pc'[t] = "dispatch" /\ mail[t] \in Seq(Copy)
      /\ \A x \in Threads : x # t => pc'[x] = pc[x] /\ mail'[x] = mail[x]
  BY DEF LoginReply, Return, Goto, TypeOK, RequestType, MailType, dbVars, loopVars, cliVars
<1>5. PICK S \in SUBSET Copy : S = Range(mail[t])
  BY <1>4, RangeType
<1>6. \A m \in S : m.to = u
  BY <1>2, <1>5 DEF WaitInv, AddressInv, MailAddressed
<1>7. \A m : Waits(m) <=> Waits(m)' \/ m \in S
  BY <1>3, <1>4, <1>5 DEF Waits, Boxed, Queued, Answered, Stored
<1>8. Running(t) = {} /\ Range(dbOffline[u]) = {} /\ Older(S, Line(t))
  <2>1. batch[t] = <<>> /\ dbOffline[u] = <<>>
    BY <1>3, ChatServiceAssumption DEF WaitInv, CleanInv, EmptyHands, RowsFetched, FetchesFor
  <2>2. Older(Range(mail[t]), Line(t))
    BY <1>2, <1>3 DEF OrderInv, TableInTurn, LogsIn, LoginSteps, Older
  <2> QED
    BY <1>5, <2>1, <2>2, RangeEmpty DEF Running, Messages
<1>9. ASSUME NEW m \in S, NEW j, Waits(j)' PROVE Older({m}, {j})
  <2>1. SUFFICES ASSUME j.to = u PROVE Older({m}, {j})
    BY <1>6 DEF Older
  <2>2. CASE Boxed(j)'
    <3>1. Out(m)
      BY <1>5 DEF Out
    <3> QED
      BY <1>4, <1>5, <2>2, <3>1 DEF OrderInv, OutboxYoungest, Boxed
  <2>3. CASE Queued(j)'
    <3>1. \E x \in Threads : j \in Line(x) \cup Running(x)
      BY <1>4, <2>3, QueuedIs DEF Line, Running
    <3>2. j \in Line(t)
      BY <1>3, <1>8, <2>1, <3>1, WaitsWhere
    <3> QED
      BY <1>8, <3>2 DEF Older
  <2>4. CASE Answered(j)'
    BY <1>3, <1>4, <2>1, <2>4, WaitsWhere DEF Answered
  <2>5. CASE Stored(j)'
    BY <1>3, <1>4, <1>8, <2>1, <2>5, WaitsWhere DEF Stored
  <2> QED
    BY <1>9, <2>2, <2>3, <2>4, <2>5 DEF Waits
<1>10. Left' = Left
  BY <1>4, LeftStays
<1>11. CASE link[c] = "up"
  <2>1. /\ recv'[c] = recv[c] \o mail[t] /\ UNCHANGED dropped /\ recv[c] \in Seq(Copy)
        /\ \A d \in Conns : d # c => recv'[d] = recv[d]
    BY <1>1, <1>11 DEF LoginReply, TypeOK, HistoryType
  <2>2. Range(recv'[c]) = Range(recv[c]) \cup S
    BY <1>4, <1>5, <2>1, RangeConcat
  <2>3. Promised!Next
    BY <1>3, <1>4, <1>6, <1>7, <1>9, <1>10, <2>1, <2>2, CopiesShown
  <2> QED
    BY <2>3 DEF MailboxStep
<1>12. CASE link[c] # "up"
  <2>1. dropped' = dropped \cup S /\ UNCHANGED recv
    BY <1>1, <1>5, <1>12 DEF LoginReply
  <2>2. \A m \in S : m.to \in Left
    BY <1>3, <1>6, <1>12, NotUpIsLeft
  <2>3. \A m \in S : ~Waits(m)'
    BY <1>9 DEF Older, Copy
  <2>4. Promised!Next
    BY <1>4, <1>7, <1>10, <2>1, <2>2, <2>3, CopiesLost
  <2> QED
    BY <2>4 DEF MailboxStep
<1> QED
  BY <1>11, <1>12

(* A request posts a copy for each of its readers.                         *)
LEMMA MailboxAccept ==
  ASSUME TypeOK, WaitInv, NEW t \in Threads, NEW c \in Conns, NEW readers \in SUBSET Users, NEW copies,
         copies = {[n |-> nsent + 1, from |-> session[c], to |-> u] : u \in readers},
         Take(t, c), phase[c] = "main", Accept(t, c, copies)
  PROVE  MailboxStep
<1>1. /\ UNCHANGED <<pending, batch, mail, dbOffline, recv, dropped, session, link>>
      /\ nsent' = nsent + 1 /\ outbox'[t] = copies /\ session[c] \in Users
      /\ pc[t] = "dispatch" /\ pc'[t] \in {"dispatch", "deliver"}
      /\ \A x \in Threads : x # t => pc'[x] = pc[x] /\ outbox'[x] = outbox[x]
  BY ChatServiceAssumption DEF Take, Accept, Goto, TypeOK, RequestType, MailType, ClientType, cliVars
<1>2. outbox[t] = {}
  BY <1>1 DEF WaitInv, CleanInv, EmptyHands
<1>3. \A m : Boxed(m)' <=> Boxed(m) \/ m \in copies
  BY <1>1, <1>2 DEF Boxed
<1>4. \A m : /\ Queued(m)' <=> Queued(m)
             /\ Answered(m)' <=> Answered(m)
             /\ Stored(m)' <=> Stored(m)
  BY <1>1 DEF Queued, Answered, Stored
<1>5. Undelivered' = Undelivered \cup copies
  <2>1. \A m : Waits(m)' <=> Waits(m) \/ m \in copies
    BY <1>3, <1>4 DEF Waits
  <2> QED
    BY <2>1, WaitsIs
<1>6. ShownTo' = ShownTo /\ Left' = Left
  BY <1>1, LeftStays DEF ShownTo
<1>7. Promised!Post
  BY <1>1, <1>5, <1>6 DEF Promised!Post
<1> QED
  BY <1>7 DEF MailboxStep, Promised!Next

(* One copy is written to the connection of its reader.                    *)
LEMMA MailboxWrite ==
  ASSUME TypeOK, WaitInv, NEW c \in Conns, NEW k \in Copy, ClientOf(c, k.to), Write(c, k),
         UNCHANGED <<nsent, session, link>>, \A m : Waits(m) <=> Waits(m)' \/ m = k,
         link[c] = "up" => \A j : Waits(j)' => Older({k}, {j}), link[c] # "up" => ~Waits(k)'
  PROVE  MailboxStep
<1>1. PICK S \in SUBSET Copy : S = {k}
  OBVIOUS
<1>2. k.to \in Users /\ k.to \in Accounts[c]
  BY DEF Copy, ClientOf
<1>3. Left' = Left
  BY LeftStays
<1>4. CASE link[c] = "up"
  <2>1. /\ recv'[c] = Append(recv[c], k) /\ UNCHANGED dropped /\ recv[c] \in Seq(Copy)
        /\ \A d \in Conns : d # c => recv'[d] = recv[d]
    BY <1>4 DEF Write, TypeOK, HistoryType
  <2>2. Range(recv'[c]) = Range(recv[c]) \cup S
    BY <1>1, <2>1, RangeAppend
  <2>3. Promised!Next
    BY <1>1, <1>2, <1>3, <1>4, <2>1, <2>2, CopiesShown
  <2> QED
    BY <2>3 DEF MailboxStep
<1>5. CASE link[c] # "up"
  <2>1. dropped' = dropped \cup S /\ UNCHANGED recv
    BY <1>1, <1>5 DEF Write
  <2>2. k.to \in Left
    BY <1>2, <1>5, NotUpIsLeft
  <2>3. Promised!Next
    BY <1>1, <1>3, <1>5, <2>1, <2>2, CopiesLost
  <2> QED
    BY <2>3 DEF MailboxStep
<1> QED
  BY <1>4, <1>5

(* The first functor of a batch is the oldest copy for its reader.         *)
LEMMA MailboxRun ==
  ASSUME AccountsApart, TypeOK, TypeOK', WaitInv, OrderInv, NEW t \in Threads, RunFunctor(t)
  PROVE  MailboxStep
<1>1. /\ UNCHANGED <<pending, mail, dbOffline, outbox, nsent, session, link>>
      /\ pc[t] = "functors" /\ pc'[t] \in {"poll", "functors"}
      /\ batch[t] \in Seq(Functor) /\ batch[t] # <<>> /\ batch'[t] = Tail(batch[t])
      /\ \A x \in Threads : x # t => pc'[x] = pc[x] /\ batch'[x] = batch[x]
  BY DEF RunFunctor, Goto, TypeOK, LoopType, RequestType, dbVars, reqVars, cliVars
<1>2. PICK f \in Functor : f = Head(batch[t])
  BY <1>1, HeadTailProperties
<1>3. PICK k \in Copy : k = f.copy
  BY DEF Functor
<1>4. PICK c \in Conns : c = f.conn
  BY DEF Functor
<1>5. Range(batch[t]) = {f} \cup Range(batch'[t])
  BY <1>1, <1>2, RangeHeadTail
<1>6. LoopOf[c] = t /\ ClientOf(c, k.to) /\ k.to \in Accounts[c] /\ k.to \in Users
  BY <1>3, <1>4, <1>5 DEF WaitInv, AddressInv, FunctorsReach, ClientOf, Copy
<1>7. /\ Messages(batch[t]) \in Seq(Copy) /\ Messages(batch[t]) # <<>>
      /\ Head(Messages(batch[t])) = k /\ Messages(Tail(batch[t])) = Tail(Messages(batch[t]))
  BY <1>1, <1>2, <1>3, MessagesOf
<1>8. /\ \A x \in Threads : Line(x)' = Line(x) /\ (x # t => Running(x)' = Running(x))
      /\ Running(t)' = Range(Tail(Messages(batch[t])))
  BY <1>1, <1>7 DEF Line, Running, Messages
<1>9. Running(t) = {k} \cup Running(t)' /\ Older({k}, Running(t)')
  BY <1>7, <1>8, RangeHeadTail, OrderTail DEF OrderInv, QueuesInOrder, Running
<1>10. /\ Older(Running(t), Line(t))
       /\ \A u \in Users : Older(Line(t) \cup Running(t), Range(dbOffline[u]))
  BY <1>1 DEF OrderInv, QueuesInOrder, TableInTurn, LogsIn, LoginSteps
<1>11. \A m : Waits(m) <=> Waits(m)' \/ m = k
  <2>1. \A m : Queued(m) <=> Queued(m)' \/ m = k
    BY <1>1, <1>3, <1>5 DEF Queued
  <2>2. \A m : /\ Boxed(m)' <=> Boxed(m)
               /\ Answered(m)' <=> Answered(m)
               /\ Stored(m)' <=> Stored(m)
    BY <1>1 DEF Boxed, Answered, Stored
  <2> QED
    BY <2>1, <2>2 DEF Waits
<1>12. ASSUME NEW j, Waits(j)' PROVE Older({k}, {j})
  <2>1. SUFFICES ASSUME j.to = k.to PROVE Older({k}, {j})
    BY DEF Older
  <2>2. CASE Boxed(j)'
    <3>1. Out(k)
      BY <1>9 DEF Out
    <3> QED
      BY <1>1, <2>2, <3>1 DEF OrderInv, OutboxYoungest, Boxed
  <2>3. CASE Queued(j)'
    <3>1. PICK x \in Threads : j \in Line(x)' \cup Running(x)'
      BY <2>3, QueuedIs
    <3>2. j \in Line(x) \cup Running(x)
      BY <1>8, <1>9, <3>1
    <3>3. x = t
      BY <1>6, <2>1, <3>2, WaitsWhere
    <3> QED
      BY <1>8, <1>9, <1>10, <3>1, <3>3 DEF Older
  <2>4. CASE Answered(j)'
    BY <1>1, <1>6, <2>1, <2>4, WaitsWhere DEF Answered
  <2>5. CASE Stored(j)'
    BY <1>1, <1>9, <1>10, <2>5 DEF Stored, Older
  <2> QED
    BY <1>12, <2>2, <2>3, <2>4, <2>5 DEF Waits
<1>13. ~Waits(k)'
  BY <1>12 DEF Older, Copy
<1> QED
  BY <1>1, <1>2, <1>3, <1>4, <1>6, <1>11, <1>12, <1>13, MailboxWrite DEF RunFunctor

(* A round of oneChat or groupChat stores its copy, queues it or writes it *)
(* to a reader on its own loop, for whom no older copy waits.              *)
LEMMA MailboxDeliver ==
  ASSUME AccountsApart, MaxDbFaults = 0, TypeOK, TypeOK', WaitInv, OrderInv, NEW t \in Threads, Deliver(t)
  PROVE  MailboxStep
<1>1. PICK k \in outbox[t] :
        /\ \/ userConnMap[k.to] = NoConn /\ InsertOffline(k) /\ UNCHANGED <<pending, recv>>
           \/ /\ userConnMap[k.to] # NoConn /\ Send(t, userConnMap[k.to], k)
              /\ UNCHANGED dbOffline
        /\ outbox' = [outbox EXCEPT ![t] = outbox[t] \ {k}]
        /\ Goto(t, IF Remaining(t, k) = {} THEN "dispatch" ELSE "deliver")
  BY DEF Deliver, Remaining
<1>2. /\ UNCHANGED <<batch, mail, nsent, session, link>> /\ pc[t] = "deliver"
      /\ pc'[t] \in {"dispatch", "deliver"} /\ \A x \in Threads : x # t => pc'[x] = pc[x]
      /\ k \in Copy /\ k.to \in Users
  BY <1>1 DEF Deliver, Goto, TypeOK, RequestType, MailType, Copy, cliVars
<1>3. Left' = Left
  BY <1>2, LeftStays
<1>4. \A m : /\ Boxed(m) <=> Boxed(m)' \/ m = k
             /\ Answered(m)' <=> Answered(m)
  <2>1. outbox'[t] = outbox[t] \ {k} /\ \A x \in Threads : x # t => outbox'[x] = outbox[x]
    BY <1>1 DEF TypeOK, MailType
  <2> QED
    BY <1>1, <1>2, <2>1 DEF Boxed, Answered
<1>5. CASE userConnMap[k.to] = NoConn /\ InsertOffline(k) /\ UNCHANGED <<pending, recv>>
  <2>1. /\ UNCHANGED dropped /\ dbOffline'[k.to] = Append(dbOffline[k.to], k)
        /\ \A u \in Users : u # k.to => dbOffline'[u] = dbOffline[u]
        /\ dbOffline[k.to] \in Seq(Copy)
    BY <1>2, <1>5 DEF InsertOffline, Fails, TypeOK, DbType
  <2>2. Range(dbOffline'[k.to]) = Range(dbOffline[k.to]) \cup {k}
    BY <1>2, <2>1, RangeAppend
  <2>3. \A m : (Stored(m)' <=> Stored(m) \/ m = k) /\ (Queued(m)' <=> Queued(m))
    BY <1>2, <1>5, <2>1, <2>2 DEF Stored, Queued
  <2>4. \A m : Waits(m)' <=> Waits(m)
    BY <1>4, <2>3 DEF Waits
  <2> QED
    BY <1>2, <1>3, <1>5, <2>1, <2>4, MailboxRests DEF MailboxStep
<1>6. CASE userConnMap[k.to] # NoConn /\ Send(t, userConnMap[k.to], k) /\ UNCHANGED dbOffline
  <2>1. PICK c \in Conns : c = userConnMap[k.to]
    BY <1>2, <1>6 DEF TypeOK, MapType
  <2>2. ClientOf(c, k.to) /\ k.to \in Accounts[c]
    BY <1>2, <2>1, ChatServiceAssumption DEF WaitInv, AddressInv, EntriesReach, ClientOf
  <2>3. \A m : Stored(m)' <=> Stored(m)
    BY <1>6 DEF Stored
  <2>4. CASE LoopOf[c] = t \/ link[c] = "down"
    <3>1. Write(c, k) /\ UNCHANGED pending
      BY <1>6, <2>1, <2>4 DEF Send
    <3>2. \A m : Queued(m)' <=> Queued(m)
      BY <1>2, <3>1 DEF Queued
    <3>3. \A m : Waits(m) <=> Waits(m)' \/ m = k
      BY <1>4, <2>3, <3>2 DEF Waits
    <3>4. ASSUME NEW j, Boxed(j)' PROVE Older({k}, {j})
      <4>1. PICK x \in Threads : j \in outbox[x] /\ j \in Copy /\ (x = t => j # k)
        BY <1>1, <3>4 DEF Boxed, TypeOK, MailType
      <4>2. CASE x = t
        <5>1. j # k /\ j.n = k.n /\ j.from = k.from
          BY <4>1, <4>2 DEF OrderInv, OneRequest
        <5> QED
          BY <1>2, <4>1, <5>1 DEF Older, Copy
      <4>3. CASE x # t
        <5>1. j.from # k.from
          BY <1>2, <4>1, <4>3 DEF OrderInv, OneRequest, AccountsApart
        <5> QED
          BY <5>1 DEF Older
      <4> QED
        BY <4>2, <4>3
    <3>5. ~Waits(k)'
      <4>1. ~Older({k}, {k})
        BY <1>2 DEF Older, Copy
      <4>2. ~Queued(k)
        BY <4>1, Youngest, QueuedIs DEF Older
      <4>3. ~Answered(k) /\ ~Stored(k)
        BY <4>1, Youngest DEF Answered, Stored, Older
      <4> QED
        BY <1>4, <2>3, <3>2, <3>4, <4>1, <4>2, <4>3 DEF Waits
    <3>6. ASSUME link[c] = "up", NEW j, Waits(j)' PROVE Older({k}, {j})
      <4>1. LoopOf[c] = t
        BY <2>4, <3>6
      <4>2. SUFFICES ASSUME j.to = k.to PROVE Older({k}, {j})
        BY DEF Older
      <4>3. CASE Queued(j)'
        <5>1. Queued(j)
          BY <3>2, <4>3
        <5>2. Running(t) = {}
          <6>1. batch[t] = <<>>
            BY <1>2 DEF WaitInv, CleanInv, EmptyHands
          <6> QED
            BY <6>1, RangeEmpty DEF Running, Messages
        <5>3. j \in Line(t)
          BY <1>2, <2>2, <4>1, <4>2, <5>1, <5>2, QueuedIs, WaitsWhere
        <5>4. j.from # k.from
          BY <1>2, <5>3 DEF OrderInv, FromElsewhere, OneRequest, AccountsApart
        <5> QED
          BY <5>4 DEF Older
      <4>4. ~Answered(j)'
        BY <1>2, <1>4, <2>2, <4>1, <4>2, WaitsWhere DEF Answered
      <4>5. ~Stored(j)'
        <5>1. Range(dbOffline[k.to]) = {}
          BY <1>2, <2>1, <4>1, NoRows DEF LogsIn, LoginSteps
        <5> QED
          BY <1>2, <2>2, <2>3, <4>2, <5>1, WaitsWhere DEF Stored
      <4> QED
        BY <3>4, <3>6, <4>3, <4>4, <4>5 DEF Waits
    <3> QED
      BY <1>2, <2>2, <3>1, <3>3, <3>5, <3>6, MailboxWrite
  <2>5. CASE ~(LoopOf[c] = t \/ link[c] = "down")
    <3>0. [conn |-> c, copy |-> k] \in Functor
      BY <1>2 DEF Functor
    <3>1. PICK f \in Functor : f = [conn |-> c, copy |-> k] /\ f.copy = k
      BY <3>0
    <3>2. /\ pending'[LoopOf[c]] = Append(pending[LoopOf[c]], f) /\ UNCHANGED <<recv, dropped>>
          /\ pending[LoopOf[c]] \in Seq(Functor) /\ LoopOf[c] \in Threads
          /\ \A x \in Threads : x # LoopOf[c] => pending'[x] = pending[x]
      BY <1>6, <2>1, <2>5, <3>1, ChatServiceAssumption DEF Send, TypeOK, LoopType
    <3>3. Range(pending'[LoopOf[c]]) = Range(pending[LoopOf[c]]) \cup {f}
      BY <3>2, RangeAppend
    <3>4. \A m : Queued(m)' <=> Queued(m) \/ m = k
      BY <1>2, <3>1, <3>2, <3>3 DEF Queued
    <3>5. \A m : Waits(m)' <=> Waits(m)
      BY <1>4, <2>3, <3>4 DEF Waits
    <3> QED
      BY <1>2, <1>3, <3>2, <3>5, MailboxRests DEF MailboxStep
  <2> QED
    BY <2>4, <2>5
<1> QED
  BY <1>1, <1>5, <1>6

(* Every step of the server is a step of the mailbox, or none.             *)
LEMMA MailboxNext ==
  ASSUME AccountsApart, MaxDbFaults = 0, MaxStops = 0,
         TypeOK, TypeOK', WaitInv, OrderInv, server = "run", [Next]_vars
  PROVE  MailboxStep
<1> USE DEF Goto
<1>0. RequestType /\ ClientType /\ ~Fails /\ ~Sigint /\ ~Kill
  BY DEF TypeOK, DbType, ProcessType, Fails, Sigint, Kill
<1>1. ASSUME NEW t \in Threads, Poll(t) PROVE MailboxStep
  <2>1. /\ UNCHANGED <<pending, batch, outbox, mail, dbOffline, nsent, recv, dropped, session, link>>
        /\ \A x \in Threads : pc'[x] = "reply" <=> pc[x] = "reply"
    BY <1>0, <1>1 DEF Poll, RequestType, dbVars, reqVars, cliVars, histVars
  <2> QED
    BY <2>1, LeftStays, MailboxQuiet
<1>2. ASSUME NEW t \in Threads, NEW c \in Conns, NEW u \in Users, LoginGranted(t, c, u)
      PROVE  MailboxStep
  <2>1. /\ UNCHANGED <<pending, batch, outbox, mail, dbOffline, nsent, recv, dropped, link>>
        /\ \A x \in Threads : pc'[x] = "reply" <=> pc[x] = "reply"
        /\ link[c] \in {"up", "gone"} /\ session'[c] # NoUser
        /\ \A d \in Conns : d # c => session'[d] = session[d]
    BY <1>0, <1>2, ChatServiceAssumption DEF LoginGranted, Take, RequestType, ClientType, dbVars, histVars
  <2>2. CASE link[c] = "gone"
    BY <2>1, <2>2, MailboxLeave
  <2>3. CASE link[c] = "up"
    <3>1. Left' = Left
      BY <2>1, <2>3 DEF Left
    <3> QED
      BY <2>1, <3>1, MailboxQuiet
  <2> QED
    BY <2>1, <2>2, <2>3
<1>3. ASSUME NEW t \in Threads, NEW c \in Conns, NEW u \in Users, LoginRefused(t, c, u)
      PROVE  MailboxStep
  <2>1. UNCHANGED <<pending, batch, outbox, mail, dbOffline, nsent, recv, dropped, session, link, pc>>
    BY <1>3 DEF LoginRefused, Take, reqVars, histVars
  <2> QED
    BY <2>1, LeftStays, MailboxQuiet
<1>4. ASSUME NEW t \in Threads, LoginInsert(t) \/ LoginSetOnline(t) \/ SetOffline(t) PROVE MailboxStep
  <2>1. /\ UNCHANGED <<pending, batch, outbox, mail, dbOffline, nsent, recv, dropped, session, link>>
        /\ \A x \in Threads : pc'[x] = "reply" <=> pc[x] = "reply"
    BY <1>0, <1>4 DEF LoginInsert, LoginSetOnline, SetOffline, Return, RequestType,
       dbVars, loopVars, reqVars, cliVars, histVars
  <2> QED
    BY <2>1, LeftStays, MailboxQuiet
<1>5. ASSUME NEW t \in Threads, LoginFetch(t) \/ LoginRemove(t) PROVE MailboxStep
  BY <1>5, MailboxFetch
<1>6. ASSUME NEW t \in Threads, LoginReply(t) PROVE MailboxStep
  BY <1>6, MailboxReply
<1>7. ASSUME NEW t \in Threads, NEW c \in Conns, NEW u \in Users, OneChat(t, c, u) PROVE MailboxStep
  <2>1. PICK readers \in SUBSET Users : readers = {u}
    OBVIOUS
  <2>2. PICK copies : copies = {[n |-> nsent + 1, from |-> session[c], to |-> v] : v \in readers}
    OBVIOUS
  <2>3. Take(t, c) /\ phase[c] = "main" /\ Accept(t, c, copies)
    BY <1>7, <2>1, <2>2 DEF OneChat
  <2> QED
    BY <2>2, <2>3, MailboxAccept
<1>8. ASSUME NEW t \in Threads, NEW c \in Conns, GroupChat(t, c) PROVE MailboxStep
  <2>1. PICK readers \in SUBSET Users :
          Accept(t, c, {[n |-> nsent + 1, from |-> session[c], to |-> u] : u \in readers})
    BY <1>8 DEF GroupChat
  <2>2. PICK copies : copies = {[n |-> nsent + 1, from |-> session[c], to |-> u] : u \in readers}
    OBVIOUS
  <2>3. Take(t, c) /\ phase[c] = "main" /\ Accept(t, c, copies)
    BY <1>8, <2>1, <2>2 DEF GroupChat
  <2> QED
    BY <2>2, <2>3, MailboxAccept
<1>9. ASSUME NEW t \in Threads, Deliver(t) PROVE MailboxStep
  BY <1>9, MailboxDeliver
<1>10. ASSUME NEW t \in Threads, NEW c \in Conns, Logout(t, c) \/ CloseException(t, c)
       PROVE  MailboxStep
  <2>1. /\ UNCHANGED <<pending, batch, outbox, mail, dbOffline, nsent, recv, dropped, session>>
        /\ \A x \in Threads : pc'[x] = "reply" <=> pc[x] = "reply"
        /\ \A d \in Conns : link'[d] \in {"gone", "down"} <=> link[d] \in {"gone", "down"}
    BY <1>0, <1>10 DEF Logout, CloseException, Take, RequestType, ClientType, dbVars, histVars
  <2> QED
    BY <2>1, LeftStays, MailboxQuiet
<1>11. ASSUME NEW t \in Threads, SwapFunctors(t) PROVE MailboxStep
  BY <1>11, MailboxSwap
<1>12. ASSUME NEW t \in Threads, RunFunctor(t) PROVE MailboxStep
  BY <1>12, MailboxRun
<1>13. ASSUME NEW c \in Conns, Connect(c) PROVE MailboxStep
  <2>1. /\ UNCHANGED <<pending, batch, outbox, mail, dbOffline, nsent, recv, dropped, session, pc>>
        /\ \A d \in Conns : link'[d] \in {"gone", "down"} <=> link[d] \in {"gone", "down"}
    BY <1>0, <1>13 DEF Connect, ClientType, dbVars, loopVars, reqVars, histVars
  <2> QED
    BY <2>1, LeftStays, MailboxQuiet
<1>14. ASSUME NEW c \in Conns, Quit(c) PROVE MailboxStep
  <2>1. /\ UNCHANGED <<pending, batch, outbox, mail, dbOffline, nsent, recv, dropped, session, pc>>
        /\ link'[c] = "gone" /\ \A d \in Conns : d # c => link'[d] = link[d]
    BY <1>0, <1>14 DEF Quit, ClientType, dbVars, loopVars, reqVars, histVars
  <2> QED
    BY <2>1, MailboxLeave
<1>15. CASE Idle \/ UNCHANGED vars
  <2>1. UNCHANGED <<pending, batch, outbox, mail, dbOffline, nsent, recv, dropped, session, link, pc>>
    BY <1>15 DEF Idle, vars, dbVars, loopVars, reqVars, cliVars, histVars
  <2> QED
    BY <2>1, LeftStays, MailboxQuiet
<1>16. ~ResetState /\ ~Exit /\ ~Restart
  BY DEF ResetState, Exit, Restart
<1> QED
  BY <1>0, <1>1, <1>2, <1>3, <1>4, <1>5, <1>6, <1>7, <1>8, <1>9, <1>10, <1>11, <1>12, <1>13,
     <1>14, <1>15, <1>16 DEF Next, LoopThread, Handle

(* It starts as one.                                                       *)
LEMMA MailboxInit == Init => Promised!Init
<1> SUFFICES ASSUME Init PROVE Promised!Init
  OBVIOUS
<1>1. \A m : ~Waits(m)
  BY RangeEmpty DEF Init, Waits, Boxed, Queued, Answered, Stored
<1>2. Undelivered = {}
  BY <1>1, WaitsIs
<1>3. ShownTo = [u \in Users |-> {}]
  BY RangeEmpty DEF Init, ShownTo
<1>4. Left = {}
  BY DEF Init, Left
<1> QED
  BY <1>2, <1>3, <1>4 DEF Init, Promised!Init

(* If nobody shares an account, the database answers and the process lives,*)
(* the chat server implements the mailbox: each copy of a chat waits until *)
(* it is shown to its reader, oldest first, or lost after the reader has   *)
(* left, whatever loops, functor queues, table and logins do with it       *)
(* meanwhile.                                                              *)
THEOREM ServerIsMailbox ==
  ASSUME AccountsApart, MaxDbFaults = 0, MaxStops = 0
  PROVE  Spec => ImplementsMailbox
<1>1. TypeOK /\ RouteInv /\ OnlineInv /\ [Next]_vars => OnlineInv'
  BY OnlineNext
<1>2. TypeOK /\ TypeOK' /\ WaitInv /\ OrderInv /\ OnlineInv /\ [Next]_vars => MailboxStep
  BY MailboxNext DEF OnlineInv
<1>3. WaitInv => RouteInv
  BY DEF WaitInv
<1>4. Spec => [](TypeOK /\ WaitInv /\ OrderInv)
  BY InTurn
<1> QED
  BY <1>1, <1>2, <1>3, <1>4, OnlineInit, MailboxInit, PTL DEF Spec, ImplementsMailbox, MailboxStep
=============================================================================
