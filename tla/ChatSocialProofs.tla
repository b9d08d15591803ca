-------------------------- MODULE ChatSocialProofs --------------------------
(***************************************************************************)
(* What the two inserts of a friendship and of a group make together, for  *)
(* any number of loops, users, groups, failures and crashes.               *)
(*                                                                         *)
(* The properties speak of rows; the invariant adds what a handler between *)
(* its statements knows of them, and that a user has one request at a time.*)
(***************************************************************************)
EXTENDS ChatSocial, TLAPS

Busy(t) == pc[t] \notin {"idle", "reg"}

OneRequestEach ==
  \A s, t \in Threads : s # t /\ Busy(s) /\ Busy(t) => req[s].user # req[t].user

(* The group is there, is the user's, and the user is not yet in it.       *)
CreatorDue ==
  \A t \in Threads : pc[t] = "creator" =>
    /\ req[t].other \in Existing /\ owner[req[t].other] = req[t].user
    /\ \A role \in {"creator", "normal"} : <<req[t].other, req[t].user, role>> \notin GroupUser

FriendDue ==
  \A t \in Threads : pc[t] = "friendBack" =>
    /\ clean[t] => <<req[t].user, req[t].other>> \in Friend
    /\ faults = 0 => <<req[t].user, req[t].other>> \in Friend \cup tooEarly

ListedJoined ==
  \A t \in Threads :
    /\ pc[t] = "list" => seen[t] = {}
    /\ pc[t] = "users" => \A entry \in seen[t] : entry[1] \in Groups(req[t].user)

SocialInv == OneRequestEach /\ CreatorDue /\ FriendDue /\ ListedJoined

-----------------------------------------------------------------------------
(* Types                                                                   *)

LEMMA SocialInit == Init => TypeOK /\ SocialInv /\ FriendsBothWays /\ GroupHasCreator /\ AnswersTrue
<1> SUFFICES ASSUME Init
             PROVE TypeOK /\ SocialInv /\ FriendsBothWays /\ GroupHasCreator /\ AnswersTrue
  OBVIOUS
<1>1. Registered = {} /\ Existing = {}
  BY DEF Init, Registered, Existing
<1>2. Idle \in [user : 0..MaxUserId, other : Nat, name : Names \cup {NoName}]
  BY ChatSocialAssumption DEF Idle, Request
<1>3. 1 \in 1..MaxUserId + 1 /\ 1 \in 1..MaxGroupId + 1 /\ 0 \in 0..MaxUserId
      /\ 0 \in 0..MaxRequests /\ 0 \in 0..MaxFaults
  BY ChatSocialAssumption
<1>4. TypeOK
  BY <1>1, <1>2, <1>3 DEF Init, TypeOK
<1>5. SocialInv
  BY DEF Init, SocialInv, OneRequestEach, CreatorDue, FriendDue, ListedJoined, Busy
<1>6. FriendsBothWays /\ AnswersTrue
  BY DEF Init, FriendsBothWays, AnswersTrue
<1>7. GroupHasCreator
  BY <1>1 DEF Init, GroupHasCreator
<1> QED
  BY <1>4, <1>5, <1>6, <1>7

(* Counters stay below their bounds.                                       *)
LEMMA Counting ==
  /\ \A k, m \in Nat : k < m => k + 1 \in 0..m
  /\ \A k, m \in Nat : k \in 1..m + 1 /\ k <= m => k \in 1..m /\ k + 1 \in 1..m + 1 /\ k \in 1..(k + 1) - 1
  /\ \A k, m \in Nat : k \in 0..m => k \in Nat
  /\ \A k \in Nat : k \notin 1..k - 1 /\ 1..k - 1 \subseteq 1..(k + 1) - 1
OBVIOUS

LEMMA FaultTypes ==
  ASSUME TypeOK, NEW t \in Threads, Works \/ Fails(t)
  PROVE  /\ clean' \in [Threads -> BOOLEAN] /\ faults' \in 0..MaxFaults
         /\ faults' = 0 => faults = 0 /\ Works
         /\ clean'[t] => Works
         /\ \A s \in Threads \ {t} : clean'[s] = clean[s]
<1>1. faults \in Nat /\ MaxFaults \in Nat /\ faults \in 0..MaxFaults /\ clean \in [Threads -> BOOLEAN]
  BY ChatSocialAssumption, Counting DEF TypeOK
<1>2. CASE Works
  BY <1>1, <1>2 DEF Works
<1>3. CASE Fails(t)
  <2>1. faults' \in 0..MaxFaults /\ faults' # 0
    BY <1>1, <1>3, Counting DEF Fails
  <2> QED
    BY <1>1, <1>3, <2>1 DEF Fails
<1> QED
  BY <1>2, <1>3

LEMMA StepTypes ==
  ASSUME TypeOK, NEW t \in Threads, NEW from,
         NEW to \in {"idle", "friendBack", "creator", "users"}, Step(t, from, to)
  PROVE  /\ pc' \in [Threads -> {"idle", "reg", "friend", "friendBack", "group", "creator", "join", "list", "users"}]
         /\ pc[t] = from /\ pc'[t] = to
         /\ \A s \in Threads \ {t} : pc'[s] = pc[s]
BY DEF Step, TypeOK

LEMMA RequestTypes ==
  ASSUME TypeOK, NEW t \in Threads
  PROVE  /\ req[t].other \in Nat /\ req[t].name \in Names \cup {NoName}
         /\ pc[t] \notin {"idle", "reg"} =>
              req[t].user \in Registered /\ req[t].user \in UserIds /\ req[t].user \in Nat
<1>1. req[t] \in [user : 0..MaxUserId, other : Nat, name : Names \cup {NoName}]
  BY DEF TypeOK
<1>2. UserIds \subseteq Nat /\ Registered \subseteq UserIds
  BY ChatSocialAssumption DEF UserIds, Registered
<1>3. pc[t] \notin {"idle", "reg"} => req[t].user \in Registered
  BY DEF TypeOK
<1> QED
  BY <1>1, <1>2, <1>3

LEMMA FriendTypes ==
  ASSUME TypeOK, NEW u \in Nat, NEW friend \in Nat, InsertFriend(u, friend), User' = User
  PROVE  /\ Friend' \subseteq Registered' \X Registered'
         /\ Friend \subseteq Friend'
         /\ {u, friend} \subseteq Registered => <<u, friend>> \in Friend'
         /\ Friend' \subseteq Friend \cup {<<u, friend>>}
<1>1. Registered' = Registered
  BY DEF Registered
<1> QED
  BY <1>1 DEF InsertFriend, TypeOK

LEMMA GroupUserTypes ==
  ASSUME TypeOK, NEW g \in Nat, NEW u \in Registered, NEW role \in {"creator", "normal"},
         InsertGroupUser(g, u, role), UNCHANGED <<User, AllGroup>>
  PROVE  /\ GroupUser' \subseteq Existing' \X Registered' \X {"creator", "normal"}
         /\ \A h \in GroupIds, v \in UserIds :
               ~({<<h, v, "creator">>, <<h, v, "normal">>} \subseteq GroupUser')
         /\ GroupUser \subseteq GroupUser' /\ GroupUser' \subseteq GroupUser \cup {<<g, u, role>>}
         /\ g \in Existing /\ g \notin Groups(u) => <<g, u, role>> \in GroupUser'
<1>1. Registered' = Registered /\ Existing' = Existing
  BY DEF Registered, Existing
<1>2. /\ GroupUser \subseteq GroupUser' /\ GroupUser' \subseteq GroupUser \cup {<<g, u, role>>}
      /\ <<g, u, role>> \in GroupUser' => <<g, u, role>> \in GroupUser \/ (g \in Existing /\ g \notin Groups(u))
      /\ g \in Existing /\ g \notin Groups(u) => <<g, u, role>> \in GroupUser'
  BY DEF InsertGroupUser
<1>3. GroupUser' \subseteq Existing' \X Registered' \X {"creator", "normal"}
  BY <1>1, <1>2 DEF TypeOK
<1>4. ASSUME NEW h \in GroupIds, NEW v \in UserIds,
             {<<h, v, "creator">>, <<h, v, "normal">>} \subseteq GroupUser'
      PROVE FALSE
  <2>1. ~({<<h, v, "creator">>, <<h, v, "normal">>} \subseteq GroupUser)
    BY DEF TypeOK
  <2>2. h = g /\ v = u
    BY <1>2, <1>4, <2>1
  <2>3. g \notin Groups(u)
    BY <1>2, <1>4, <2>1, <2>2
  <2>4. <<h, v, "creator">> \notin GroupUser /\ <<h, v, "normal">> \notin GroupUser
    BY <2>2, <2>3 DEF Groups
  <2> QED
    BY <1>2, <1>4, <2>4
<1> QED
  BY <1>2, <1>3, <1>4

LEMMA TypeNext == TypeOK /\ [Next]_vars => TypeOK'
<1> SUFFICES ASSUME TypeOK, [Next]_vars PROVE TypeOK'
  OBVIOUS
<1> USE DEF tables, userVars, friendVars, groupVars
<1>0. /\ MaxUserId \in Nat /\ MaxGroupId \in Nat /\ MaxRequests \in Nat /\ MaxFaults \in Nat
      /\ nextUser \in Nat /\ nextGroup \in Nat /\ requests \in Nat /\ faults \in Nat
      /\ NoName \notin Names
  BY ChatSocialAssumption, Counting DEF TypeOK
<1>1. ASSUME NEW t \in Threads, Requests(t) PROVE TypeOK'
  <2>1. PICK step \in {"reg", "friend", "group", "join", "list"},
             request \in [user : 0..MaxUserId, other : Nat, name : Names \cup {NoName}] :
          /\ Ask(t, step, request) /\ (step # "reg" => request.user \in Registered)
          /\ step \in {"reg", "group"} => request.name \in Names
    <3>1. \A u \in UserIds \cup {0}, v \in UserIds \cup GroupIds \cup {0}, name \in Names \cup {NoName} :
             /\ Request(u, v, name) \in [user : 0..MaxUserId, other : Nat, name : Names \cup {NoName}]
             /\ Request(u, v, name).user = u /\ Request(u, v, name).name = name
      BY <1>0 DEF Request, UserIds, GroupIds
    <3>2. CASE Reg(t)
      BY <3>1, <3>2 DEF Reg
    <3>3. CASE AddFriend(t)
      BY <3>1, <3>3 DEF AddFriend, Free
    <3>4. CASE CreateGroup(t)
      BY <3>1, <3>4 DEF CreateGroup, Free
    <3>5. CASE AddGroup(t)
      BY <3>1, <3>5 DEF AddGroup, Free
    <3>6. CASE Login(t)
      BY <3>1, <3>6 DEF Login, Free
    <3> QED
      BY <1>1, <3>2, <3>3, <3>4, <3>5, <3>6 DEF Requests
  <2>2. requests' \in 0..MaxRequests
    BY <1>0, <2>1, Counting DEF Ask
  <2>3. Registered' = Registered /\ Existing' = Existing
    BY <2>1 DEF Ask, Registered, Existing
  <2>4. /\ pc' = [pc EXCEPT ![t] = step] /\ req' = [req EXCEPT ![t] = request]
        /\ clean' = [clean EXCEPT ![t] = TRUE] /\ seen' = [seen EXCEPT ![t] = {}]
    BY <2>1 DEF Ask
  <2>5. /\ pc' \in [Threads -> {"idle", "reg", "friend", "friendBack", "group", "creator", "join", "list", "users"}]
        /\ req' \in [Threads -> [user : 0..MaxUserId, other : Nat, name : Names \cup {NoName}]]
        /\ clean' \in [Threads -> BOOLEAN]
        /\ seen' \in [Threads -> SUBSET (GroupIds \X (SUBSET UserIds) \X BOOLEAN)]
    BY <2>4 DEF TypeOK
  <2>6. \A s \in Threads :
          /\ pc'[s] \notin {"idle", "reg"} => req'[s].user \in Registered'
          /\ pc'[s] \in {"reg", "group"} => req'[s].name \in Names
    BY <2>1, <2>3, <2>4 DEF TypeOK
  <2> QED
    BY <2>1, <2>2, <2>3, <2>5, <2>6 DEF Ask, TypeOK
<1>2. ASSUME NEW t \in Threads, InsertUser(t) PROVE TypeOK'
  <2>1. PICK to \in {"idle"} : pc' = [pc EXCEPT ![t] = to]
    BY <1>2 DEF InsertUser, Step
  <2>2. /\ pc' \in [Threads -> {"idle", "reg", "friend", "friendBack", "group", "creator", "join", "list", "users"}]
        /\ \A s \in Threads : pc'[s] = "idle" \/ pc'[s] = pc[s]
    BY <2>1 DEF TypeOK
  <2>3. (Works \/ Fails(t)) /\ pc[t] = "reg"
    BY <1>2 DEF Step, InsertUser, Unmade
  <2>4. clean' \in [Threads -> BOOLEAN] /\ faults' \in 0..MaxFaults
    BY <2>3, FaultTypes
  <2>5. CASE UNCHANGED tables
    <3>1. Registered' = Registered /\ Existing' = Existing
      BY <2>5 DEF Registered, Existing
    <3> QED
      BY <1>2, <2>2, <2>4, <2>5, <3>1 DEF InsertUser, TypeOK
  <2>6. CASE ~UNCHANGED tables
    <3>1. /\ nextUser <= MaxUserId /\ nextUser' = nextUser + 1
          /\ \/ UNCHANGED <<User, acks>>
             \/ /\ \A id \in Registered : User[id] # req[t].name
                /\ User' = [User EXCEPT ![nextUser] = req[t].name]
                /\ acks' \in {acks, acks \cup {<<req[t].name, nextUser>>}}
          /\ UNCHANGED <<friendVars, groupVars, GroupUser, req, seen, requests>>
      BY <1>2, <2>6 DEF InsertUser, Unmade
    <3>2. nextUser \in UserIds /\ nextUser' \in 1..MaxUserId + 1
          /\ 1..nextUser - 1 \subseteq 1..nextUser' - 1 /\ nextUser \in 1..nextUser' - 1
      BY <1>0, <3>1, Counting DEF TypeOK, UserIds
    <3>3. Existing' = Existing
      BY <3>1 DEF Existing
    <3>4. /\ User' \in [UserIds -> Names \cup {NoName}]
          /\ Registered \subseteq Registered' /\ Registered' \subseteq Registered \cup {nextUser}
      <4>1. nextUser \notin Registered
        BY <1>0, Counting DEF TypeOK
      <4> QED
        BY <3>1, <3>2, <4>1 DEF TypeOK, Registered
    <3>5. Registered' \subseteq 1..nextUser' - 1
      BY <3>2, <3>4 DEF TypeOK
    <3>6. acks' \subseteq Names \X UserIds
      BY <2>3, <3>1, <3>2 DEF TypeOK
    <3>7. Friend' \subseteq Registered' \X Registered'
          /\ GroupUser' \subseteq Existing' \X Registered' \X {"creator", "normal"}
      BY <3>1, <3>3, <3>4 DEF TypeOK
    <3> QED
      BY <2>2, <2>4, <3>1, <3>2, <3>3, <3>4, <3>5, <3>6, <3>7 DEF TypeOK
  <2> QED
    BY <2>5, <2>6
<1>3. ASSUME NEW t \in Threads, FriendConnectFails(t) PROVE TypeOK'
  <2>1. UNCHANGED <<tables, req, seen, requests>> /\ Fails(t) /\ Step(t, "friend", "idle")
    BY <1>3 DEF FriendConnectFails, Unmade
  <2>2. Registered' = Registered /\ Existing' = Existing
    BY <2>1 DEF Registered, Existing
  <2>3. pc' \in [Threads -> {"idle", "reg", "friend", "friendBack", "group", "creator", "join", "list", "users"}]
    BY <2>1, StepTypes
  <2>4. \A s \in Threads :
          /\ pc'[s] \notin {"idle", "reg"} => req'[s].user \in Registered'
          /\ pc'[s] \in {"reg", "group"} => req'[s].name \in Names
    BY <2>1, <2>2, StepTypes DEF TypeOK
  <2>5. clean' \in [Threads -> BOOLEAN] /\ faults' \in 0..MaxFaults
    BY <2>1, FaultTypes
  <2> QED
    BY <2>1, <2>2, <2>3, <2>4, <2>5 DEF TypeOK
<1>4. ASSUME NEW t \in Threads, FirstInsert(t) PROVE TypeOK'
  <2>1. /\ Step(t, "friend", "friendBack") /\ UNCHANGED <<req, seen, requests>>
        /\ UNCHANGED <<userVars, befriended, groupVars, GroupUser>>
    BY <1>4 DEF FirstInsert, Unmade
  <2>2. Registered' = Registered /\ Existing' = Existing
    BY <2>1 DEF Registered, Existing
  <2>3. req[t].user \in Nat /\ req[t].other \in Nat /\ req[t].user \in UserIds
    BY <2>1, RequestTypes DEF Step
  <2>4. clean' \in [Threads -> BOOLEAN] /\ faults' \in 0..MaxFaults
    BY <1>4, FaultTypes DEF FirstInsert, Unmade, TypeOK
  <2>5. Friend' \subseteq Registered' \X Registered'
    <3>1. CASE Friend' = Friend
      BY <2>2, <3>1 DEF TypeOK
    <3>2. CASE InsertFriend(req[t].user, req[t].other)
      BY <2>1, <2>3, <3>2, FriendTypes
    <3> QED
      BY <1>4, <3>1, <3>2 DEF FirstInsert, Unmade
  <2>6. tooEarly' \subseteq UserIds \X Nat
    BY <1>4, <2>3 DEF FirstInsert, Unmade, TypeOK
  <2>7. pc' \in [Threads -> {"idle", "reg", "friend", "friendBack", "group", "creator", "join", "list", "users"}]
    BY <2>1, StepTypes
  <2>8. \A s \in Threads :
          /\ pc'[s] \notin {"idle", "reg"} => req'[s].user \in Registered'
          /\ pc'[s] \in {"reg", "group"} => req'[s].name \in Names
    BY <2>1, <2>2, StepTypes DEF TypeOK
  <2> QED
    BY <2>1, <2>2, <2>4, <2>5, <2>6, <2>7, <2>8 DEF TypeOK
<1>5. ASSUME NEW t \in Threads, SecondInsert(t) PROVE TypeOK'
  <2>1. /\ Step(t, "friendBack", "idle") /\ UNCHANGED <<req, seen, requests>>
        /\ UNCHANGED <<userVars, tooEarly, groupVars, GroupUser>>
    BY <1>5 DEF SecondInsert, Unmade
  <2>2. Registered' = Registered /\ Existing' = Existing
    BY <2>1 DEF Registered, Existing
  <2>3. req[t].user \in Nat /\ req[t].other \in Nat /\ req[t].user \in UserIds
    BY <2>1, RequestTypes DEF Step
  <2>4. clean' \in [Threads -> BOOLEAN] /\ faults' \in 0..MaxFaults
    BY <1>5, FaultTypes DEF SecondInsert, Unmade
  <2>5. Friend' \subseteq Registered' \X Registered'
    <3>1. CASE Friend' = Friend
      BY <2>2, <3>1 DEF TypeOK
    <3>2. CASE InsertFriend(req[t].other, req[t].user)
      BY <2>1, <2>3, <3>2, FriendTypes
    <3> QED
      BY <1>5, <3>1, <3>2 DEF SecondInsert, Unmade
  <2>6. befriended' \subseteq UserIds \X Nat
    BY <1>5, <2>3 DEF SecondInsert, Unmade, TypeOK
  <2>7. pc' \in [Threads -> {"idle", "reg", "friend", "friendBack", "group", "creator", "join", "list", "users"}]
    BY <2>1, StepTypes
  <2>8. \A s \in Threads :
          /\ pc'[s] \notin {"idle", "reg"} => req'[s].user \in Registered'
          /\ pc'[s] \in {"reg", "group"} => req'[s].name \in Names
    BY <2>1, <2>2, StepTypes DEF TypeOK
  <2> QED
    BY <2>1, <2>2, <2>4, <2>5, <2>6, <2>7, <2>8 DEF TypeOK
<1>6. ASSUME NEW t \in Threads, InsertGroup(t) PROVE TypeOK'
  <2>1. PICK to \in {"idle", "creator"} : Step(t, "group", to)
    BY <1>6 DEF InsertGroup
  <2>2. /\ UNCHANGED <<seen, requests, userVars, friendVars, GroupUser>>
        /\ Works \/ Fails(t)
    BY <1>6 DEF InsertGroup, Unmade
  <2>3. clean' \in [Threads -> BOOLEAN] /\ faults' \in 0..MaxFaults
    BY <2>2, FaultTypes
  <2>4. Registered' = Registered
    BY <2>2 DEF Registered
  <2>5. /\ req' \in [Threads -> [user : 0..MaxUserId, other : Nat, name : Names \cup {NoName}]]
        /\ \A s \in Threads : req'[s].user = req[s].user /\ req'[s].name = req[s].name
    <3>1. req' \in {req, [req EXCEPT ![t].other = nextGroup]}
      BY <1>6 DEF InsertGroup
    <3>2. req \in [Threads -> [user : 0..MaxUserId, other : Nat, name : Names \cup {NoName}]]
      BY DEF TypeOK
    <3> QED
      BY <1>0, <3>1, <3>2
  <2>6. \A s \in Threads :
          /\ pc'[s] \notin {"idle", "reg"} => req'[s].user \in Registered'
          /\ pc'[s] \in {"reg", "group"} => req'[s].name \in Names
    BY <2>1, <2>4, <2>5, StepTypes DEF TypeOK
  <2>0. pc' \in [Threads -> {"idle", "reg", "friend", "friendBack", "group", "creator", "join", "list", "users"}]
    BY <2>1, StepTypes
  <2>7. CASE UNCHANGED <<AllGroup, nextGroup, owner>>
    <3>1. Existing' = Existing
      BY <2>7 DEF Existing
    <3> QED
      BY <2>1, <2>2, <2>3, <2>4, <2>5, <2>6, <2>7, <3>1, StepTypes DEF TypeOK
  <2>8. CASE ~UNCHANGED <<AllGroup, nextGroup, owner>>
    <3>1. /\ nextGroup <= MaxGroupId /\ nextGroup' = nextGroup + 1
          /\ \/ UNCHANGED <<AllGroup, owner>>
             \/ /\ AllGroup' = [AllGroup EXCEPT ![nextGroup] = req[t].name]
                /\ owner' = [owner EXCEPT ![nextGroup] = req[t].user]
      BY <1>6, <2>8 DEF InsertGroup, Unmade
    <3>2. nextGroup \in GroupIds /\ nextGroup' \in 1..MaxGroupId + 1
          /\ 1..nextGroup - 1 \subseteq 1..nextGroup' - 1 /\ nextGroup \in 1..nextGroup' - 1
      BY <1>0, <3>1, Counting DEF TypeOK, GroupIds
    <3>3. nextGroup \notin Existing
      BY <1>0, Counting DEF TypeOK
    <3>4. /\ AllGroup' \in [GroupIds -> Names \cup {NoName}]
          /\ Existing \subseteq Existing' /\ Existing' \subseteq Existing \cup {nextGroup}
      BY <2>1, <3>1, <3>2, <3>3, RequestTypes DEF TypeOK, Existing
    <3>5. Existing' \subseteq 1..nextGroup' - 1
      BY <3>2, <3>4 DEF TypeOK
    <3>6. owner' \in [GroupIds -> 0..MaxUserId]
      <4>1. req[t].user \in 0..MaxUserId
        BY DEF TypeOK
      <4> QED
        BY <3>1, <4>1 DEF TypeOK
    <3>7. GroupUser' \subseteq Existing' \X Registered' \X {"creator", "normal"}
      BY <2>2, <2>4, <3>4 DEF TypeOK
    <3> QED
      BY <2>0, <2>2, <2>3, <2>4, <2>5, <2>6, <3>2, <3>4, <3>5, <3>6, <3>7 DEF TypeOK
  <2> QED
    BY <2>7, <2>8
<1>7. ASSUME NEW t \in Threads, InsertCreator(t) \/ InsertNormal(t) PROVE TypeOK'
  <2>1. PICK from \in {"creator", "join"} : Step(t, from, "idle")
    BY <1>7 DEF InsertCreator, InsertNormal
  <2>2. /\ UNCHANGED <<userVars, friendVars, groupVars, req, seen, requests>>
        /\ Works \/ Fails(t)
    BY <1>7 DEF InsertCreator, InsertNormal, Unmade
  <2>3. clean' \in [Threads -> BOOLEAN] /\ faults' \in 0..MaxFaults
    BY <2>2, FaultTypes
  <2>4. Registered' = Registered /\ Existing' = Existing
    BY <2>2 DEF Registered, Existing
  <2>5. req[t].user \in Registered /\ req[t].other \in Nat
    BY <2>1, RequestTypes DEF Step
  <2>6. /\ GroupUser' \subseteq Existing' \X Registered' \X {"creator", "normal"}
        /\ \A h \in GroupIds, v \in UserIds :
              ~({<<h, v, "creator">>, <<h, v, "normal">>} \subseteq GroupUser')
    <3>1. CASE GroupUser' = GroupUser
      BY <2>4, <3>1 DEF TypeOK
    <3>2. CASE \E role \in {"creator", "normal"} : InsertGroupUser(req[t].other, req[t].user, role)
      BY <2>2, <2>5, <3>2, GroupUserTypes
    <3> QED
      BY <1>7, <3>1, <3>2 DEF InsertCreator, InsertNormal, Unmade
  <2>7. pc' \in [Threads -> {"idle", "reg", "friend", "friendBack", "group", "creator", "join", "list", "users"}]
    BY <2>1, StepTypes
  <2>8. \A s \in Threads :
          /\ pc'[s] \notin {"idle", "reg"} => req'[s].user \in Registered'
          /\ pc'[s] \in {"reg", "group"} => req'[s].name \in Names
    BY <2>1, <2>2, <2>4, StepTypes DEF TypeOK
  <2> QED
    BY <2>2, <2>3, <2>4, <2>6, <2>7, <2>8 DEF TypeOK
<1>8. ASSUME NEW t \in Threads, QueryGroups(t) PROVE TypeOK'
  <2>1. Step(t, "list", "users") /\ UNCHANGED <<tables, req, requests>> /\ (Works \/ Fails(t))
    BY <1>8 DEF QueryGroups
  <2>2. Registered' = Registered /\ Existing' = Existing
    BY <2>1 DEF Registered, Existing
  <2>3. clean' \in [Threads -> BOOLEAN] /\ faults' \in 0..MaxFaults
    BY <2>1, FaultTypes
  <2>4. seen' \in [Threads -> SUBSET (GroupIds \X (SUBSET UserIds) \X BOOLEAN)]
    <3>0. \A g \in GroupIds : <<g, {}, FALSE>> \in GroupIds \X (SUBSET UserIds) \X BOOLEAN
      OBVIOUS
    <3>1. PICK groups \in SUBSET Groups(req[t].user) :
            seen' = [seen EXCEPT ![t] = {<<g, {}, FALSE>> : g \in groups}]
      BY <1>8 DEF QueryGroups
    <3>2. {<<g, {}, FALSE>> : g \in groups} \subseteq GroupIds \X (SUBSET UserIds) \X BOOLEAN
      BY <3>0 DEF Groups
    <3> QED
      BY <3>1, <3>2 DEF TypeOK
  <2>5. pc' \in [Threads -> {"idle", "reg", "friend", "friendBack", "group", "creator", "join", "list", "users"}]
    BY <2>1, StepTypes
  <2>6. \A s \in Threads :
          /\ pc'[s] \notin {"idle", "reg"} => req'[s].user \in Registered'
          /\ pc'[s] \in {"reg", "group"} => req'[s].name \in Names
    BY <2>1, <2>2, StepTypes DEF TypeOK
  <2> QED
    BY <2>1, <2>2, <2>3, <2>4, <2>5, <2>6 DEF TypeOK
<1>9. ASSUME NEW t \in Threads, QueryUsers(t) PROVE TypeOK'
  <2>1. UNCHANGED <<tables, pc, req, requests>> /\ (Works \/ Fails(t))
    BY <1>9 DEF QueryUsers
  <2>2. Registered' = Registered /\ Existing' = Existing
    BY <2>1 DEF Registered, Existing
  <2>3. clean' \in [Threads -> BOOLEAN] /\ faults' \in 0..MaxFaults
    BY <2>1, FaultTypes
  <2>4. seen' \in [Threads -> SUBSET (GroupIds \X (SUBSET UserIds) \X BOOLEAN)]
    <3>1. PICK g \in GroupIds, users \in SUBSET UserIds :
            seen' = [seen EXCEPT ![t] = (@ \ {<<g, {}, FALSE>>}) \cup {<<g, users, TRUE>>}]
      BY <1>9 DEF QueryUsers, UsersOf, Members
    <3>2. <<g, users, TRUE>> \in GroupIds \X (SUBSET UserIds) \X BOOLEAN
      OBVIOUS
    <3> QED
      BY <3>1, <3>2 DEF TypeOK
  <2> QED
    BY <2>1, <2>2, <2>3, <2>4 DEF TypeOK
<1>10. ASSUME NEW t \in Threads, ListsAnswered(t) PROVE TypeOK'
  <2>1. Step(t, "users", "idle") /\ UNCHANGED <<tables, req, clean, seen, requests, faults>>
    BY <1>10 DEF ListsAnswered
  <2>2. Registered' = Registered /\ Existing' = Existing
    BY <2>1 DEF Registered, Existing
  <2> QED
    BY <2>1, <2>2, StepTypes DEF TypeOK
<1>11. CASE Crash
  <2>1. Registered' = Registered /\ Existing' = Existing
    BY <1>11 DEF Crash, Registered, Existing
  <2>2. faults' \in 0..MaxFaults
    BY <1>0, <1>11, Counting DEF Crash
  <2> QED
    BY <1>11, <2>1, <2>2 DEF Crash, TypeOK
<1>12. CASE UNCHANGED vars
  <2>1. Registered' = Registered /\ Existing' = Existing
    BY <1>12 DEF vars, Registered, Existing
  <2> QED
    BY <1>12, <2>1 DEF vars, TypeOK
<1> QED
  BY <1>1, <1>2, <1>3, <1>4, <1>5, <1>6, <1>7, <1>8, <1>9, <1>10, <1>11, <1>12 DEF Next, Statements

-----------------------------------------------------------------------------
(* What one step can touch                                                 *)

LEMMA AskFacts ==
  ASSUME TypeOK, NEW t \in Threads, Requests(t)
  PROVE  /\ UNCHANGED <<tables, faults>>
         /\ \A s \in Threads \ {t} :
              pc'[s] = pc[s] /\ req'[s] = req[s] /\ clean'[s] = clean[s] /\ seen'[s] = seen[s]
         /\ pc[t] = "idle" /\ pc'[t] \in {"reg", "friend", "group", "join", "list"} /\ seen'[t] = {}
         /\ pc'[t] # "reg" => \A s \in Threads : pc[s] # "idle" => req[s].user # req'[t].user
<1>1. PICK step, request :
        /\ step \in {"reg", "friend", "group", "join", "list"}
        /\ Ask(t, step, request) /\ (step # "reg" => Free(request.user))
  <2>1. \A u, v, name : Request(u, v, name).user = u
    BY DEF Request
  <2> QED
    BY <2>1 DEF Requests, Reg, AddFriend, CreateGroup, AddGroup, Login
<1> QED
  BY <1>1 DEF Ask, Free, TypeOK

LEMMA StatementMoves ==
  ASSUME TypeOK, NEW t \in Threads, Statements(t)
  PROVE  /\ \A s \in Threads \ {t} :
              pc'[s] = pc[s] /\ req'[s] = req[s] /\ clean'[s] = clean[s] /\ seen'[s] = seen[s]
         /\ req'[t].user = req[t].user
         /\ Busy(t)' => Busy(t)
         /\ clean'[t] => clean[t]
         /\ faults' = 0 => faults = 0
<1>1. Statements(t) => Works \/ Fails(t) \/ (UNCHANGED faults /\ clean' = [clean EXCEPT ![t] = FALSE])
  BY DEF Statements, InsertUser, FriendConnectFails, FirstInsert, SecondInsert, InsertGroup,
         InsertCreator, InsertNormal, QueryGroups, QueryUsers, ListsAnswered, Unmade, Works
<1>2. \A s \in Threads \ {t} : pc'[s] = pc[s] /\ clean'[s] = clean[s]
  <2>1. \A s \in Threads \ {t} : clean'[s] = clean[s]
    BY <1>1 DEF Works, Fails, TypeOK
  <2>2. (\E from, to : Step(t, from, to)) \/ UNCHANGED pc
    BY DEF Statements, InsertUser, FriendConnectFails, FirstInsert, SecondInsert, InsertGroup,
           InsertCreator, InsertNormal, QueryGroups, QueryUsers, ListsAnswered
  <2> QED
    BY <2>1, <2>2 DEF Step, TypeOK
<1>3. req' = req \/ req' = [req EXCEPT ![t].other = nextGroup]
  BY DEF Statements, InsertUser, FriendConnectFails, FirstInsert, SecondInsert, InsertGroup,
         InsertCreator, InsertNormal, QueryGroups, QueryUsers, ListsAnswered
<1>4. req'[t].user = req[t].user /\ \A s \in Threads \ {t} : req'[s] = req[s]
  <2>1. req \in [Threads -> [user : 0..MaxUserId, other : Nat, name : Names \cup {NoName}]]
    BY DEF TypeOK
  <2> QED
    BY <1>3, <2>1
<1>5. \A s \in Threads \ {t} : seen'[s] = seen[s]
  <2>1. seen' = seen \/ \E v : seen' = [seen EXCEPT ![t] = v]
    BY DEF Statements, InsertUser, FriendConnectFails, FirstInsert, SecondInsert, InsertGroup,
           InsertCreator, InsertNormal, QueryGroups, QueryUsers, ListsAnswered
  <2> QED
    BY <2>1 DEF TypeOK
<1>6. Busy(t)' => Busy(t)
  BY DEF Statements, InsertUser, FriendConnectFails, FirstInsert, SecondInsert, InsertGroup,
         InsertCreator, InsertNormal, QueryGroups, QueryUsers, ListsAnswered, Step, TypeOK, Busy
<1>7. (clean'[t] => clean[t]) /\ (faults' = 0 => faults = 0)
  BY <1>1, FaultTypes DEF Works, Fails, TypeOK
<1> QED
  BY <1>2, <1>4, <1>5, <1>6, <1>7

LEMMA StatementChanges ==
  ASSUME TypeOK, NEW t \in Threads, Statements(t)
  PROVE  /\ InsertUser(t) \/ UNCHANGED userVars
         /\ FirstInsert(t) \/ SecondInsert(t) \/ UNCHANGED friendVars
         /\ InsertGroup(t) \/ UNCHANGED groupVars
         /\ InsertCreator(t) \/ InsertNormal(t) \/ UNCHANGED GroupUser
         /\ QueryGroups(t) \/ QueryUsers(t) \/ UNCHANGED seen
<1> USE DEF tables
<1>1. InsertUser(t) \/ UNCHANGED userVars
  BY DEF Statements, InsertUser, FriendConnectFails, FirstInsert, SecondInsert, InsertGroup,
         InsertCreator, InsertNormal, QueryGroups, QueryUsers, ListsAnswered, Unmade
<1>2. FirstInsert(t) \/ SecondInsert(t) \/ UNCHANGED friendVars
  BY DEF Statements, InsertUser, FriendConnectFails, FirstInsert, SecondInsert, InsertGroup,
         InsertCreator, InsertNormal, QueryGroups, QueryUsers, ListsAnswered, Unmade
<1>3. InsertGroup(t) \/ UNCHANGED groupVars
  BY DEF Statements, InsertUser, FriendConnectFails, FirstInsert, SecondInsert, InsertGroup,
         InsertCreator, InsertNormal, QueryGroups, QueryUsers, ListsAnswered, Unmade
<1>4. InsertCreator(t) \/ InsertNormal(t) \/ UNCHANGED GroupUser
  BY DEF Statements, InsertUser, FriendConnectFails, FirstInsert, SecondInsert, InsertGroup,
         InsertCreator, InsertNormal, QueryGroups, QueryUsers, ListsAnswered, Unmade
<1>5. QueryGroups(t) \/ QueryUsers(t) \/ UNCHANGED seen
  BY DEF Statements, InsertUser, FriendConnectFails, FirstInsert, SecondInsert, InsertGroup,
         InsertCreator, InsertNormal, QueryGroups, QueryUsers, ListsAnswered
<1> QED
  BY <1>1, <1>2, <1>3, <1>4, <1>5

(* Where a handler stands says which statement it makes, and the other way *)
(* round.                                                                  *)
LEMMA StatementOrder ==
  ASSUME TypeOK, NEW t \in Threads, Statements(t)
  PROVE  /\ pc[t] = "friendBack" => SecondInsert(t)
         /\ pc[t] = "creator" => InsertCreator(t)
         /\ pc'[t] = "friendBack" => FirstInsert(t)
         /\ pc'[t] = "creator" => InsertGroup(t)
         /\ pc'[t] # "list"
         /\ pc'[t] = "users" => QueryGroups(t) \/ QueryUsers(t)
BY DEF Statements, InsertUser, FriendConnectFails, FirstInsert, SecondInsert, InsertGroup,
       InsertCreator, InsertNormal, QueryGroups, QueryUsers, ListsAnswered, Step, TypeOK

LEMMA CrashFacts ==
  ASSUME TypeOK, Crash
  PROVE  /\ UNCHANGED <<tables, req, clean, seen>> /\ faults' # 0
         /\ \A s \in Threads : pc'[s] = "idle"
<1>1. faults \in Nat
  BY ChatSocialAssumption, Counting DEF TypeOK
<1> QED
  BY <1>1 DEF Crash

-----------------------------------------------------------------------------
(* One request of a user at a time, and the answers                        *)

LEMMA OneRequestNext == TypeOK /\ OneRequestEach /\ [Next]_vars => OneRequestEach'
<1> SUFFICES ASSUME TypeOK, OneRequestEach, [Next]_vars PROVE OneRequestEach'
  OBVIOUS
<1>1. ASSUME NEW t \in Threads, Requests(t) PROVE OneRequestEach'
  BY <1>1, AskFacts DEF OneRequestEach, Busy
<1>2. ASSUME NEW t \in Threads, Statements(t) PROVE OneRequestEach'
  <2>1. \A s \in Threads : req'[s].user = req[s].user
    BY <1>2, StatementMoves
  <2>2. \A s \in Threads : Busy(s)' => Busy(s)
    BY <1>2, StatementMoves DEF Busy
  <2> QED
    BY <2>1, <2>2 DEF OneRequestEach
<1>3. CASE Crash
  BY <1>3, CrashFacts DEF OneRequestEach, Busy
<1>4. CASE UNCHANGED vars
  BY <1>4 DEF vars, OneRequestEach, Busy
<1> QED
  BY <1>1, <1>2, <1>3, <1>4 DEF Next

LEMMA AnswersNext ==
  TypeOK /\ ListedJoined /\ AnswersTrue /\ [Next]_vars => ListedJoined' /\ AnswersTrue'
<1> SUFFICES ASSUME TypeOK, ListedJoined, AnswersTrue, [Next]_vars
             PROVE ListedJoined' /\ AnswersTrue'
  OBVIOUS
<1> DEFINE IdsTrue == \A ack \in acks : User[ack[2]] = ack[1]
           ListsTrue == \A s \in Threads : \A entry \in seen[s] :
                          entry[3] => req[s].user \in entry[2] \/ ~clean[s]
<1>0. IdsTrue /\ ListsTrue
  BY DEF AnswersTrue
<1>1. ASSUME NEW t \in Threads, Requests(t) PROVE ListedJoined' /\ IdsTrue' /\ ListsTrue'
  BY <1>0, <1>1, AskFacts DEF tables, userVars, ListedJoined, Groups
<1>2. ASSUME NEW t \in Threads, Statements(t) PROVE ListedJoined' /\ IdsTrue' /\ ListsTrue'
  <2>1. GroupUser \subseteq GroupUser'
    BY <1>2, StatementChanges DEF InsertCreator, InsertNormal, InsertGroupUser, Unmade, tables
  <2>0. \A s \in Threads : req'[s].user = req[s].user
    BY <1>2, StatementMoves
  <2>2. \A s \in Threads : Groups(req[s].user) \subseteq Groups(req[s].user)'
    BY <2>0, <2>1 DEF Groups
  <2>3. \A s \in Threads \ {t} :
          /\ pc'[s] = "list" => seen'[s] = {}
          /\ pc'[s] = "users" => \A entry \in seen'[s] : entry[1] \in Groups(req[s].user)'
          /\ \A entry \in seen'[s] : entry[3] => req'[s].user \in entry[2] \/ ~clean'[s]
    BY <1>0, <1>2, <2>2, StatementMoves DEF ListedJoined
  <2>4. IdsTrue'
    <3>1. CASE UNCHANGED userVars
      BY <1>0, <3>1 DEF userVars
    <3>2. CASE InsertUser(t) /\ ~UNCHANGED userVars
      <4>1. \/ UNCHANGED <<User, acks>>
            \/ /\ nextUser <= MaxUserId /\ pc[t] = "reg"
               /\ User' = [User EXCEPT ![nextUser] = req[t].name]
               /\ acks' \in {acks, acks \cup {<<req[t].name, nextUser>>}}
        BY <3>2 DEF InsertUser, Unmade, tables, userVars, Step
      <4>2. nextUser <= MaxUserId => nextUser \in UserIds /\ nextUser \notin Registered
        BY ChatSocialAssumption, Counting DEF TypeOK, UserIds
      <4>3. \A ack \in acks : ack[2] \in Registered
        BY <1>0, ChatSocialAssumption DEF TypeOK, Registered
      <4> QED
        BY <1>0, <4>1, <4>2, <4>3 DEF TypeOK, Registered
    <3> QED
      BY <1>2, <3>1, <3>2, StatementChanges
  <2>6. pc'[t] # "list"
    BY <1>2, StatementOrder
  <2>5. /\ pc'[t] = "users" => \A entry \in seen'[t] : entry[1] \in Groups(req[t].user)'
        /\ \A entry \in seen'[t] : entry[3] => req'[t].user \in entry[2] \/ ~clean'[t]
    <3>0. (clean'[t] => clean[t]) /\ req'[t].user = req[t].user
      BY <1>2, StatementMoves
    <3>1. CASE UNCHANGED seen /\ ~QueryGroups(t) /\ ~QueryUsers(t)
      <4>1. pc'[t] # "users"
        BY <1>2, <3>1, StatementOrder
      <4> QED
        BY <1>0, <3>0, <3>1, <4>1
    <3>2. CASE QueryGroups(t)
      <4>1. PICK groups \in SUBSET Groups(req[t].user) : seen'[t] = {<<g, {}, FALSE>> : g \in groups}
        BY <3>2 DEF QueryGroups, TypeOK
      <4>2. ASSUME NEW entry \in seen'[t] PROVE entry[1] \in Groups(req[t].user) /\ entry[3] = FALSE
        <5>1. PICK g \in groups : entry = <<g, {}, FALSE>>
          BY <4>1
        <5>2. entry[1] = g /\ entry[3] = FALSE
          BY <5>1
        <5> QED
          BY <5>2
      <4> QED
        BY <2>2, <4>2
    <3>3. CASE QueryUsers(t)
      <4>1. PICK g \in GroupIds, users \in SUBSET UserIds :
              /\ <<g, {}, FALSE>> \in seen[t]
              /\ users = Members(g) \/ clean'[t] = FALSE
              /\ seen'[t] = (seen[t] \ {<<g, {}, FALSE>>}) \cup {<<g, users, TRUE>>}
        BY <3>3 DEF QueryUsers, UsersOf, Members, Works, Fails, TypeOK
      <4>2. g \in Groups(req[t].user) /\ req[t].user \in UserIds
        BY <3>3, <4>1, RequestTypes DEF QueryUsers, ListedJoined
      <4>3. req[t].user \in users \/ ~clean'[t]
        BY <4>1, <4>2 DEF Members
      <4> QED
        <5>1. ASSUME NEW entry \in seen'[t] PROVE entry \in seen[t] \/ entry = <<g, users, TRUE>>
          BY <4>1
        <5>0. \A entry \in seen[t] : entry[1] \in Groups(req[t].user)'
          BY <2>2, <3>3 DEF QueryUsers, ListedJoined
        <5>2. ASSUME NEW entry \in seen'[t] PROVE entry[1] \in Groups(req[t].user)'
          <6>1. CASE entry = <<g, users, TRUE>>
            <7>1. entry[1] = g
              BY <6>1
            <7> QED
              BY <2>2, <4>2, <7>1
          <6> QED
            BY <5>0, <5>1, <6>1
        <5>3. ASSUME NEW entry \in seen'[t], entry[3] PROVE req[t].user \in entry[2] \/ ~clean'[t]
          <6>1. CASE entry = <<g, users, TRUE>>
            <7>1. entry[2] = users
              BY <6>1
            <7> QED
              BY <4>3, <7>1
          <6>2. CASE entry \in seen[t]
            BY <1>0, <3>0, <5>3, <6>2
          <6> QED
            BY <5>1, <6>1, <6>2
        <5> QED
          BY <3>0, <5>2, <5>3
    <3> QED
      BY <1>2, <3>1, <3>2, <3>3, StatementChanges
  <2> QED
    BY <2>0, <2>3, <2>4, <2>5, <2>6 DEF ListedJoined, Groups
<1>3. CASE Crash
  <2>1. /\ UNCHANGED <<User, acks, seen, req, clean>>
        /\ \A s \in Threads : pc'[s] \notin {"list", "users"}
    BY <1>3, CrashFacts DEF tables, userVars
  <2> QED
    <3>1. ListedJoined'
      BY <2>1 DEF ListedJoined
    <3>2. IdsTrue' /\ ListsTrue'
      BY <1>0, <2>1
    <3> QED
      BY <3>1, <3>2 DEF AnswersTrue
<1>4. CASE UNCHANGED vars
  <2>1. UNCHANGED <<User, acks, seen, req, clean, pc, GroupUser>>
    BY <1>4 DEF vars, tables, userVars
  <2>2. \A s \in Threads : Groups(req[s].user)' = Groups(req[s].user)
    BY <2>1 DEF Groups
  <2> QED
    <3>1. ListedJoined'
      BY <2>1, <2>2 DEF ListedJoined
    <3>2. IdsTrue' /\ ListsTrue'
      BY <1>0, <2>1
    <3> QED
      BY <3>1, <3>2 DEF AnswersTrue
<1> QED
  BY <1>1, <1>2, <1>3, <1>4 DEF Next, AnswersTrue

-----------------------------------------------------------------------------
(* Friends                                                                 *)

LEMMA FriendRowsGrow ==
  ASSUME TypeOK, NEW t \in Threads, Statements(t)
  PROVE  Friend \subseteq Friend' /\ tooEarly \subseteq tooEarly'
<1>1. CASE UNCHANGED friendVars
  BY <1>1 DEF friendVars
<1>2. CASE FirstInsert(t) \/ SecondInsert(t)
  BY <1>2 DEF FirstInsert, SecondInsert, InsertFriend, Unmade, tables, friendVars
<1> QED
  BY <1>1, <1>2, StatementChanges

LEMMA FirstInsertMakes ==
  ASSUME TypeOK, NEW t \in Threads, FirstInsert(t),
         NEW u, u = req[t].user, NEW friend, friend = req[t].other
  PROVE  /\ Friend' \subseteq Friend \cup {<<u, friend>>}
         /\ befriended' = befriended
         /\ clean'[t] => <<u, friend>> \in Friend'
         /\ faults' = 0 => <<u, friend>> \in Friend' \cup tooEarly'
         /\ pc'[t] = "friendBack" /\ req' = req
<1>1. pc[t] = "friend" /\ pc'[t] = "friendBack" /\ req' = req
  BY DEF FirstInsert, Step, TypeOK
<1>2. u \in Nat /\ friend \in Nat /\ u \in Registered
  BY <1>1, RequestTypes
<1>3. CASE Unmade(t)
  BY <1>1, <1>3, FaultTypes DEF Unmade, Works, Fails, tables, friendVars, TypeOK
<1>4. CASE ~Unmade(t)
  <2>1. /\ InsertFriend(u, friend) /\ UNCHANGED <<User, befriended>>
        /\ friend \notin Registered =>
             <<u, friend>> \in tooEarly' /\ clean' = [clean EXCEPT ![t] = FALSE]
    BY <1>4 DEF FirstInsert, userVars
  <2>2. friend \notin Registered => clean'[t] = FALSE
    BY <2>1 DEF TypeOK
  <2> QED
    BY <1>1, <1>2, <2>1, <2>2, FriendTypes
<1> QED
  BY <1>3, <1>4

(* The row of the first insert is there, so both users are.                *)
LEMMA SecondInsertMakes ==
  ASSUME TypeOK, FriendDue, NEW t \in Threads, SecondInsert(t),
         NEW u, u = req[t].user, NEW friend, friend = req[t].other
  PROVE  /\ Friend' \subseteq Friend \cup {<<friend, u>>}
         /\ \/ befriended' = befriended
            \/ /\ befriended' = befriended \cup {<<u, friend>>}
               /\ {<<u, friend>>, <<friend, u>>} \subseteq Friend'
         /\ faults' = 0 =>
              /\ <<u, friend>> \in Friend \cup tooEarly
              /\ <<u, friend>> \in Friend => <<friend, u>> \in Friend'
<1>1. pc[t] = "friendBack"
  BY DEF SecondInsert, Step
<1>2. u \in Nat /\ friend \in Nat
  BY <1>1, RequestTypes
<1>3. faults' = 0 => faults = 0 /\ Works
  BY FaultTypes DEF SecondInsert, Unmade
<1>4. CASE Unmade(t)
  <2>1. faults' # 0
    BY <1>4, FaultTypes DEF Unmade, Fails, Works, TypeOK
  <2> QED
    BY <1>4, <2>1 DEF Unmade, tables, friendVars
<1>5. CASE ~Unmade(t)
  <2>1. /\ InsertFriend(friend, u) /\ UNCHANGED <<User, tooEarly>>
        /\ befriended' = befriended \cup {pair \in {<<u, friend>>} : clean[t]}
    BY <1>5 DEF SecondInsert, userVars
  <2>2. Friend \subseteq Friend' /\ Friend' \subseteq Friend \cup {<<friend, u>>}
        /\ ({u, friend} \subseteq Registered => <<friend, u>> \in Friend')
    BY <1>2, <2>1, FriendTypes
  <2>3. <<u, friend>> \in Friend => {u, friend} \subseteq Registered
    BY DEF TypeOK
  <2>4. clean[t] => <<u, friend>> \in Friend
    BY <1>1 DEF FriendDue
  <2>5. faults' = 0 => <<u, friend>> \in Friend \cup tooEarly
    BY <1>1, <1>3 DEF FriendDue
  <2>6. CASE clean[t]
    BY <2>1, <2>2, <2>3, <2>4, <2>5, <2>6
  <2>7. CASE ~clean[t]
    <3>1. befriended' = befriended
      BY <2>1, <2>7
    <3> QED
      BY <2>2, <2>3, <2>5, <3>1
  <2> QED
    BY <2>6, <2>7
<1> QED
  BY <1>4, <1>5

LEMMA FriendDueNext == TypeOK /\ FriendDue /\ [Next]_vars => FriendDue'
<1> SUFFICES ASSUME TypeOK, FriendDue, [Next]_vars PROVE FriendDue'
  OBVIOUS
<1>1. ASSUME NEW t \in Threads, Requests(t) PROVE FriendDue'
  BY <1>1, AskFacts DEF tables, friendVars, FriendDue
<1>2. ASSUME NEW t \in Threads, Statements(t) PROVE FriendDue'
  <2>1. Friend \subseteq Friend' /\ tooEarly \subseteq tooEarly' /\ (faults' = 0 => faults = 0)
    BY <1>2, FriendRowsGrow, StatementMoves
  <2>2. \A s \in Threads \ {t} : pc'[s] = "friendBack" =>
          /\ clean'[s] => <<req'[s].user, req'[s].other>> \in Friend'
          /\ faults' = 0 => <<req'[s].user, req'[s].other>> \in Friend' \cup tooEarly'
    BY <1>2, <2>1, StatementMoves DEF FriendDue
  <2>3. pc'[t] = "friendBack" =>
          /\ clean'[t] => <<req'[t].user, req'[t].other>> \in Friend'
          /\ faults' = 0 => <<req'[t].user, req'[t].other>> \in Friend' \cup tooEarly'
    BY <1>2, StatementOrder, FirstInsertMakes
  <2> QED
    BY <2>2, <2>3 DEF FriendDue
<1>3. CASE Crash
  BY <1>3, CrashFacts DEF FriendDue
<1>4. CASE UNCHANGED vars
  BY <1>4 DEF vars, tables, friendVars, FriendDue
<1> QED
  BY <1>1, <1>2, <1>3, <1>4 DEF Next

LEMMA FriendsNext == TypeOK /\ FriendDue /\ FriendsBothWays /\ [Next]_vars => FriendsBothWays'
<1> SUFFICES ASSUME TypeOK, FriendDue, FriendsBothWays, [Next]_vars PROVE FriendsBothWays'
  OBVIOUS
<1> DEFINE Mutual == \A pair \in befriended : {pair, <<pair[2], pair[1]>>} \subseteq Friend
           Excused(pair) == \/ <<pair[2], pair[1]>> \in Friend \cup tooEarly
                            \/ \E s \in Threads : pc[s] = "friendBack" /\ pair = <<req[s].user, req[s].other>>
<1>0. Mutual /\ (faults = 0 => \A pair \in Friend : Excused(pair))
  BY DEF FriendsBothWays
<1>1. ASSUME NEW t \in Threads, Requests(t) PROVE Mutual' /\ (faults' = 0 => \A pair \in Friend' : Excused(pair)')
  <2>1. UNCHANGED <<Friend, tooEarly, befriended, faults>>
    BY <1>1, AskFacts DEF tables, friendVars
  <2>2. \A s \in Threads : pc[s] = "friendBack" => pc'[s] = "friendBack" /\ req'[s] = req[s]
    BY <1>1, AskFacts
  <2> QED
    BY <1>0, <2>1, <2>2
<1>2. ASSUME NEW t \in Threads, Statements(t) PROVE Mutual' /\ (faults' = 0 => \A pair \in Friend' : Excused(pair)')
  <2>1. /\ Friend \subseteq Friend' /\ tooEarly \subseteq tooEarly'
        /\ faults' = 0 => faults = 0
        /\ \A s \in Threads \ {t} : pc'[s] = pc[s] /\ req'[s] = req[s]
    BY <1>2, FriendRowsGrow, StatementMoves
  <2>2. CASE FirstInsert(t)
    <3> DEFINE u == req[t].user  friend == req[t].other
    <3>1. /\ Friend' \subseteq Friend \cup {<<u, friend>>}
          /\ befriended' = befriended
          /\ pc'[t] = "friendBack" /\ req' = req /\ pc[t] = "friend"
      BY <2>2, FirstInsertMakes DEF FirstInsert, Step
    <3>2. Mutual'
      BY <1>0, <2>1, <3>1
    <3>3. ASSUME faults' = 0, NEW pair \in Friend' PROVE Excused(pair)'
      <4>1. CASE pair = <<u, friend>>
        BY <3>1, <4>1
      <4>2. CASE pair \in Friend
        BY <1>0, <2>1, <3>1, <3>3, <4>2
      <4> QED
        BY <3>1, <4>1, <4>2
    <3> QED
      BY <3>2, <3>3
  <2>3. CASE SecondInsert(t)
    <3> DEFINE u == req[t].user  friend == req[t].other
    <3>1. /\ Friend' \subseteq Friend \cup {<<friend, u>>}
          /\ \/ befriended' = befriended
             \/ /\ befriended' = befriended \cup {<<u, friend>>}
                /\ {<<u, friend>>, <<friend, u>>} \subseteq Friend'
          /\ faults' = 0 =>
               /\ <<u, friend>> \in Friend \cup tooEarly
               /\ <<u, friend>> \in Friend => <<friend, u>> \in Friend'
      BY <2>3, SecondInsertMakes
    <3>2. Mutual'
      <4>1. ASSUME NEW pair \in befriended' PROVE {pair, <<pair[2], pair[1]>>} \subseteq Friend'
        <5>1. CASE pair \in befriended
          BY <1>0, <2>1, <5>1
        <5>2. CASE pair = <<u, friend>> /\ {<<u, friend>>, <<friend, u>>} \subseteq Friend'
          <6>1. pair[1] = u /\ pair[2] = friend
            BY <5>2
          <6> QED
            BY <5>2, <6>1
        <5> QED
          BY <3>1, <4>1, <5>1, <5>2
      <4> QED
        BY <4>1
    <3>3. ASSUME faults' = 0, NEW pair \in Friend' PROVE Excused(pair)'
      <4>1. CASE pair = <<friend, u>>
        <5>1. pair[1] = friend /\ pair[2] = u
          BY <4>1
        <5> QED
          BY <2>1, <3>1, <3>3, <5>1
      <4>2. CASE pair \in Friend /\ <<pair[2], pair[1]>> \in Friend \cup tooEarly
        BY <2>1, <4>2
      <4>3. CASE pair \in Friend /\ pair = <<u, friend>>
        <5>1. pair[1] = u /\ pair[2] = friend
          BY <4>3
        <5> QED
          BY <3>1, <3>3, <4>3, <5>1
      <4>4. CASE \E s \in Threads \ {t} : pc[s] = "friendBack" /\ pair = <<req[s].user, req[s].other>>
        BY <2>1, <4>4
      <4> QED
        BY <1>0, <2>1, <3>1, <3>3, <4>1, <4>2, <4>3, <4>4
    <3> QED
      BY <3>2, <3>3
  <2>4. CASE ~FirstInsert(t) /\ ~SecondInsert(t)
    <3>1. UNCHANGED <<Friend, befriended, tooEarly>>
      BY <1>2, <2>4, StatementChanges DEF friendVars
    <3>2. pc[t] # "friendBack"
      BY <1>2, <2>4, StatementOrder
    <3>3. \A pair \in Friend : Excused(pair) => Excused(pair)'
      BY <2>1, <3>1, <3>2
    <3> QED
      BY <1>0, <2>1, <3>1, <3>3
  <2> QED
    BY <2>2, <2>3, <2>4
<1>3. CASE Crash
  <2>1. UNCHANGED <<Friend, befriended>> /\ faults' # 0
    BY <1>3, CrashFacts DEF tables, friendVars
  <2> QED
    BY <1>0, <2>1 DEF FriendsBothWays
<1>4. CASE UNCHANGED vars
  BY <1>4 DEF vars, tables, friendVars, FriendsBothWays
<1> QED
  BY <1>1, <1>2, <1>3, <1>4 DEF Next, FriendsBothWays

-----------------------------------------------------------------------------
(* Groups                                                                  *)

(* A row of a group's user, of one who has no other request: only the      *)
(* request's own rows are new.                                             *)
LEMMA GroupRows ==
  ASSUME TypeOK, NEW t \in Threads, InsertCreator(t) \/ InsertNormal(t),
         NEW g, g = req[t].other, NEW u, u = req[t].user
  PROVE  /\ UNCHANGED <<AllGroup, owner, req>>
         /\ u \in Registered /\ u \in UserIds
         /\ GroupUser \subseteq GroupUser'
         /\ InsertCreator(t) => GroupUser' \subseteq GroupUser \cup {<<g, u, "creator">>}
         /\ InsertNormal(t) => GroupUser' \subseteq GroupUser \cup {<<g, u, "normal">>}
         /\ InsertCreator(t) /\ faults' = 0 /\ g \in Existing /\ g \notin Groups(u) =>
              <<g, u, "creator">> \in GroupUser'
<1>1. pc[t] \in {"creator", "join"} /\ UNCHANGED <<AllGroup, owner, req, User>>
  BY DEF InsertCreator, InsertNormal, Step, Unmade, tables, groupVars, userVars
<1>2. g \in Nat /\ u \in Registered /\ u \in UserIds
  BY <1>1, RequestTypes
<1>3. CASE Unmade(t)
  <2>1. faults' # 0
    BY <1>3, FaultTypes DEF Unmade, Fails, Works, TypeOK
  <2> QED
    BY <1>1, <1>2, <1>3, <2>1 DEF Unmade, tables
<1>4. CASE ~Unmade(t)
  <2>1. CASE InsertCreator(t)
    <3>1. InsertGroupUser(g, u, "creator") /\ ~InsertNormal(t)
      BY <1>4, <2>1 DEF InsertCreator, InsertNormal, Step
    <3> QED
      BY <1>1, <1>2, <2>1, <3>1, GroupUserTypes
  <2>2. CASE InsertNormal(t)
    <3>1. InsertGroupUser(g, u, "normal") /\ ~InsertCreator(t)
      BY <1>4, <2>2 DEF InsertCreator, InsertNormal, Step
    <3> QED
      BY <1>1, <1>2, <2>2, <3>1, GroupUserTypes
  <2> QED
    BY <2>1, <2>2
<1> QED
  BY <1>3, <1>4

(* A group that is new has no rows yet, and a request waits to be its      *)
(* creator's.                                                              *)
LEMMA NewGroup ==
  ASSUME TypeOK, NEW t \in Threads, InsertGroup(t)
  PROVE  /\ UNCHANGED GroupUser
         /\ Existing \subseteq Existing' /\ \A g \in Existing : owner'[g] = owner[g]
         /\ \A g \in GroupIds : owner'[g] # owner[g] => \A u, role : <<g, u, role>> \notin GroupUser
         /\ pc'[t] = "creator" =>
              /\ req'[t].other \in Existing' /\ owner'[req'[t].other] = req'[t].user
              /\ \A u, role : <<req'[t].other, u, role>> \notin GroupUser
         /\ faults' = 0 =>
              \A g \in Existing' \ Existing : pc'[t] = "creator" /\ req'[t].other = g
<1>1. nextGroup \in Nat /\ nextGroup \notin Existing
      /\ (nextGroup <= MaxGroupId => nextGroup \in GroupIds)
  BY ChatSocialAssumption, Counting DEF TypeOK, GroupIds
<1>2. \A u, role : <<nextGroup, u, role>> \notin GroupUser
  BY <1>1 DEF TypeOK
<1>3. CASE UNCHANGED groupVars /\ pc'[t] # "creator"
  <2>1. UNCHANGED <<GroupUser, AllGroup, owner>>
    BY <1>3 DEF InsertGroup, Unmade, tables, groupVars
  <2> QED
    BY <1>3, <2>1 DEF Existing
<1>4. CASE UNCHANGED <<AllGroup, owner, GroupUser>> /\ pc'[t] # "creator"
  BY <1>4 DEF Existing
<1>5. CASE /\ nextGroup <= MaxGroupId /\ UNCHANGED GroupUser
           /\ AllGroup' = [AllGroup EXCEPT ![nextGroup] = req[t].name]
           /\ owner' = [owner EXCEPT ![nextGroup] = req[t].user]
           /\ \/ pc'[t] = "creator" /\ req' = [req EXCEPT ![t].other = nextGroup]
              \/ pc'[t] # "creator" /\ Fails(t)
  <2>1. req[t].name # NoName
    BY ChatSocialAssumption DEF InsertGroup, Step, TypeOK
  <2>2. /\ Existing \subseteq Existing' /\ Existing' \ Existing = {nextGroup}
        /\ \A g \in GroupIds \ {nextGroup} : owner'[g] = owner[g]
        /\ owner'[nextGroup] = req[t].user
    BY <1>1, <1>5, <2>1 DEF TypeOK, Existing
  <2>3. CASE pc'[t] = "creator" /\ req' = [req EXCEPT ![t].other = nextGroup]
    <3>1. req'[t].other = nextGroup /\ req'[t].user = req[t].user
      BY <2>3 DEF TypeOK
    <3> QED
      BY <1>1, <1>2, <1>5, <2>2, <2>3, <3>1 DEF Existing
  <2>4. CASE pc'[t] # "creator" /\ Fails(t)
    <3>1. faults' # 0
      BY <2>4, FaultTypes DEF Fails, Works, TypeOK
    <3> QED
      BY <1>1, <1>2, <1>5, <2>2, <2>4, <3>1 DEF Existing
  <2> QED
    BY <1>5, <2>3, <2>4
<1> QED
  BY <1>3, <1>4, <1>5 DEF InsertGroup, Unmade, Step, TypeOK, tables

LEMMA GroupsNext ==
  TypeOK /\ OneRequestEach /\ CreatorDue /\ GroupHasCreator /\ [Next]_vars
    => CreatorDue' /\ GroupHasCreator'
<1> SUFFICES ASSUME TypeOK, OneRequestEach, CreatorDue, GroupHasCreator, [Next]_vars
             PROVE CreatorDue' /\ GroupHasCreator'
  OBVIOUS
<1> DEFINE OnlyOwners == \A g \in GroupIds, u \in UserIds : <<g, u, "creator">> \in GroupUser => u = owner[g]
           Due(g) == \E s \in Threads : pc[s] = "creator" /\ req[s].other = g
           HasOne(g) == \E u \in UserIds : <<g, u, "creator">> \in GroupUser
           NoneLacks == faults = 0 => \A g \in Existing : HasOne(g) \/ Due(g)
           DueAt(s) == /\ req[s].other \in Existing /\ owner[req[s].other] = req[s].user
                       /\ \A role \in {"creator", "normal"} : <<req[s].other, req[s].user, role>> \notin GroupUser
<1>a. GroupHasCreator <=> OnlyOwners /\ NoneLacks
  BY DEF GroupHasCreator, Existing
<1>b. GroupHasCreator' <=> OnlyOwners' /\ NoneLacks'
  BY DEF GroupHasCreator, Existing
<1>c. Existing \subseteq GroupIds
  BY DEF Existing
<1>1. ASSUME NEW t \in Threads, Requests(t) PROVE CreatorDue' /\ OnlyOwners' /\ NoneLacks'
  <2>1. UNCHANGED <<GroupUser, AllGroup, owner, faults>>
    BY <1>1, AskFacts DEF tables, groupVars
  <2>2. Existing' = Existing
    BY <2>1 DEF Existing
  <2>3. \A s \in Threads : (pc[s] = "creator" <=> pc'[s] = "creator")
                             /\ (pc[s] = "creator" => req'[s] = req[s])
    BY <1>1, AskFacts
  <2>4. CreatorDue'
    BY <2>1, <2>2, <2>3 DEF CreatorDue
  <2>5. \A g : Due(g) => Due(g)'
    BY <2>3
  <2> QED
    BY <1>a, <2>1, <2>2, <2>4, <2>5
<1>2. ASSUME NEW t \in Threads, Statements(t) PROVE CreatorDue' /\ OnlyOwners' /\ NoneLacks'
  <2>1. /\ \A s \in Threads \ {t} : pc'[s] = pc[s] /\ req'[s] = req[s]
        /\ faults' = 0 => faults = 0
    BY <1>2, StatementMoves
  <2>2. CASE InsertCreator(t) \/ InsertNormal(t)
    <3> DEFINE g == req[t].other  u == req[t].user
    <3>1. /\ UNCHANGED <<AllGroup, owner, req>>
          /\ u \in Registered /\ u \in UserIds
          /\ GroupUser \subseteq GroupUser'
          /\ InsertCreator(t) => GroupUser' \subseteq GroupUser \cup {<<g, u, "creator">>}
          /\ InsertNormal(t) => GroupUser' \subseteq GroupUser \cup {<<g, u, "normal">>}
          /\ InsertCreator(t) /\ faults' = 0 /\ g \in Existing /\ g \notin Groups(u) =>
               <<g, u, "creator">> \in GroupUser'
      BY <2>2, GroupRows
    <3>2. Existing' = Existing /\ pc'[t] = "idle"
      BY <2>2, <3>1 DEF Existing, InsertCreator, InsertNormal, Step, TypeOK
    <3>3. InsertCreator(t) => DueAt(t) /\ pc[t] = "creator"
      BY DEF InsertCreator, Step, CreatorDue
    <3>4. InsertNormal(t) => pc[t] = "join"
      BY DEF InsertNormal, Step
    <3>5. CreatorDue'
      <4>1. ASSUME NEW s \in Threads, pc'[s] = "creator" PROVE DueAt(s)'
        <5>1. s # t /\ pc[s] = "creator" /\ DueAt(s) /\ req'[s] = req[s]
          BY <2>1, <3>2, <4>1 DEF CreatorDue
        <5>2. req[s].user # u
          BY <2>2, <3>3, <3>4, <5>1 DEF OneRequestEach, Busy
        <5>3. \A role \in {"creator", "normal"} : <<req[s].other, req[s].user, role>> \notin GroupUser'
          BY <2>2, <3>1, <5>1, <5>2
        <5> QED
          BY <3>1, <3>2, <5>1, <5>3
      <4> QED
        BY <4>1 DEF CreatorDue
    <3>6. OnlyOwners'
      BY <1>a, <2>2, <3>1, <3>3
    <3>7. ASSUME faults' = 0, NEW h \in Existing' PROVE HasOne(h)' \/ Due(h)'
      <4>1. HasOne(h) \/ Due(h)
        BY <1>a, <2>1, <3>2, <3>7
      <4>2. CASE HasOne(h)
        BY <3>1, <4>2
      <4>3. CASE \E s \in Threads \ {t} : pc[s] = "creator" /\ req[s].other = h
        BY <2>1, <4>3
      <4>4. CASE pc[t] = "creator" /\ req[t].other = h
        <5>1. InsertCreator(t) /\ g \notin Groups(u)
          BY <1>2, <3>3, <4>4, StatementOrder DEF Groups
        <5> QED
          BY <3>1, <3>2, <3>7, <4>4, <5>1
      <4> QED
        BY <4>1, <4>2, <4>3, <4>4
    <3> QED
      BY <3>5, <3>6, <3>7
  <2>3. CASE InsertGroup(t)
    <3>1. /\ UNCHANGED GroupUser
          /\ Existing \subseteq Existing' /\ \A g \in Existing : owner'[g] = owner[g]
          /\ \A g \in GroupIds : owner'[g] # owner[g] => \A u, role : <<g, u, role>> \notin GroupUser
          /\ pc'[t] = "creator" => DueAt(t)'
          /\ faults' = 0 =>
               \A g \in Existing' \ Existing : pc'[t] = "creator" /\ req'[t].other = g
      BY <2>3, NewGroup
    <3>2. CreatorDue'
      <4>1. ASSUME NEW s \in Threads, pc'[s] = "creator", s # t PROVE DueAt(s)'
        BY <2>1, <3>1, <4>1 DEF CreatorDue
      <4> QED
        BY <3>1, <4>1 DEF CreatorDue
    <3>3. OnlyOwners'
      BY <1>a, <3>1
    <3>4. pc[t] # "creator"
      BY <2>3 DEF InsertGroup
    <3>5. \A g : Due(g) => Due(g)'
      BY <2>1, <3>4
    <3>6. NoneLacks'
      BY <1>a, <2>1, <3>1, <3>5
    <3> QED
      BY <3>2, <3>3, <3>6
  <2>4. CASE ~InsertGroup(t) /\ ~InsertCreator(t) /\ ~InsertNormal(t)
    <3>1. UNCHANGED <<GroupUser, AllGroup, owner>>
      BY <1>2, <2>4, StatementChanges DEF groupVars
    <3>2. pc[t] # "creator" /\ pc'[t] # "creator" /\ Existing' = Existing
      BY <1>2, <2>4, <3>1, StatementOrder DEF Existing
    <3>3. CreatorDue'
      BY <2>1, <3>1, <3>2 DEF CreatorDue
    <3>4. \A g : Due(g) => Due(g)'
      BY <2>1, <3>2
    <3> QED
      BY <1>a, <2>1, <3>1, <3>2, <3>3, <3>4
  <2> QED
    BY <2>2, <2>3, <2>4
<1>3. CASE Crash
  <2>1. UNCHANGED <<GroupUser, owner>> /\ faults' # 0 /\ \A s \in Threads : pc'[s] # "creator"
    BY <1>3, CrashFacts DEF tables, groupVars
  <2> QED
    BY <1>a, <1>b, <2>1 DEF CreatorDue
<1>4. CASE UNCHANGED vars
  <2>1. UNCHANGED <<GroupUser, AllGroup, owner, faults, pc, req>>
    BY <1>4 DEF vars, tables, groupVars
  <2> QED
    BY <2>1 DEF CreatorDue, GroupHasCreator, Existing
<1> QED
  BY <1>b, <1>1, <1>2, <1>3, <1>4 DEF Next

-----------------------------------------------------------------------------
(* The rows and requests have their types: every row names users and groups*)
(* that are there, every member has one role, whatever statements fail and *)
(* wherever the process dies.                                              *)
THEOREM TypeCorrect == Spec => []TypeOK
<1>1. Init => TypeOK
  BY SocialInit
<1> QED
  BY <1>1, TypeNext, PTL DEF Spec

LEMMA SocialNext ==
  TypeOK /\ SocialInv /\ FriendsBothWays /\ GroupHasCreator /\ AnswersTrue /\ [Next]_vars
    => TypeOK' /\ SocialInv' /\ FriendsBothWays' /\ GroupHasCreator' /\ AnswersTrue'
BY TypeNext, OneRequestNext, AnswersNext, FriendDueNext, FriendsNext, GroupsNext DEF SocialInv

LEMMA SocialInvariant ==
  Spec => [](TypeOK /\ SocialInv /\ FriendsBothWays /\ GroupHasCreator /\ AnswersTrue)
BY SocialInit, SocialNext, PTL DEF Spec

(* The two inserts of addFriend make a friendship of both sides, and one   *)
(* side alone only after a failure or while the friend was not registered. *)
THEOREM FriendshipCorrect == Spec => []FriendsBothWays
BY SocialInvariant, PTL

(* The two inserts of createGroup give the group its creator, the user who *)
(* asked for it, and no other.                                             *)
THEOREM CreatorCorrect == Spec => []GroupHasCreator
BY SocialInvariant, PTL

(* Answers to registrations and logins say what the tables held.           *)
THEOREM AnswersCorrect == Spec => []AnswersTrue
BY SocialInvariant, PTL

=============================================================================
