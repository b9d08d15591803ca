----------------------------- MODULE ChatSocial -----------------------------
(***************************************************************************)
(* Registration, friends and groups of the chat server: reg, addFriend,    *)
(* createGroup and addGroup of chatservice.cpp and what login reads of the *)
(* groups, over the tables of chat_db.sql.  Every handler runs on an IO    *)
(* loop and makes its statements one by one, each on its own, with no      *)
(* transaction around them.                                                *)
(*                                                                         *)
(* Keys are the tables' own: ids are AUTO_INCREMENT, names are unique, and *)
(* the rows of Friend and GroupUser need the users and groups they name.   *)
(***************************************************************************)
EXTENDS Naturals

CONSTANTS
  Threads,      \* IO loops
  Names,        \* names of users; names of groups
  NoName,
  MaxUserId,    \* bound: registrations that reach the database
  MaxGroupId,   \* bound: creations of groups that reach it
  MaxRequests,  \* bound: requests
  MaxFaults     \* bound: failures of the database and of the process

ASSUME ChatSocialAssumption ==
  /\ NoName \notin Names
  /\ MaxUserId \in Nat /\ MaxGroupId \in Nat /\ MaxRequests \in Nat /\ MaxFaults \in Nat

VARIABLES
  User,         \* the name of every id
  AllGroup,     \* likewise
  Friend,       \* pairs <<userid, friendid>>
  GroupUser,    \* triples <<groupid, userid, grouprole>>
  nextUser, nextGroup,  \* AUTO_INCREMENT
  pc, req,      \* a handler's next statement, and its request
  clean,        \* history: nothing stood in the way of the handler's statements
  acks,         \* history: <<name, id>> in a REG_MSG_ACK with errno 0
  owner,        \* history: who asked for the group
  befriended,   \* history: <<userid, friendid>> of an addFriend that ran undisturbed
  tooEarly,     \* history: of the pair one was not registered at the first insert
  seen,         \* the groups in login's answer, each with its users and
                \* whether they were asked for
  requests, faults

userVars == <<User, nextUser, acks>>
friendVars == <<Friend, befriended, tooEarly>>
groupVars == <<AllGroup, nextGroup, owner>>
tables == <<userVars, friendVars, groupVars, GroupUser>>
vars == <<tables, pc, req, clean, seen, requests, faults>>

UserIds == 1..MaxUserId
GroupIds == 1..MaxGroupId
Registered == {id \in UserIds : User[id] # NoName}
Existing == {g \in GroupIds : AllGroup[g] # NoName}
Groups(u) == {g \in GroupIds : \E role \in {"creator", "normal"} : <<g, u, role>> \in GroupUser}
Members(g) == {u \in UserIds : g \in Groups(u)}

Request(user, other, name) == [user |-> user, other |-> other, name |-> name]
Idle == Request(0, 0, NoName)

(* Every row has the users and the group it names, every member one role,  *)
(* and ids that were not given out are free.                               *)
TypeOK ==
  /\ User \in [UserIds -> Names \cup {NoName}] /\ AllGroup \in [GroupIds -> Names \cup {NoName}]
  /\ nextUser \in 1..MaxUserId + 1 /\ Registered \subseteq 1..nextUser - 1
  /\ nextGroup \in 1..MaxGroupId + 1 /\ Existing \subseteq 1..nextGroup - 1
  /\ Friend \subseteq Registered \X Registered
  /\ GroupUser \subseteq Existing \X Registered \X {"creator", "normal"}
  /\ \A g \in GroupIds, u \in UserIds : ~({<<g, u, "creator">>, <<g, u, "normal">>} \subseteq GroupUser)
  /\ pc \in [Threads -> {"idle", "reg", "friend", "friendBack", "group", "creator", "join", "list", "users"}]
  /\ req \in [Threads -> [user : 0..MaxUserId, other : Nat, name : Names \cup {NoName}]]
  /\ \A t \in Threads : pc[t] \notin {"idle", "reg"} => req[t].user \in Registered
  /\ \A t \in Threads : pc[t] \in {"reg", "group"} => req[t].name \in Names
  /\ clean \in [Threads -> BOOLEAN]
  /\ acks \subseteq Names \X UserIds /\ owner \in [GroupIds -> 0..MaxUserId]
  /\ befriended \subseteq UserIds \X Nat /\ tooEarly \subseteq UserIds \X Nat
  /\ seen \in [Threads -> SUBSET (GroupIds \X (SUBSET UserIds) \X BOOLEAN)]
  /\ requests \in 0..MaxRequests /\ faults \in 0..MaxFaults

Init ==
  /\ User = [id \in UserIds |-> NoName] /\ AllGroup = [g \in GroupIds |-> NoName]
  /\ Friend = {} /\ GroupUser = {} /\ nextUser = 1 /\ nextGroup = 1
  /\ pc = [t \in Threads |-> "idle"] /\ req = [t \in Threads |-> Idle]
  /\ clean = [t \in Threads |-> TRUE]
  /\ acks = {} /\ owner = [g \in GroupIds |-> 0] /\ befriended = {} /\ tooEarly = {}
  /\ seen = [t \in Threads |-> {}] /\ requests = 0 /\ faults = 0

-----------------------------------------------------------------------------
(* Requests.  A client has its user's only session and sends one request   *)
(* after the other, so that they meet one loop in order.                   *)

Ask(t, step, request) ==
  /\ pc[t] = "idle" /\ requests < MaxRequests /\ requests' = requests + 1
  /\ pc' = [pc EXCEPT ![t] = step] /\ req' = [req EXCEPT ![t] = request]
  /\ clean' = [clean EXCEPT ![t] = TRUE] /\ seen' = [seen EXCEPT ![t] = {}]
  /\ UNCHANGED <<tables, faults>>

Free(u) == u \in Registered /\ \A t \in Threads : pc[t] # "idle" => req[t].user # u

Reg(t) == \E name \in Names : Ask(t, "reg", Request(0, 0, name))

(* The client takes the number that was typed.                             *)
AddFriend(t) ==
  \E u \in UserIds, friend \in UserIds :
    Free(u) /\ Ask(t, "friend", Request(u, friend, NoName))

CreateGroup(t) ==
  \E u \in UserIds, name \in Names :
    Free(u) /\ Ask(t, "group", Request(u, 0, name))

AddGroup(t) ==
  \E u \in UserIds, g \in GroupIds :
    Free(u) /\ Ask(t, "join", Request(u, g, NoName))

Login(t) == \E u \in UserIds : Free(u) /\ Ask(t, "list", Request(u, 0, NoName))

-----------------------------------------------------------------------------
(* Statements                                                              *)

Step(t, from, to) == pc[t] = from /\ pc' = [pc EXCEPT ![t] = to]

Works == UNCHANGED <<clean, faults>>
Fails(t) ==
  /\ faults < MaxFaults /\ faults' = faults + 1
  /\ clean' = [clean EXCEPT ![t] = FALSE]

(* connect or mysql_query fails.  An insert may have been made all the     *)
(* same, when the connection breaks before the server's answer is here.    *)
Unmade(t) == Fails(t) /\ UNCHANGED tables

(* UserModel::insert, and the answer: an id, or errno 1.  A name that      *)
(* exists uses up a number as well.                                        *)
InsertUser(t) ==
  /\ Step(t, "reg", "idle")
  /\ \/ Unmade(t)
     \/ /\ nextUser <= MaxUserId /\ nextUser' = nextUser + 1
        /\ \/ /\ \E id \in Registered : User[id] = req[t].name
              /\ Works /\ UNCHANGED <<User, acks>>
           \/ /\ \A id \in Registered : User[id] # req[t].name
              /\ User' = [User EXCEPT ![nextUser] = req[t].name]
              /\ \/ Works /\ acks' = acks \cup {<<req[t].name, nextUser>>}
                 \/ Fails(t) /\ acks' = acks
        /\ UNCHANGED <<friendVars, groupVars, GroupUser>>
  /\ UNCHANGED <<req, seen, requests>>

(* A row that exists, or that lacks a user, is not inserted; update says   *)
(* so, and nobody listens.                                                 *)
InsertFriendUnkeyed(u, friend) == Friend' = Friend \cup {<<u, friend>>}
InsertFriend(u, friend) ==
  Friend' = Friend \cup {pair \in {<<u, friend>>} : {u, friend} \subseteq Registered}

FriendConnectFails(t) ==
  /\ Step(t, "friend", "idle") /\ Unmade(t)
  /\ UNCHANGED <<req, seen, requests>>

FirstInsert(t) ==
  LET u == req[t].user  friend == req[t].other IN
  /\ Step(t, "friend", "friendBack")
  /\ \/ Unmade(t)
     \/ /\ InsertFriend(u, friend)
        /\ IF friend \in Registered THEN Works /\ UNCHANGED tooEarly
           ELSE /\ tooEarly' = tooEarly \cup {<<u, friend>>}
                /\ clean' = [clean EXCEPT ![t] = FALSE] /\ UNCHANGED faults
        /\ UNCHANGED <<userVars, befriended, groupVars, GroupUser>>
  /\ UNCHANGED <<req, seen, requests>>

SecondInsertSameOrder(t) ==
  LET u == req[t].user  friend == req[t].other IN
  /\ Step(t, "friendBack", "idle")
  /\ Works /\ InsertFriend(u, friend)
  /\ befriended' = befriended \cup {pair \in {<<u, friend>>} : clean[t]}
  /\ UNCHANGED <<userVars, tooEarly, groupVars, GroupUser, req, seen, requests>>
SecondInsert(t) ==
  LET u == req[t].user  friend == req[t].other IN
  /\ Step(t, "friendBack", "idle")
  /\ \/ Unmade(t)
     \/ /\ Works /\ InsertFriend(friend, u)
        /\ befriended' = befriended \cup {pair \in {<<u, friend>>} : clean[t]}
        /\ UNCHANGED <<userVars, tooEarly, groupVars, GroupUser>>
  /\ UNCHANGED <<req, seen, requests>>

(* GroupModel::createGroup; mysql_insert_id is this connection's.          *)
InsertGroup(t) ==
  LET name == req[t].name IN
  /\ pc[t] = "group"
  /\ \/ Unmade(t) /\ Step(t, "group", "idle") /\ UNCHANGED req
     \/ /\ nextGroup <= MaxGroupId /\ nextGroup' = nextGroup + 1
        /\ \/ /\ \E g \in Existing : AllGroup[g] = name
              /\ Works /\ Step(t, "group", "idle") /\ UNCHANGED <<AllGroup, owner, req>>
           \/ /\ \A g \in Existing : AllGroup[g] # name
              /\ AllGroup' = [AllGroup EXCEPT ![nextGroup] = name]
              /\ owner' = [owner EXCEPT ![nextGroup] = req[t].user]
              /\ \/ /\ Works /\ Step(t, "group", "creator")
                    /\ req' = [req EXCEPT ![t].other = nextGroup]
                 \/ Fails(t) /\ Step(t, "group", "idle") /\ UNCHANGED req
        /\ UNCHANGED <<userVars, friendVars, GroupUser>>
  /\ UNCHANGED <<seen, requests>>

(* GroupModel::addGroup; a user who is in the group stays what it is.      *)
InsertGroupUser(g, u, role) ==
  GroupUser' = GroupUser \cup {row \in {<<g, u, role>>} : g \in Existing \ Groups(u)}

CreatorOfNewest(t) ==
  /\ Step(t, "creator", "idle")
  /\ Works /\ InsertGroupUser(nextGroup - 1, req[t].user, "creator")
  /\ UNCHANGED <<userVars, friendVars, groupVars, req, seen, requests>>
InsertCreator(t) ==
  /\ Step(t, "creator", "idle")
  /\ \/ Unmade(t)
     \/ /\ Works /\ InsertGroupUser(req[t].other, req[t].user, "creator")
        /\ UNCHANGED <<userVars, friendVars, groupVars>>
  /\ UNCHANGED <<req, seen, requests>>

InsertNormal(t) ==
  /\ Step(t, "join", "idle")
  /\ \/ Unmade(t)
     \/ /\ Works /\ InsertGroupUser(req[t].other, req[t].user, "normal")
        /\ UNCHANGED <<userVars, friendVars, groupVars>>
  /\ UNCHANGED <<req, seen, requests>>

(* GroupModel::queryGroups: the groups first, then the users of each, over *)
(* one connection, and time in between.  A query that fails looks like one *)
(* without rows, one that breaks while its rows are fetched like one with  *)
(* fewer; and what broke may stay broken for the queries that follow.      *)
QueryGroups(t) ==
  /\ Step(t, "list", "users")
  /\ \E groups \in SUBSET Groups(req[t].user) :
       /\ (Works /\ groups = Groups(req[t].user)) \/ Fails(t)
       /\ seen' = [seen EXCEPT ![t] = {<<g, {}, FALSE>> : g \in groups}]
  /\ UNCHANGED <<tables, req, requests>>

OtherMembers(t, g) == Members(g) \ {req[t].user}
UsersOf(t, g) == Members(g)

QueryUsers(t) ==
  /\ pc[t] = "users" /\ UNCHANGED pc
  /\ \E g \in GroupIds :
       /\ <<g, {}, FALSE>> \in seen[t]
       /\ \E users \in SUBSET UsersOf(t, g) :
            /\ (Works /\ (users = UsersOf(t, g) \/ ~clean[t])) \/ Fails(t)
            /\ seen' = [seen EXCEPT ![t] = (@ \ {<<g, {}, FALSE>>}) \cup {<<g, users, TRUE>>}]
  /\ UNCHANGED <<tables, req, requests>>

ListsAnswered(t) ==
  /\ Step(t, "users", "idle")
  /\ \A entry \in seen[t] : entry[3]
  /\ UNCHANGED <<tables, req, clean, seen, requests, faults>>

(* The process ends, whatever its loops were doing, and is started again.  *)
Crash ==
  /\ faults < MaxFaults /\ faults' = faults + 1
  /\ \E t \in Threads : pc[t] # "idle"
  /\ pc' = [t \in Threads |-> "idle"]
  /\ UNCHANGED <<tables, req, clean, seen, requests>>

-----------------------------------------------------------------------------
Requests(t) == Reg(t) \/ AddFriend(t) \/ CreateGroup(t) \/ AddGroup(t) \/ Login(t)

Statements(t) ==
  \/ InsertUser(t)
  \/ FriendConnectFails(t)
  \/ FirstInsert(t)
  \/ SecondInsert(t)
  \/ InsertGroup(t)
  \/ InsertCreator(t)
  \/ InsertNormal(t)
  \/ QueryGroups(t)
  \/ QueryUsers(t)
  \/ ListsAnswered(t)

Next == (\E t \in Threads : Requests(t) \/ Statements(t)) \/ Crash

Spec == Init /\ [][Next]_vars

-----------------------------------------------------------------------------
(* Properties                                                              *)

(* Whoever asked undisturbed has a friend, who has it as a friend, whatever*)
(* was left of earlier tries: the second insert is made though the first   *)
(* finds its row.  And nobody is a friend on one side alone but while the  *)
(* second insert is due, after a failure, or when the friend was           *)
(* registered between the two.                                             *)
FriendsBothWays ==
  /\ \A pair \in befriended : {pair, <<pair[2], pair[1]>>} \subseteq Friend
  /\ faults = 0 =>
       \A pair \in Friend :
         \/ <<pair[2], pair[1]>> \in Friend \cup tooEarly
         \/ \E t \in Threads : pc[t] = "friendBack" /\ pair = <<req[t].user, req[t].other>>

(* A group has no creator but the user who asked for it, whatever ids other*)
(* loops were given meanwhile, and it has that one but while the second    *)
(* insert is due or after a failure.                                       *)
GroupHasCreator ==
  \A g \in GroupIds :
    LET creators == {u \in UserIds : <<g, u, "creator">> \in GroupUser} IN
    /\ creators \subseteq {owner[g]}
    /\ faults = 0 /\ g \in Existing =>
         creators # {} \/ \E t \in Threads : pc[t] = "creator" /\ req[t].other = g

(* What clients are told is true: the id in an answer to a registration    *)
(* belongs to that name, and a group in a login's answer has its reader    *)
(* among its users, unless a query failed.                                 *)
AnswersTrue ==
  /\ \A ack \in acks : User[ack[2]] = ack[1]
  /\ \A t \in Threads : \A entry \in seen[t] :
       entry[3] => req[t].user \in entry[2] \/ ~clean[t]
=============================================================================
