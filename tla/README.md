# CppTinyLab in TLA+

The repository holds four programs: a chat server with its client
(`ChatServer/`, on muduo and MySQL), a thread pool (`ThreadPool/`), a static
web server (`WebServer/`) and an epoll echo server (`EpollReactor/`). This
directory models the parts whose correctness depends on the order in which
threads, database statements and connections act, checks them with TLC and
proves what matters most with TLAPS. Paths below are relative to the
repository.

    tlc -workers 2 -config ChatOwnAccounts.cfg MCChatService
    tlapm ChatServiceProofs.tla

## 1. Inventory

| Component | State | Operations | Talks to |
|---|---|---|---|
| Chat server, sessions and delivery (`ChatServer/src/server/chatservice.cpp`, `chatserver.cpp`) | `_userConnMap` under `_connMutex`, `User.state`, `OfflineMessage` | `login`, `logout`, `oneChat`, `groupChat`, `clinetCloseException`, `reset` | two muduo loops call the handlers, which call the models and send on connections of either loop |
| Chat server, process (`server/main.cpp`) | none of its own | start, `resetHandler` on SIGINT, exit | the loops run on while the handler resets and exits |
| Data access (`server/db`, `server/model`, `chat_db.sql`) | tables User, OfflineMessage, Friend, AllGroup, GroupUser | one `MySQL` connection per operation, no transactions | any operation may fail alone; the callers ignore most results |
| Registration, friends, groups (`reg`, `addFriend`, `createGroup`, `addGroup`) | rows of User, Friend, AllGroup, GroupUser | one or two inserts each | the same handlers' loops |
| Chat client (`ChatServer/src/client`) | `g_isLoginSuccess`, `isMainMenuRunning`, `rwsem`, cached lists | the menus on one thread, answers and messages on the loop thread | the server; the two threads meet at the semaphore |
| Wire format (`chatserver.cpp`, `public.hpp`) | the input buffer | `retrieveAllAsString`, `json::parse`, dispatch by `msgid` | one request is taken to be one buffer |
| Thread pool (`ThreadPool/src`) | `taskQueue`, `full_sem`, `empty_sem`, `mutex`, `shufdown` | `addTask`, `threadProcess`, `destoryThreadPool` | main thread and detached workers |
| Web server (`WebServer/src`) | `hash` (activity per descriptor) under `mutex`, epoll set | accept and `http_request` on the main thread, `checkConnect`, `getConnectCount` | three threads share `hash` and the descriptors |
| Epoll echo server (`EpollReactor/src`) | one `myEvent` per descriptor: callback and buffer | `initAccept`, `readData`, `writrData` | one thread |

What is hard here, and what makes each part correct:

* *Chat server.* Two loops run handlers at the same time; a handler spreads its
  work over several database statements and one critical section; a push to a
  connection of the other loop is queued and runs later; connections end and
  the process dies at any point. Correct means: the map leads to the client
  that uses the account; the database agrees with it once the handlers are
  done; a message is stored, shown, or lost for a reason one can name, and
  shown once, in order.
* *Registration, friends, groups.* Two inserts make one friendship or one group,
  with no transaction around them, while other loops insert too. Correct means:
  both sides of a friendship, one creator per group, answers that are true.
* *Chat client.* The answer races the thread that asked for it; the lists
  belong to one account; a broken connection must not leave the menu waiting.
* *Thread pool.* Two semaphores, a mutex and a plain flag have to stay in step
  with a queue; a shutdown may come at any time, and destroys what sleeping
  threads still use.
* *Web server.* Events are read before the mutex is taken; descriptors are
  closed by two threads and their numbers reused; `recv` and `send` block with the
  mutex held. A request's name is decoded in the array it is read from, and a
  directory is listed through a buffer of ten names.
* *Echo server.* Each callback leaves exactly one callback, one watched event and
  one buffer per descriptor, on its error paths too, while pointers of the same
  batch wait to be followed.

`PROJECT.json` lists every hazard at its line, with the properties that cover it
and what they leave open.

## 2. Modules

| Module | What it is |
|---|---|
| `ChatService` | sessions and delivery of the chat server, the process, and its clients as an environment |
| `MCChatService` | two loops, two connections, who knows whose password |
| `Mailbox` | abstract: copies wait until they are shown, oldest first, or lost with a reader who has left |
| `ChatServiceProofs` | theorems about `ChatService`: types, sessions, mail beside an entry |
| `ChatDeliveryProofs` | theorems about what becomes of a message: the refinement of `Mailbox` and what it rests on |
| `ChatClient` | the client: menu thread, loop thread, and the server as an environment |
| `ChatClientProofs` | theorems about `ChatClient` |
| `TaskQueue` | abstract: a bounded FIFO queue that closes, its takers let in one at a time |
| `ThreadPool` | the pool and the program around it; `ImplementsTaskQueue` is the refinement |
| `MCThreadPool` | the instance of the pool |
| `ThreadPoolProofs` | theorems about `ThreadPool`, the refinement among them |
| `ChatSocial` | registration, friends and groups of the chat server, statement by statement |
| `ChatSocialProofs` | theorems about `ChatSocial` |
| `WebServer` | the web server's connection table: epoll thread, closer of idle connections, counter |
| `WebServerProofs` | theorems about `WebServer` |
| `WebRequest` | one request of the web server: the name, its decoding in place, the answer, the listing |
| `WebRequestProofs` | theorems about `WebRequest` |
| `EpollReactor` | the echo server: its loop and three callbacks, and its clients |
| `EpollReactorProofs` | theorems about `EpollReactor` |

`ChatService` and `ChatSocial` are two views of the same handlers: the tables of
one are not written by the other, and login appears in both, once with its mail
and once with its groups. `WebServer` and `WebRequest` meet in `http_request`:
`RecvGood`, `RecvBad`, `RecvEmpty`, `Answered` and `ScandirFails` of the first
are the ways in which the second can go (`RequestLine`, `NotSupported`,
`NoLine`, `done`, `closed`).

Some operators are used by no action. Each stands directly before the
definition it varies and is a plausible bug there: `LoginRemoveForgotten` before
`LoginRemove`, `PostEmptyPostsFull` before `PostEmpty`. Section 6 says which
property catches which bug; with the bug in place TLC reports a violation.

### ChatService and the code

State: `userConnMap` and `connMutex` are the members of the class; `dbState` and
`dbOffline` two columns; `pc`, `cur`, `id`, `mail`, `outbox` where each loop
thread is and its handler's locals; `active`, `pending`, `batch` the loop's own
lists; `link`, `phase`, `session` a connection and the client behind it;
`server` the process. `accepted`, `recv`, `dropped`, `cut`, `nsent` are history.

| Code | Actions |
|---|---|
| `EventLoop::loop` (muduo, external) | `Poll`, `Take`, `SwapFunctors`, `RunFunctor` |
| `login` | `LoginGranted` or `LoginRefused`, then `LoginInsert`, `LoginSetOnline`, `LoginFetch`, `LoginRemove` if there was mail, `LoginReply` |
| `logout` | `Logout`, `SetOffline` |
| `oneChat`, `groupChat` | `OneChat` or `GroupChat`, then `Deliver` once per recipient |
| `clinetCloseException` | `CloseException`, `SetOffline` if an entry was found |
| `resetHandler`, `main`, death | `Sigint`, `ResetState`, `Exit`; `Restart`; `Kill` |
| `TcpConnection::send` (muduo, external) | `Send`, `Write`: at once on the connection's own loop, queued from the other, discarded if the peer is gone |

One step is one database statement, one critical section (for a group: one round
of its loop, with the lock held), or one write. What lies between two steps
touches no shared state. A request is bound when the server takes it: a client
waits for nothing but the login answer, so a queue of unread requests adds
nothing. The order of a group's members and of the hash map is left open.

A query that fails has no rows or, because `mysql_use_result` (`db.cpp:55`) streams
them and the fetch loops take the end of the stream for the end of the rows
(`offlinemsgmodel.cpp:45`), only some of them. `login` then deletes all rows
(`chatservice.cpp:79`): what the fetch left out is lost, and `cut` remembers it.

Abstractions, each of them a hypothesis of every result:

* Each request arrives in a buffer of its own. TCP promises no such thing; what
  happens otherwise, `parse` throws and the process ends, is `Kill`.
* A message is its number, sender and recipient. Friends and groups are only read
  for the login answer (`ChatSocial`).
* `Accounts` says which passwords the person behind a connection has. A wrong
  password is refused like a failed query (`errno` 1).
* `MissedAck` says whether a client may take a successful login for a failed
  one. It may: the UI thread clears `g_isLoginSuccess` *after* sending the
  request (`clientservice.cpp:106-108`), perhaps over the answer.
* A client that has gone may leave one more request, which the loop reads
  before the end of file.
* A connection object is used once; a client that comes back is another member
  of `Conns`.
* A message goes to a user who exists and its text survives `sprintf` into the
  statement. An insert that the foreign key (`chat_db.sql:98`) or the unescaped
  quotes refuse is lost like one that fails, which is `Fails` in `InsertOffline`;
  `MaxDbFaults = 0` says that there is none of these either.

### ChatClient and the code

State: `ui` is the line the menu thread is at, `io` whether the loop thread is
about to post; `loginSuccess`, `rwsem`, `currentUser` are the members of the
class, `listOwner` tells whose friends and groups the two cached lists hold;
`link`, `toServer`, `toClient` the connection; `sessions` what the server has
granted on it.

| Code | Actions |
|---|---|
| `getStart`, login | `SendLogin`, `ClearFlag`, `WaitLogin`, `CheckFlag` |
| `getStart`, register and quit | `SendRegister`, `WaitRegister`; `Quit` |
| `mainMenu` and its commands | `Command`, `Logout` |
| `readTaskHandler` | `HandleLoginAck` or `HandleRegisterAck`, then `SemPost`; `ShowMessage` |
| `readTaskHandler` on a buffer that is not one message | `ReadNotOneMessage`: `parse` throws and the process ends |
| server and network (external to the client) | `ServerGrants`, `ServerRefuses`, `ServerRegisters`, `ServerServes`, `ServerLogsOut`, `Push`, `Break` |

`ChatService` and `ChatClient` meet at two assumptions that each makes of the
other. `ChatService` lets a client send commands only in its session's name:
`RequestsFitSession` shows that the client does. `ChatClient` lets the server
answer every login: `LoginAnswered` shows that it does. The `MissedAck` of
`ChatService` is `ClearFlag` of `ChatClient` over an answer that came before:
`g_isLoginSuccess` is cleared after the request is sent
(`clientservice.cpp:106-110`), the granted login looks refused, and the client is
back in its start menu. The lists of the account before stay when an answer
brings none (`clientservice.cpp:175-193`).

### ThreadPool and the code

One step is one semaphore or mutex call, one reading or writing of `shufdown`, or
one call of the queue, together with the unlocking behind it. `pc` follows `threadProcess` line by line, `mainPc` the menu of `main`
with `addTask` and `destoryThreadPool` inside it. Task `k` is the `k`-th that the
user asked for; 0 is what `front()` of an empty queue would yield.

| Code | Actions |
|---|---|
| `threadProcess`, lines 38-41 | `CheckShufdown`, `WaitFull`, `LockQueue` |
| `threadProcess`, the test at line 42 | `PassTest`, or `LeaveLocked` with the unlock |
| `threadProcess`, lines 47-51 | `FrontTask`, `PopTask` with the unlock, `PostEmpty`, `RunTask` |
| `main`, `addTask` | `AddTask`, `WaitEmpty`, `LockForPush`, `PushTask`, `PostFull` |
| `main` on -1, `destoryThreadPool` | `SetShufdown`, `WakeWorker`, `Destroy`; `End` |

The plain `bool shufdown` is read at lines 38 and 42, each time in a step of its own:
the loop body calls opaque functions, so the build reads memory each time, early or
late. `main` writes it without the mutex, so also between a worker's test and its
`front` and `pop`: that worker takes its task although the pool is closed. The
destroyed primitives do what glibc does: `sem_destroy` nothing, `pthread_mutex_destroy`
refuses a mutex that is held, and otherwise later locks fail at once and their result is
ignored.

### ChatSocial and the code

State: `User`, `AllGroup`, `Friend`, `GroupUser` are the tables, with their keys as
`chat_db.sql` declares them; `nextUser` and `nextGroup` their `AUTO_INCREMENT`; `pc`
and `req` the handler that each loop runs and its request. The other variables
are history: who was told what, who asked for a group, whose request ran
undisturbed.

| Code | Actions |
|---|---|
| `reg`, `UserModel::insert` | `Reg`, `InsertUser` |
| `addFriend`, `FriendModel::insert` | `AddFriend`, then `FriendConnectFails`, or `FirstInsert` and `SecondInsert` |
| `createGroup`, `GroupModel::createGroup`, `addGroup` | `CreateGroup`, `InsertGroup`, `InsertCreator` |
| `addGroup` | `AddGroup`, `InsertNormal` |
| `login`, `GroupModel::queryGroups` | `Login`, `QueryGroups`, `QueryUsers` once per group, `ListsAnswered` |
| `MySQL::connect`, `update`, `query` | `Unmade`, `Fails`, `Works` |
| the end of the process and its next start | `Crash` |

One step is one statement. A query fails with no rows or with some of them, and the
queries behind it on the same connection may fail with it. Another statement fails in
one of two ways: the row is not made, or it is made and the connection breaks before the answer. The first is
what the code sees of a row that exists, too: the primary and foreign keys refuse
it and `update` says false, which `FriendModel::insert` does not look at. A user
has one session here, and its requests reach one loop in order; what two
sessions of one account do to each other is `ChatService`'s subject.

### WebServer and the code

State: `hash` (the last activity of each number as closed, fresh or idle too
long), `mutex`; `mainPc`, `batch`, `cfd` the loop of `main` with `events`;
`closerPc`, `todo` the closer and its iterator; `open`, `inbox`, `peer` the
kernel's sockets, by number; `backlog` what waits for `accept`.

| Code | Actions |
|---|---|
| `main`, lines 90-135 | `EpollWait`, `Lock`, `Accept` or `OutOfNumbers`, `TakeEvent`, `Unlock`; `Fail` where it returns |
| `http_request` | `RecvFails`, `RecvBad`, `RecvEmpty`, `RecvGood`; `Answered`, `ScandirFails` |
| `checkConnect` | `CloserLock`, `Pass` once per entry, `CloserUnlock` |
| `getConnectCount` | `ConnectCount`: it takes the mutex and changes nothing |
| clients, kernel, time (external) | `Connect`, `Send`, `Leave`, `Age` |

`epoll_wait` returns before the mutex is taken, so `TakeEvent` may meet a number
that the closer has closed since, and that `accept`, which returns the lowest
free number, may have given away again in the same batch. `recv` is enabled only when it
can return: on an open connection without data `main` stays where it is, with
the mutex. `send` returns when the client has read enough or is gone.

### WebRequest and the code

State: `buf`, `to`, `from` are the array and the two pointers of `strdecode`;
`fileNums`, `dirBuf` the index and the buffer of the listing; `answer` and
`listed` what was sent. One action is one turn of a loop or one branch of
`http_request`. A character is its code, so that decoding is computed and not
assumed; the text of headers and pages, and `get_mime_type`, are one token
each. The name fits its array, by assumption.

### EpollReactor and the code

State: `function`, `watch` and `buf` are the fields of each `myEvent` and what epoll
was told to watch; `batch` the part of `ep_events` that is left; `listening`
the listening descriptor; `conn`, `inbox`, `peer` the kernel's side.

| Code | Actions |
|---|---|
| `main` | `EpollWait`, `EpollWaitFails`, `TakeEvent` |
| `initAccept` | `initAccept`, `AcceptFails`, `AddFails` |
| `readData` | `readData`, `ReadFails` |
| `writrData` | `writrData`, `WriteFails`, `Sigpipe` |
| `EPOLL_CTL_MOD` with the other callback | `Switch`; `Drop` when it fails |

Every call of the kernel may fail, `MaxFaults` times. A client that has left may
be met by `recv` returning 0 or an error, by `send` failing, or by SIGPIPE, which
nobody ignores here.

## 3. Runs

Passing runs:

| Run | Asks | Bounds | Distinct states |
|---|---|---|---|
| `ChatOwnAccounts` | is the server a mailbox, and does it keep its books, when everybody has an account of their own? | 2 clients, 3 users (one never connects), 2 messages, answers may be overlooked | 653 275 |
| `ChatSharedAccount` | do sessions survive two clients using one account, and does everything that starts end? | 2 clients, one of which has both accounts, 1 message, fair loops | 105 646 |
| `ChatFailures` | what messages do a death, SIGINT and a failing statement cost? | 1 stop at any step, 1 failure, 2 messages, 2 users, up to symmetry | 1 736 913 |
| `ChatSocial` | do two inserts make one friendship, one group, on two loops, and are the answers true? | 2 loops, 2 users, 2 groups, 5 requests, 1 failure or crash at any statement | 610 181 |
| `ChatClient` | do the client's two threads agree, and does it speak only for its own session? | 2 users, 3 logins or registrations, 2 commands, 2 messages | 98 503 |
| `ThreadPool` | are tasks run, once each, do workers leave, is it a closing queue? | 3 workers, capacity 2, 4 tasks | 334 940 |
| `WebServer` | does `hash` mark the open connections, when does `main` block, is a request taken up, an idle connection closed? | 2 numbers, 3 connections, 2 requests, fair threads | 127 902 |
| `WebRequest` | is a name decoded as it should be, is a directory listed completely? | names of 6 characters over 4 codes, 5 files, chunks of 2 | 249 390 |
| `EpollReactor` | do callback, event and buffer agree, does every byte come back in order? | 2 clients, 3 bytes each, a buffer of 2, 1 failure, a fair server | 44 143 |

Runs whose violation shows that the code does something else than it says:

| Run | Statement in the code | What happens |
|---|---|---|
| `ChatDoubleLogin` | `chatservice.cpp:54`, no second login for a user who is logged in | both loops query `offline` before either writes `online` |
| `ChatSigint` | `server/main.cpp:6`, the handler resets the business data | a login on a loop writes `online` after the reset, before `exit` |
| `ChatMissedAck` | `chatservice.cpp:261`, delete the user's connection from the map | a connection with two entries loses one (`break`, line 264); the other user stays online with a closed connection |

What else the code does, and the models with it, without a line that promises
better: an offline query that breaks between two rows lets `login` delete the rows it
did not get (`offlinemsgmodel.cpp:45`, `chatservice.cpp:79`); a worker that passed its test
takes one more task from a pool that was shut down meanwhile (`threadPool.cpp:42-48`); a killed or aborted process leaves its users online, and neither it nor
the next start resets them (`server/main.cpp:13`), so they cannot log in again;
with an account that two clients share, the remove of one login deletes rows
inserted after its query (`chatservice.cpp:79`); when a friend is registered
between the two inserts of a request that named its number early, the friendship
has one side (`friendmodel.cpp:15-16`); a user whose registration was stored but
not answered can never repeat it. The web server ends when descriptors run out
(`main.cpp:118`) and with a request of nothing but delimiters; it stands still
for a client that does not read its answer, and on a reused number it waits in
`recv` with the mutex held. The echo server ends with a client's reset during its
answer, and closes its listening descriptor instead of a new one that it cannot
watch (`myEvents.cpp:115`).

A login only lands on another loop than its rival's by the assignment of
connections; the instances put `c1` on `t1` and `c2` on `t2`, which is what the
round robin does with the first two connections.

Why the bounds are enough for the questions asked: every hazard of the chat
server needs at most two handlers at once, and there are two loops; a race on an
account needs two connections, a change of account two users; a queued push
that outlives its session needs one message, an order two; two recipients of
one group message, one of them away, is the shortest loop that can skip
somebody. One fault and one stop occur at *every* statement and step, and
combine with each other; `ChatFailures` has two messages, so that one can be stored while
the mail with the other is fetched and removed, and a fetch can break between them. With
own accounts its two sides are alike, and `Sides` identifies states that differ in
nothing but which side is which; it checks one invariant, which is symmetric, and no
liveness. The logout that erases an entry made by another client needs the shared
account of `ChatSharedAccount`. Friends and groups need
two users, two loops whose inserts take turns, and, besides two registrations, one request more than the
loops to meet what the first left behind. The pool needs a second worker to empty
the queue between `sem_wait` and the lock, a third to meet both at the
shutdown, which also falls between one worker's test and its `pop`; four tasks fill a queue of two with two more in workers' hands.
In the client, the second
login meets what the first left behind and a third follows an overlooked answer; two messages
surround an answer. The web server needs a number that is closed and given away
again while its event waits and another number to be idle: two numbers, three
connections, two requests. Six characters hold two escapes, an escape behind a
lone percent sign and one that the name's end cuts off; the four codes are the
percent sign, a digit and hexadecimal letters of either case; five files fill two
chunks of two and begin a third, and four end with a full one. The echo server
needs a byte more than the buffer holds, and a second client whose event waits
in the batch.

The bounds sit in guards: `MaxMsgs`, `MaxDbFaults`, `MaxStops` in
`Accept`, `Fails`, `Sigint`/`Kill`; `MaxTasks` in `AddTask`; `MaxAsks`, `MaxCommands`,
`MaxPushes` in the client's sends and `Push`; `MaxUserId`, `MaxGroupId`, `MaxRequests`,
`MaxFaults` in `InsertUser`, `InsertGroup`, `Ask`, `Fails` of `ChatSocial`; `MaxConns`,
`MaxRequests` in `Connect`, `Send`; `MaxBytes`, `MaxFaults` in `SendByte`, `Fault`;
`MaxName` and `MaxFiles` in `Init` and `Scandir`. The theorems hold for any values
of them.

Deadlock is checked in all runs but two. `Idle`, `Terminated`, `Stopped`, `Ended` and
`Finished` are the only states in which those systems rest: all loops asleep with every
connection closed, the end of the program, a client that waits on a broken
connection, the end of the process, the end of a request. A client that waits is the
code's: nothing posts `rwsem` when the connection ends. `EpollReactor` may sleep in
`epoll_wait` for ever when its clients do nothing, and `ChatSocial` stops when its
requests are used up: their configurations say `CHECK_DEADLOCK FALSE`.

### What the properties say

* `MapPointsAtLiveSession`, `PushReachesAddressee`: the map and the queued pushes
  lead to the client that uses the account, also when another client of that account
  logs out and erases by id. They need that no client overlooks
  its answer: with `MissedAck` one connection can hold two accounts.
* `DbAgreesWithMap`: once no handler works on a user, `User.state` says what the
  map says. With own accounts and a database that answers.
* `NothingVanishes`, `LossNeedsDeadPeer`, `NoDuplicate`: every message is
  somewhere, whatever fails, or is a row that a broken fetch left out (`cut`); the only loss in an undisturbed process is to a
  reader whose connection ended; nobody reads one twice.
* `ShownInOrder`: a client is shown what one account sent to another in the order
  it was sent, whether it comes over the reader's own loop, a functor queue, the
  table or a login answer. Nobody shares an account and the database answers: after a
  failed query, rows can arrive later than newer pushes.
* `ImplementsMailbox`: if moreover the process lives, all of this in one abstract
  machine. A copy waits in an outbox, a functor queue, the table or a login that is about to
  answer; one step shows it to its reader, with nothing older of its sender left
  behind, or loses it because the reader has left.
* `NoStrandedMail`: the query and the remove of `login` are two statements and the
  insert of `oneChat` a third; the order entry, query, remove is what keeps mail
  from being left behind.
* `FriendsBothWays`, `GroupHasCreator`, `AnswersTrue`: what the inserts of several
  loops make together, failures included, and what clients are told of it.
* `MenuMeansGranted`, `RequestsFitSession`: the client shows the chat menu and sends
  commands only for an account that the server granted on its connection, also
  after answers that were overlooked.
* `OneAnswerPerWait`, `UserStableInMenu`: one token or answer per wait, which is why the
  loop thread never writes the unlocked `g_currentUser` under the menu's feet.
* `EachTaskOnce`, `NeverPopEmpty`: the pool's books, for a worker between its test and
  its `pop` beyond the shutdown; `ImplementsTaskQueue`: the queue it promises. Its bound
  and its closing are parts of the abstract specification: one taker at a time is let
  in, none after the closing, and the one that was inside may still take.
* `MarksMatchOpen`: `hash` marks the open connections and at most the stale number
  in `main`'s hands, so the closer never closes a number that is not a
  connection's and the counter is right. `BlockedOnlyByReuse`: the only way for `main` to block in `recv`.
  `RequestTaken`, `IdleClosed`: requests and idle connections are attended to,
  unless a client holds up `main` for ever.
* `DecodeMatchesReference`: the decoder in place against what escapes mean, said
  over the whole name. `ListingComplete`: every name once, in order, in as few
  chunks as there can be.
* `EventMatchesWatch`: callback, watched event and `myEvent` agree, and no pointer of
  a batch leads to a deleted one. `EchoInOrder`, `EchoArrives`: what comes back is
  what was sent, all of it.

## 4. Fairness

`ChatService`: `WF(MustRun(t) /\ LoopThread(t))`. A loop thread inside a handler,
with an end of file to read or with queued functors does not stop for ever: it
is a running thread, epoll is level triggered and `queueInLoop` wakes the loop.
`MustRun` keeps requests out of it: no client has to send anything. A lock is held
only between rounds of one group's loop, whose thread must run too. Weak fairness
of `ResetState`, `Exit`, `Restart` is for runs with stops; the run that checks liveness has none.

`ChatClient`: weak fairness of the menu thread's own steps (`ClearFlag`, the waits,
`CheckFlag`), of the loop thread and of the server: threads that can run do, and
`rwsem` is taken by one thread only. What a person types, `Push` and `Break` are not
fair.

`ThreadPool`: weak fairness per worker and for the main thread outside its menu
and its sleep. Weak fairness for `sem_wait` is enough because the tokens can only
be exhausted by work on the other side. The user may stop typing (`menu`), and
`sleep(5)` may outlast everything or nothing, so `End` is neither fair nor
guarded.

`WebServer`: weak fairness of `main` and of the closer wherever they can go on,
but for a `send` that waits for the client; strong fairness of the two locks. The
closer and the counter sleep for seconds between short visits, and `main` gives
the mutex back after every batch, so a thread that asks again and again gets the
mutex. Clients and time are not fair. `Stuck` says where `main` waits for a client;
the two liveness properties hold unless it does so for ever.

`EpollReactor`: weak fairness of the only thread.

`WebRequest` and `ChatSocial` make no assumption: their properties are safety.

## 5. Proofs

For any number of users, groups, connections, descriptors, loops, workers, messages,
tasks, characters, files, faults and stops, from the assumptions named in the modules:

| Theorem | Says | Assumes besides |
|---|---|---|
| `TypeCorrect` | `Spec => []TypeOK` | |
| `MapCorrect` | `[]MapPointsAtLiveSession` | `MissedAck = FALSE` |
| `MailCorrect` | `[]NoStrandedMail` | `MissedAck = FALSE`, `MaxDbFaults = 0` |
| `NoCopyVanishes` | `[]NothingVanishes`: nothing but rows left out by a broken fetch | `AccountsApart` |
| `StateFollowsMap` | `[]DbAgreesWithMap` | `AccountsApart`, `MaxDbFaults = 0`, `MaxStops = 0` |
| `PushFindsAddressee` | `PushReachesAddressee` | `MissedAck = FALSE` |
| `LossHasDeadPeer` | `[]LossNeedsDeadPeer` | `MaxDbFaults = 0`, `MaxStops = 0` |
| `ReadInOrder` | `[]ShownInOrder` | `AccountsApart`, `MaxDbFaults = 0` |
| `NeverTwice` | `[]NoDuplicate` | `AccountsApart`, `MaxDbFaults = 0` |
| `ServerIsMailbox` | the chat server implements `Mailbox` | `AccountsApart`, `MaxDbFaults = 0`, `MaxStops = 0` |
| `ClientTypeCorrect` | `Spec => []TypeOK` | |
| `OneAnswer` | `[]OneAnswerPerWait` | |
| `UserStable` | `UserStableInMenu` | |
| `MenuGranted` | `[]MenuMeansGranted` | |
| `RequestsFit` | `[]RequestsFitSession` | |
| `PoolTypeCorrect` | `Spec => []TypeOK` | |
| `NoEmptyPop` | `[]NeverPopEmpty` | |
| `BoundedQueue` | `[]QueueBounded` | |
| `TasksRunOnce` | `[]EachTaskOnce` | |
| `PoolImplementsTaskQueue` | the pool implements `TaskQueue`: at most one take after the shutdown | |
| `ChatSocialProofs`: `TypeCorrect` | `Spec => []TypeOK`: the tables' keys hold | |
| `FriendshipCorrect` | `[]FriendsBothWays` | |
| `CreatorCorrect` | `[]GroupHasCreator` | |
| `AnswersCorrect` | `[]AnswersTrue` | |
| `WebServerProofs`: `TypeCorrect` | `Spec => []TypeOK`: who is between lock and unlock holds the mutex | |
| `MarksAreConnections` | `[]MarksMatchOpen` | |
| `RecvBlocksOnReuseOnly` | `[]BlockedOnlyByReuse` | |
| `WebRequestProofs`: `TypeCorrect` | `Spec => []TypeOK`: the decoder's pointers stay in the name, a chunk in its buffer | |
| `DecodesAsMeant` | `[]DecodeMatchesReference`: any name, any escapes | |
| `ListingIsComplete` | `[]ListingComplete` | |
| `CallbackMatchesEvent` | `[]EventMatchesWatch` | |
| `EchoesInOrder` | `[]EchoInOrder` | |

`AccountsApart` says that no two clients have the password of one account; a client
may have several. In the model a client that comes back does so over another
connection, so it also says that nobody comes back with the same account: one who
does may overtake what their older connection has in its loop. A restart is covered,
with the mail it leaves in the table for whoever has an account then.
These hypotheses are conditions on the people and on the machine that the code
needs, not conveniences of the proofs. With one of them dropped, TLC finds

* for two clients with one account, violations of all five properties that assume
  otherwise: two logins for one account race (`ChatDoubleLogin`), and the remove
  of one deletes rows stored after its query;
* for one failing statement, a state that stays online, mail shown twice, lost (a
  failed insert, a broken fetch) or late;
* for one stop, a state that stays online, and copies that die with the process
  although their readers have not left: violations of the three properties that
  assume there is none.

*Types.* `TypeOK` is inductive because it says of a running handler that it has
its connection and user. It is split into parts by component, so that a step
speaks only of the parts it touches.

*Sessions.* `MapPointsAtLiveSession` is not inductive: a login about to insert
knows nothing of its client, and a refused login must not belong to a client
with an entry. `SessionInv` adds that a running login works on its own loop
for a client that waits for it (`LoginServesItsClient`), that a loop handles only
its own connections (`ActiveOnOwnLoop`), and that an entry has a reason
(`EntryHasReason`): its client is in the chat menu, its login still runs, or the
client left before the answer. The last part is what a client in its start menu
contradicts, so no client with an entry can be granted another account. This is
where `MissedAck` would break the argument, and `ChatMissedAck` shows that it does.

*Mail.* `NoStrandedMail` follows from `MailInv`: mail beside an entry means that
the login which made the entry has yet to remove it. Inserts happen only
without an entry, entries are made only before the fetch. A failed query or
remove breaks it, hence `MaxDbFaults = 0`.

*Copies.* With accounts apart, a client is the only one of its accounts, so all that
concerns an account runs on one loop (`RouteInv`, of which `OwnedInv` is the part
that holds whoever shares accounts), and a login's rows are
what it is about to remove (`CleanInv`: nothing is stored while the entry is in the
map), unless its fetch failed; then every row that it did not get is in `cut`
(`ReadIsStored`). Each step then moves a copy from one place that `Held` names to another
(`NoneVanished`) or into `cut`, failures and stops included.

*State.* `OnlineInv`: `User.state` follows the map one step late, between the entry
and `LoginSetOnline` and between the erased entry and `SetOffline`, and only the
handler in between sees it (`LateInLogin`, `LateInLogout`). That a granted login
finds no entry is a consequence, on which the order below rests.

*Pushes.* A functor waits for a client that has logged out only until its loop has run
what was queued, which is before it handles the client again (`PushInv`). A push
can thus not meet a second account, although `Send` looked at the map a while ago.

*Losses.* `AddressInv`: an entry and a functor name a connection whose client has the
account and has logged in (`ClientOf`), though it may use another account by now, and
rows and answers are for whom they are kept for. So a copy that is dropped was dropped with a
client of its reader. This needs `OwnedInv` and nothing about who shares accounts.

*Order.* `OrderInv` orders the places in which what one account sends to another can
wait: what a client was given is older than what its loop is about to run, that is
older than what is queued, and rows are older than the queue while a login is under
way, younger otherwise (`TableInTurn`); an outbox is the youngest of all, because a
client's requests are handled one at a time. `WaitsInTurn` is what makes the table and
the queue take turns: a functor waits for a client that the map names or that this
round of the loop has handled, so a login that inserts its entry has nothing in line,
and a row is stored only when nothing newer can be written first. `RowsFetched` is
the other half: rows beside an entry are those of a login that has yet to fetch and remove
them. Neither says anything of `User.state`, which a stop leaves behind or resets too
early, so the order survives every stop: what a process had in its queues dies with
it, rows and what was shown stay, and a row is never newer than what comes later.
`NoDuplicate` follows: two equal copies would each be older than the other.

*Mailbox.* The mapping counts as waiting what is in outboxes, functor queues,
answers and the table; shown to an account is what came for it over a connection with
its password; an account has left when such a connection, on which a login was
granted, has ended. Taking a request is `Post`, the end of a connection `Leave`, for
all its accounts at once, a write that reaches the client and a login answer
`Show`, a write to a connection that is gone `Lose`; storing, queueing, fetching and
removing rows, and the sessions' steps, stutter. That nothing older waits when a
copy is shown is `OrderInv`; that a copy waits in one place only, so that a step
which takes it takes it all, is `OrderInv` and `RouteInv` together. `MaxStops = 0` is
needed here because the end of the process loses copies whose reader has not left.

*Client.* `PendingInv` names the places where the one awaited answer can be: with
the server as the last request, in the channel, about to be posted, a token of
`rwsem`, or lost with the connection; outside a wait it is nowhere. `SessionInv`
adds that requests carry the current user's name and were granted (`InName`), that
a logout is followed at most by a question (`LogoutLast`), and that a login answer
on its way, and the flag, mean a session on the server (`GrantsKept`, `FlagMeansGranted`).

*Pool.* `PoolInv`: while the pool is open, tokens of `full_sem`, tokens workers
hold and the one `main` is about to post are as many as the tasks
(`TokensMatchTasks`); slots are conserved always (`SlotsConserved`). A worker that
passes its test holds a token, so there is a task; `main` at `push` holds a slot, so
there is room. The first fact has to outlast the shutdown, when the tokens that `main`
posts no longer mean tasks: `HoldersLock` says that whoever is between lock and
unlock has the mutex, that the mutex is not destroyed while a worker is between its test and its unlock, and
that the task is still there. The refinement maps `taskQueue`, `shufdown` and whether
a worker is between its test and its `pop` (`Taking`) to the abstract queue; the guards of `Put`,
`LetIn` and `Take` are these facts. `TaskInv`: the queue, the
workers' hands and `done` hold disjoint parts of `1..Pushed`, without repetition
(`QueueOnce`, `RunningOnce`) and all of it together (`NoneLost`); the task pushed next
is nowhere yet.

*Friends and groups.* The properties speak of rows, so `SocialInv` adds what a
handler knows between its statements: a user has one request at a time
(`OneRequestEach`); before the creator's insert the group is there, is the
user's and has no row of that user (`CreatorDue`: nobody else could have made
one, which is `OneRequestEach` again); after the first insert of an undisturbed
friendship its row is there (`FriendDue`); the groups in a login's answer are its
reader's (`ListedJoined`: rows of `GroupUser` are never deleted). A failure that would break a part
raises `faults` or clears `clean` in the same step. That a number is not given out
twice, which keeps answers true, is in `TypeOK`.

*Web server.* `MarksMatchOpen` is inductive once the types say who holds the
mutex: both threads write `hash` and `open` together, under it, and only `main`
marks a number ahead of knowing whether it is open. `BlockedOnlyByReuse` needs
`EventsAnnounced`: a number of the batch that is open is readable or was accepted
since; the closer can only close it, which takes it out of the claim.

*Request.* The pointers stay in the name because what lies between `from` and
the end is still as it came (`Unread`): `to` follows `from`, so no write reaches it,
the terminator is met, and the test of an escape stops there. `DecodeInv` is about the
starts, the positions at which a plain character or an escape begins: the read pointer is on
one or at the end, the starts before it are as many as the characters written,
and the k-th of these is what the k-th start means. A turn passes one start
(`OneStartMore`) and writes behind it, so no induction over the name is needed: the
run is the induction. `ListInv` counts: the
names that left the list are in `listed` and `dirBuf`, from the last down, and
after m full chunks `listed` holds m times the chunk's size (`ChunksSent`).

*Echo server.* `EventMatchesWatch` is inductive as it stands: a step takes its
event out of the batch and changes one connection, and only a callback of that
connection's own event deletes it. `EchoInv` says for each connection where its
bytes are: those answered are a beginning of those sent, then come the ones in
`buf`, in upper case, then the ones that `recv` has yet to return.

The properties and the inductive invariants hold in TLC's runs as well: besides the
configurations' own lists, every invariant named in this section was checked
on the instance of its component (`ListInv` with its number of chunks bounded).

Model-checked only:

* `LoginAnswered`, `GoneConnectionForgotten`, `MailSettles`, `WaitEnds`, `EveryTaskRuns`,
  `WorkersExit`, `RequestTaken`, `IdleClosed`, `EchoArrives`: the prover handles neither
  fairness nor ENABLED.

## 6. Bugs the properties catch

| Property | Breaks with | The bug |
|---|---|---|
| chat `TypeOK` | `CloseUnchecked` | the close handler updates the state without having found a user |
| `DbAgreesWithMap` | `UpdateStateOfAll` | an update without its where clause |
| `NothingVanishes` | `LoginFetchRemovesAlways` | remove without looking at the query's result |
| `NoDuplicate`, `NoStrandedMail` | `LoginRemoveForgotten` | the mail is not removed |
| `LossNeedsDeadPeer` | `InsertNothing` | the insert is a no-op |
| `ImplementsMailbox` | `StopAtOffline` | the group loop stops at the first absent member |
| `ShownInOrder` | `SendLastFirst` | a queued send goes to the front |
| `MapPointsAtLiveSession`, `PushReachesAddressee`, `GoneConnectionForgotten` | `EraseNothing` | the entry is not erased |
| `LoginAnswered` | `LoginFetchAnswersMailOnly` | no answer without mail |
| `MailSettles` | `SendOnOwnLoop` | a send to the other loop is forgotten |
| client `TypeOK`, `OneAnswerPerWait` | `ShowMessagePosts` | every message posts the semaphore |
| `MenuMeansGranted` | `KeepsOldUser` | the answer's id is not recorded |
| `RequestsFitSession` | `LogoutStaysInMenu` | the menu goes on after the logout |
| `UserStableInMenu` | `ClearFlagDoesNotWait` | the login does not wait for its answer |
| `WaitEnds` | `HandleRegisterAckDoesNotPost` | a registration's answer is not announced |
| pool `TypeOK` | `WaitFullUnguarded` | a count that does not wait at zero |
| `NeverPopEmpty` | `PostEmptyPostsFull` | the worker posts the wrong semaphore |
| `EachTaskOnce` | `FrontThenUnlock` | the mutex is given back between `front` and `pop` |
| `ImplementsTaskQueue` | `PassTestUnchecked` | the second look is at the queue instead of `shufdown` |
| `EveryTaskRuns` | `PostFullForgotten` | the task is not announced |
| `WorkersExit` | `WakeOneWorker` | the shutdown posts once |
| social `TypeOK` | `InsertFriendUnkeyed` | the table of friends has no foreign keys |
| `FriendsBothWays` | `SecondInsertSameOrder` | the second row is the first again |
| `GroupHasCreator` | `CreatorOfNewest` | the newest group's number instead of the connection's own |
| `AnswersTrue` | `OtherMembers` | the group's list leaves out its reader |
| web `TypeOK` | `LockIgnoresCloser` | no mutual exclusion |
| `MarksMatchOpen` | `CloseForgetsMark` | a connection is closed without its mark |
| `BlockedOnlyByReuse`, `RequestTaken` | `EventStaysInBatch` | an event is handled again and again |
| `IdleClosed` | `PassClosesFresh` | the test of the interval is turned round |
| request `TypeOK` | `ClearTailOneMore` | the tail is cleared past the terminator |
| `DecodeMatchesReference` | `DecodeEscapeSkipsTwo` | the second digit is read again |
| `ListingComplete` | `SendChunkUncleared` | the buffer is not cleared after a chunk |
| `EventMatchesWatch` | `DropKeepsWatch` | a deleted `myEvent` is still watched |
| `EchoInOrder` | `writrDataTwice` | the buffer is sent twice |
| `EchoArrives` | `SwitchKeepsWatch` | the callback changes, the event does not |

## 7. Plan

Done: every component that the repository's own code makes up, a theorem for each
invariant and each action property that a passing run checks, and the two
refinements. What could be added:

1. Accounts that come back over another connection: order per session instead of per
   account, since a client that returns can overtake itself.
2. A mailbox that may lose what a failing statement or a stop costs, and the
   refinement with failures.

## 8. Not modelled

* `thirdparty/json.hpp`, the JSON library: 21 045 of the repository's 23 694 lines
  of code, and not this program's logic. `parse` and `dump` are modelled by what
  the callers rely on: a buffer that is not one message throws and ends the process.
* How TCP cuts a stream into buffers; the models take either case.
* Reads that change nothing: `FriendModel::query` and `UserModel::query` but for the state and
  password of the account that logs in.
* Text: HTML of listings and pages, headers, `get_mime_type`, console menus and
  their parsing, time stamps, logging; `Content-Length`, which for a directory is
  the inode's size and not the listing's.
* Sizes of arrays that `sscanf` and `sprintf` fill: names are taken to fit. The code does
  not see to it (`dirBuf`, `webServer.cpp:178` and `194-206`), so what is said of names and
  listings holds for names that fit.
* In `WebServer`, a client that has closed its sending side and does not read: its end
  is `up` or `gone`. In `EpollReactor`, a client that never reads; an answer of the
  checked sizes fits the socket's buffer.
* Rows that the schema or the quoting refuses, apart from the keys in `ChatSocial`: see the
  abstractions of `ChatService`.
* Restrictions of signal context on `resetHandler`, which are below the grain of a step.
* The pages under `WebServer/webpath`, build files, test scripts.
