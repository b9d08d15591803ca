----------------------------- MODULE ThreadPool -----------------------------
(***************************************************************************)
(* The thread pool (ThreadPool/src/threadPool.cpp) and the program that    *)
(* drives it (main.cpp): the main thread adds tasks and shuts the pool     *)
(* down, detached workers run the tasks.  They share a bounded queue, the  *)
(* counting semaphores empty_sem and full_sem, a mutex and the plain bool  *)
(* shufdown.                                                               *)
(*                                                                         *)
(* One step is one semaphore or mutex call, one reading or writing of      *)
(* shufdown, or one call of the queue (with the unlocking that follows     *)
(* it).  main sets shufdown without the mutex, so also between a worker's  *)
(* test under the mutex and its front and pop.                             *)
(*                                                                         *)
(* An operator that no action uses, written before the definition it       *)
(* varies (WaitFullUnguarded before WaitFull), is a plausible bug in that  *)
(* code: the README lists the property that each of them breaks.           *)
(***************************************************************************)
EXTENDS Naturals, Sequences, FiniteSets

CONSTANTS
  Workers,      \* the detached threads of the constructor
  maxTaskNums,  \* capacity of the queue
  MaxTasks,     \* bound: tasks the user asks for
  Main,         \* the main thread
  NoThread      \* "the mutex is free"

ASSUME ThreadPoolAssumption ==
  /\ IsFiniteSet(Workers)
  /\ maxTaskNums \in Nat \ {0}
  /\ MaxTasks \in Nat
  /\ Main \notin Workers
  /\ NoThread \notin Workers \cup {Main}

VARIABLES
  shufdown,     \* ThreadPool::shufdown
  taskQueue,    \* ThreadPool::taskQueue, tasks named by their number
  full_sem,     \* value of the semaphore
  empty_sem,    \* value of the semaphore
  mutex,        \* holder of the mutex
  usable,       \* FALSE once pthread_mutex_destroy succeeded
  pc,           \* where each worker is in threadProcess
  task,         \* a worker's local variable task, 0 before the first
  mainPc,       \* where the main thread is
  posts,        \* rounds of the loop in destoryThreadPool
  added,        \* number of the task added last
  done          \* history: the tasks that ran to their end

poolVars == <<shufdown, taskQueue, full_sem, empty_sem, mutex, usable>>
vars == <<poolVars, pc, task, mainPc, posts, added, done>>

WorkerSteps == {"check", "wait", "lock", "locked", "front", "pop", "post", "run", "exited"}
MainSteps == {"menu", "wait", "lock", "locked", "post", "destroy", "sleep", "ended"}

(* Every variable keeps its type; semaphores never go below zero.          *)
TypeOK ==
  /\ shufdown \in BOOLEAN
  /\ taskQueue \in Seq(1..MaxTasks)
  /\ full_sem \in Nat
  /\ empty_sem \in Nat
  /\ mutex \in Workers \cup {Main, NoThread}
  /\ usable \in BOOLEAN
  /\ pc \in [Workers -> WorkerSteps]
  /\ task \in [Workers -> Nat]
  /\ mainPc \in MainSteps
  /\ posts \in Nat
  /\ added \in 0..MaxTasks
  /\ mainPc \in {"wait", "lock", "locked"} => added > 0
  /\ done \in SUBSET Nat

(* ThreadPool::ThreadPool                                                  *)
Init ==
  /\ shufdown = FALSE
  /\ taskQueue = <<>>
  /\ full_sem = 0
  /\ empty_sem = maxTaskNums
  /\ mutex = NoThread
  /\ usable = TRUE
  /\ pc = [w \in Workers |-> "check"]
  /\ task = [w \in Workers |-> 0]
  /\ mainPc = "menu"
  /\ posts = 0
  /\ added = 0
  /\ done = {}

-----------------------------------------------------------------------------
(* Locking.  A mutex that was destroyed is neither taken nor waited for:   *)
(* glibc answers EINVAL, which nobody looks at.                            *)
Lock(t) ==
  IF usable THEN mutex = NoThread /\ mutex' = t ELSE UNCHANGED mutex
Unlock(t) == mutex' = IF mutex = t THEN NoThread ELSE mutex

-----------------------------------------------------------------------------
(* threadProcess                                                           *)
Goto(w, step) == pc' = [pc EXCEPT ![w] = step]

CheckShufdown(w) ==
  /\ pc[w] = "check"
  /\ Goto(w, IF shufdown THEN "exited" ELSE "wait")
  /\ UNCHANGED <<poolVars, task, mainPc, posts, added, done>>

WaitFullUnguarded(w) ==
  /\ pc[w] = "wait"
  /\ full_sem' = full_sem - 1
  /\ Goto(w, "lock")
  /\ UNCHANGED <<shufdown, taskQueue, empty_sem, mutex, usable, task, mainPc, posts, added, done>>
WaitFull(w) ==
  /\ pc[w] = "wait" /\ full_sem > 0
  /\ full_sem' = full_sem - 1
  /\ Goto(w, "lock")
  /\ UNCHANGED <<shufdown, taskQueue, empty_sem, mutex, usable, task, mainPc, posts, added, done>>

LockQueue(w) ==
  /\ pc[w] = "lock" /\ Lock(w)
  /\ Goto(w, "locked")
  /\ UNCHANGED <<shufdown, taskQueue, full_sem, empty_sem, usable, task, mainPc, posts, added, done>>

(* The second look at shufdown.  A worker that finds the pool open goes on *)
(* to the queue, whatever main does to the flag from here on.              *)
PassTestUnchecked(w) ==
  /\ pc[w] = "locked" /\ taskQueue # <<>>
  /\ Goto(w, "front")
  /\ UNCHANGED <<poolVars, task, mainPc, posts, added, done>>
PassTest(w) ==
  /\ pc[w] = "locked" /\ ~shufdown
  /\ Goto(w, "front")
  /\ UNCHANGED <<poolVars, task, mainPc, posts, added, done>>

(* The pool was shut down while the worker slept: it leaves.               *)
LeaveLocked(w) ==
  /\ pc[w] = "locked" /\ shufdown
  /\ Unlock(w)
  /\ Goto(w, "exited")
  /\ UNCHANGED <<shufdown, taskQueue, full_sem, empty_sem, usable, task, mainPc, posts, added, done>>

(* front() of an empty queue is undefined: task 0 stands for whatever      *)
(* comes out.                                                              *)
FrontThenUnlock(w) ==
  /\ pc[w] = "front"
  /\ task' = [task EXCEPT ![w] = IF taskQueue = <<>> THEN 0 ELSE Head(taskQueue)]
  /\ Unlock(w)
  /\ Goto(w, "pop")
  /\ UNCHANGED <<shufdown, taskQueue, full_sem, empty_sem, usable, mainPc, posts, added, done>>
FrontTask(w) ==
  /\ pc[w] = "front"
  /\ task' = [task EXCEPT ![w] = IF taskQueue = <<>> THEN 0 ELSE Head(taskQueue)]
  /\ Goto(w, "pop")
  /\ UNCHANGED <<poolVars, mainPc, posts, added, done>>

PopTask(w) ==
  /\ pc[w] = "pop"
  /\ taskQueue' = IF taskQueue = <<>> THEN <<>> ELSE Tail(taskQueue)
  /\ Unlock(w)
  /\ Goto(w, "post")
  /\ UNCHANGED <<shufdown, full_sem, empty_sem, usable, task, mainPc, posts, added, done>>

PostEmptyPostsFull(w) ==
  /\ pc[w] = "post"
  /\ full_sem' = full_sem + 1
  /\ Goto(w, "run")
  /\ UNCHANGED <<shufdown, taskQueue, empty_sem, mutex, usable, task, mainPc, posts, added, done>>
PostEmpty(w) ==
  /\ pc[w] = "post"
  /\ empty_sem' = empty_sem + 1
  /\ Goto(w, "run")
  /\ UNCHANGED <<shufdown, taskQueue, full_sem, mutex, usable, task, mainPc, posts, added, done>>

RunTask(w) ==
  /\ pc[w] = "run"
  /\ done' = done \cup {task[w]}
  /\ Goto(w, "check")
  /\ UNCHANGED <<poolVars, task, mainPc, posts, added>>

Worker(w) ==
  /\ mainPc # "ended"
  /\ \/ CheckShufdown(w)
     \/ WaitFull(w)
     \/ LockQueue(w)
     \/ PassTest(w)
     \/ LeaveLocked(w)
     \/ FrontTask(w)
     \/ PopTask(w)
     \/ PostEmpty(w)
     \/ RunTask(w)

-----------------------------------------------------------------------------
(* main and addTask.  The user's number of tasks comes one task at a time: *)
(* "3" is the same as "1" three times.                                     *)
AddTask ==
  /\ mainPc = "menu" /\ ~shufdown /\ added < MaxTasks
  /\ added' = added + 1
  /\ mainPc' = "wait"
  /\ UNCHANGED <<poolVars, pc, task, posts, done>>

WaitEmpty ==
  /\ mainPc = "wait" /\ empty_sem > 0
  /\ empty_sem' = empty_sem - 1
  /\ mainPc' = "lock"
  /\ UNCHANGED <<shufdown, taskQueue, full_sem, mutex, usable, pc, task, posts, added, done>>

LockForPush ==
  /\ mainPc = "lock" /\ Lock(Main)
  /\ mainPc' = "locked"
  /\ UNCHANGED <<shufdown, taskQueue, full_sem, empty_sem, usable, pc, task, posts, added, done>>

(* The return on shufdown at this point is for other callers than main,    *)
(* which is the only thread that sets it.                                  *)
PushTask ==
  /\ mainPc = "locked" /\ ~shufdown
  /\ taskQueue' = Append(taskQueue, added)
  /\ Unlock(Main)
  /\ mainPc' = "post"
  /\ UNCHANGED <<shufdown, full_sem, empty_sem, usable, pc, task, posts, added, done>>

PostFullForgotten ==
  /\ mainPc = "post" /\ mainPc' = "menu"
  /\ UNCHANGED <<poolVars, pc, task, posts, added, done>>
PostFull ==
  /\ mainPc = "post"
  /\ full_sem' = full_sem + 1
  /\ mainPc' = "menu"
  /\ UNCHANGED <<shufdown, taskQueue, empty_sem, mutex, usable, pc, task, posts, added, done>>

(* The user entered -1; the flag is set without the mutex.                 *)
SetShufdown ==
  /\ mainPc = "menu" /\ ~shufdown
  /\ shufdown' = TRUE
  /\ mainPc' = "destroy"
  /\ UNCHANGED <<taskQueue, full_sem, empty_sem, mutex, usable, pc, task, posts, added, done>>

(* destoryThreadPool wakes each worker once ...                            *)
WakeOneWorker ==
  /\ mainPc = "destroy" /\ posts < Cardinality(Workers)
  /\ posts' = Cardinality(Workers)
  /\ full_sem' = full_sem + 1
  /\ UNCHANGED <<shufdown, taskQueue, empty_sem, mutex, usable, pc, task, mainPc, added, done>>
WakeWorker ==
  /\ mainPc = "destroy" /\ posts < Cardinality(Workers)
  /\ posts' = posts + 1
  /\ full_sem' = full_sem + 1
  /\ UNCHANGED <<shufdown, taskQueue, empty_sem, mutex, usable, pc, task, mainPc, added, done>>

(* ... and destroys what they may still use.  sem_destroy does nothing in  *)
(* glibc; pthread_mutex_destroy answers EBUSY and leaves a mutex that is   *)
(* held.                                                                   *)
Destroy ==
  /\ mainPc = "destroy" /\ posts = Cardinality(Workers)
  /\ usable' = (mutex # NoThread)
  /\ mainPc' = "sleep"
  /\ UNCHANGED <<shufdown, taskQueue, full_sem, empty_sem, mutex, pc, task, posts, added, done>>

(* sleep(5) waits for nobody: the process may end at any time after it.    *)
End ==
  /\ mainPc = "sleep"
  /\ mainPc' = "ended"
  /\ UNCHANGED <<poolVars, pc, task, posts, added, done>>

MainThread ==
  \/ AddTask
  \/ WaitEmpty
  \/ LockForPush
  \/ PushTask
  \/ PostFull
  \/ SetShufdown
  \/ WakeWorker
  \/ Destroy
  \/ End

Terminated == mainPc = "ended" /\ UNCHANGED vars

Next ==
  \/ MainThread
  \/ \E w \in Workers : Worker(w)
  \/ Terminated

Spec == Init /\ [][Next]_vars

(* The scheduler runs every thread that can run, and a post wakes a        *)
(* sleeper.  The user need not enter anything, and sleep(5) may be long.   *)
FairSpec ==
  /\ Spec
  /\ WF_vars(mainPc \notin {"menu", "sleep"} /\ MainThread)
  /\ \A w \in Workers : WF_vars(Worker(w))

-----------------------------------------------------------------------------
(* Correctness.                                                            *)

(* The workers between their test under the mutex and the unlocking.       *)
LetIn == {w \in Workers : pc[w] \in {"front", "pop"}}

(* A worker that looked at an open pool finds a task at front and at pop:  *)
(* full_sem never promises more tasks than the queue holds, whatever       *)
(* worker popped in between, also if main closes the pool meanwhile.       *)
NeverPopEmpty == \A w \in LetIn : taskQueue # <<>>

(* The queue never holds more than maxTaskNums tasks.                      *)
QueueBounded == Len(taskQueue) <= maxTaskNums

(* Why: while the pool is open, the tokens of full_sem, those workers took *)
(* and the one the main thread is about to post are as many as the tasks;  *)
(* and every slot is free, promised to the main thread, filled, or about   *)
(* to be freed by a worker.                                                *)
TookToken == {w \in Workers : pc[w] \in {"lock", "locked", "front", "pop"}}
OwesSlot  == {w \in Workers : pc[w] = "post"}

TokensMatchTasks ==
  ~shufdown => full_sem + Cardinality(TookToken) + (IF mainPc = "post" THEN 1 ELSE 0)
                 = Len(taskQueue)

SlotsConserved ==
  empty_sem + (IF mainPc \in {"lock", "locked"} THEN 1 ELSE 0) + Len(taskQueue)
    + Cardinality(OwesSlot) = maxTaskNums

(* The flag is set exactly when the main thread has left its menu for good.*)
FlagFollowsMain == shufdown <=> mainPc \in {"destroy", "sleep", "ended"}

(* Whoever is between lock and unlock holds the mutex, unless it was       *)
(* destroyed; and it is not destroyed under a worker that was let in:      *)
(* such a worker is alone with the queue, and it left a task to take.      *)
Locked == {w \in Workers : pc[w] = "locked"} \cup LetIn

HoldersLock ==
  /\ usable => /\ \A w \in Locked : mutex = w
               /\ mainPc = "locked" => mutex = Main
  /\ ~usable => mainPc \in {"sleep", "ended"} /\ LetIn = {}
  /\ NeverPopEmpty

PoolInv == FlagFollowsMain /\ TokensMatchTasks /\ SlotsConserved /\ HoldersLock

(* A task is in the queue, in the hands of one worker, or done: no task is *)
(* run twice, by one worker or by two, and none disappears while others    *)
(* stand between front and pop.                                            *)
Running == {w \in Workers : pc[w] \in {"post", "run"}}

EachTaskOnce ==
  /\ \A w \in Running : task[w] \notin done /\ \A i \in DOMAIN taskQueue : taskQueue[i] # task[w]
  /\ \A v, w \in Running : task[v] = task[w] => v = w
  /\ \A k \in 1..added :
       \/ k = added /\ mainPc \in {"wait", "lock", "locked"}
       \/ \E i \in DOMAIN taskQueue : taskQueue[i] = k
       \/ \E w \in Running : task[w] = k
       \/ k \in done

(* The pool is a bounded FIFO queue that closes: no put past the capacity, *)
(* no take from an empty queue, one taker at a time, and after the         *)
(* shutdown at most the take of a worker that had passed its test before.  *)
Taking == LetIn # {}

Promised == INSTANCE TaskQueue
  WITH Capacity <- maxTaskNums, Task <- 1..MaxTasks, buffer <- taskQueue, closed <- shufdown,
       taking <- Taking

ImplementsTaskQueue == Promised!Init /\ [][Promised!Next]_<<taskQueue, shufdown, Taking>>

(* Every task that was added runs, unless the pool is shut down first.     *)
EveryTaskRuns ==
  \A k \in 1..MaxTasks : added = k /\ mainPc = "post" ~> k \in done \/ shufdown

(* After the shutdown every worker leaves, also those that slept on        *)
(* full_sem or met the destroyed mutex, unless the process ends first.     *)
WorkersExit ==
  shufdown ~> mainPc = "ended" \/ \A w \in Workers : pc[w] = "exited"
=============================================================================
