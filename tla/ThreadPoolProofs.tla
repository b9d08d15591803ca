-------------------------- MODULE ThreadPoolProofs --------------------------
(***************************************************************************)
(* Theorems about ThreadPool for any number of workers, slots and tasks.   *)
(***************************************************************************)
EXTENDS ThreadPool, FiniteSetTheorems, TLAPS

(* The constructor leaves a well-typed pool ...                            *)
LEMMA TypeInit == Init => TypeOK
<1>1. <<>> \in Seq(1..MaxTasks)
  OBVIOUS
<1>2. 0 \in 0..MaxTasks /\ maxTaskNums \in Nat
  BY ThreadPoolAssumption
<1> SUFFICES ASSUME Init PROVE TypeOK
  OBVIOUS
<1>3. taskQueue \in Seq(1..MaxTasks)
  BY <1>1 DEF Init
<1>4. added \in 0..MaxTasks /\ full_sem \in Nat /\ empty_sem \in Nat /\ posts \in Nat
  BY <1>2 DEF Init
<1>5. pc \in [Workers -> WorkerSteps] /\ task \in [Workers -> Nat]
  BY DEF Init, WorkerSteps
<1> QED
  BY <1>3, <1>4, <1>5 DEF Init, TypeOK, MainSteps

(* ... and every step of a worker and of the main thread keeps it so.      *)
LEMMA TypeNext == TypeOK /\ [Next]_vars => TypeOK'
<1> SUFFICES ASSUME TypeOK, [Next]_vars PROVE TypeOK'
  OBVIOUS
<1> USE ThreadPoolAssumption DEF TypeOK, WorkerSteps, MainSteps, Goto, Lock, Unlock, poolVars
<1>1. ASSUME NEW w \in Workers, CheckShufdown(w) PROVE TypeOK'
  BY <1>1 DEF CheckShufdown
<1>2. ASSUME NEW w \in Workers, WaitFull(w) PROVE TypeOK'
  BY <1>2 DEF WaitFull
<1>3. ASSUME NEW w \in Workers, LockQueue(w) PROVE TypeOK'
  BY <1>3 DEF LockQueue
<1>4. ASSUME NEW w \in Workers, LeaveLocked(w) PROVE TypeOK'
  BY <1>4 DEF LeaveLocked
<1>5. ASSUME NEW w \in Workers, PopTask(w) PROVE TypeOK'
  <2>1. taskQueue # <<>> => Tail(taskQueue) \in Seq(1..MaxTasks)
    OBVIOUS
  <2>2. taskQueue' \in Seq(1..MaxTasks)
    BY <1>5, <2>1 DEF PopTask
  <2> QED
    BY <1>5, <2>2 DEF PopTask
<1>18. ASSUME NEW w \in Workers, FrontTask(w) PROVE TypeOK'
  <2> DEFINE first == IF taskQueue = <<>> THEN 0 ELSE Head(taskQueue)
  <2>1. first \in Nat
    <3>1. taskQueue # <<>> => Head(taskQueue) \in 1..MaxTasks
      OBVIOUS
    <3> QED
      BY <3>1
  <2>2. task' = [task EXCEPT ![w] = first]
    BY <1>18 DEF FrontTask
  <2>3. task' \in [Workers -> Nat]
    BY <2>1, <2>2
  <2> QED
    BY <1>18, <2>3 DEF FrontTask
<1>19. ASSUME NEW w \in Workers, PassTest(w) PROVE TypeOK'
  BY <1>19 DEF PassTest
<1>6. ASSUME NEW w \in Workers, PostEmpty(w) PROVE TypeOK'
  BY <1>6 DEF PostEmpty
<1>7. ASSUME NEW w \in Workers, RunTask(w) PROVE TypeOK'
  BY <1>7 DEF RunTask
<1>8. CASE AddTask
  BY <1>8 DEF AddTask
<1>9. CASE WaitEmpty
  BY <1>9 DEF WaitEmpty
<1>10. CASE LockForPush
  BY <1>10 DEF LockForPush
<1>11. CASE PushTask
  <2>1. Append(taskQueue, added) \in Seq(1..MaxTasks)
    BY <1>11 DEF PushTask
  <2> QED
    BY <1>11, <2>1 DEF PushTask
<1>12. CASE PostFull
  BY <1>12 DEF PostFull
<1>13. CASE SetShufdown
  BY <1>13 DEF SetShufdown
<1>14. CASE WakeWorker
  BY <1>14 DEF WakeWorker
<1>15. CASE Destroy
  BY <1>15 DEF Destroy
<1>16. CASE End
  BY <1>16 DEF End
<1>17. CASE UNCHANGED vars
  BY <1>17 DEF vars
<1> QED
  BY <1>1, <1>2, <1>3, <1>4, <1>5, <1>6, <1>7, <1>8, <1>9, <1>10, <1>11, <1>12, <1>13,
     <1>14, <1>15, <1>16, <1>17, <1>18, <1>19 DEF Next, MainThread, Worker, Terminated

(* Every reachable state of the pool is well typed: a semaphore is never   *)
(* taken below zero.                                                       *)
THEOREM PoolTypeCorrect == Spec => []TypeOK
BY TypeInit, TypeNext, PTL DEF Spec

-----------------------------------------------------------------------------
(* A finite set gains or loses one worker.                                 *)
LEMMA CountIn ==
  ASSUME NEW S \in SUBSET Workers, NEW w \in Workers \ S
  PROVE  Cardinality(S \cup {w}) = Cardinality(S) + 1
BY ThreadPoolAssumption, FS_Subset, FS_AddElement

(* Likewise when one leaves.                                               *)
LEMMA CountOut ==
  ASSUME NEW S \in SUBSET Workers, NEW w \in S
  PROVE  Cardinality(S \ {w}) = Cardinality(S) - 1
BY ThreadPoolAssumption, FS_Subset, FS_RemoveElement

(* There are finitely many workers in any place.                           *)
LEMMA CountNat ==
  ASSUME NEW S \in SUBSET Workers
  PROVE  Cardinality(S) \in Nat
BY ThreadPoolAssumption, FS_Subset, FS_CardinalityType

(* A worker that holds a token proves that there is a task.                *)
LEMMA TokenMeansTask ==
  ASSUME TypeOK, PoolInv, ~shufdown, NEW w \in TookToken
  PROVE  taskQueue # <<>>
<1>1. Cardinality(TookToken \ {w}) = Cardinality(TookToken) - 1
  BY CountOut DEF TookToken
<1>2. Cardinality(TookToken) \in Nat /\ Cardinality(TookToken \ {w}) \in Nat
  BY CountNat DEF TookToken
<1>3. Len(taskQueue) > 0
  BY <1>1, <1>2 DEF TypeOK, PoolInv, TokensMatchTasks
<1> QED
  BY <1>3

(* Tokens, tasks and slots match in the new pool ...                       *)
LEMMA PoolInit == Init => PoolInv
<1> SUFFICES ASSUME Init PROVE PoolInv
  OBVIOUS
<1>1. TookToken = {} /\ OwesSlot = {} /\ Locked = {} /\ LetIn = {}
  BY DEF Init, TookToken, OwesSlot, Locked, LetIn
<1>2. Cardinality(TookToken) = 0 /\ Cardinality(OwesSlot) = 0
  BY <1>1, FS_EmptySet
<1> QED
  BY <1>1, <1>2, ThreadPoolAssumption
     DEF Init, PoolInv, FlagFollowsMain, TokensMatchTasks, SlotsConserved, HoldersLock,
         NeverPopEmpty

(* The counting part of the invariant, which every step below preserves.   *)
Counts == FlagFollowsMain /\ TokensMatchTasks /\ SlotsConserved

(* Tokens, tasks and slots still match after each semaphore, mutex and     *)
(* queue operation: a pop finds a task, since its worker was let in.       *)
LEMMA CountsNext == TypeOK /\ PoolInv /\ [Next]_vars => Counts'
<1> SUFFICES ASSUME TypeOK, PoolInv, [Next]_vars PROVE Counts'
  OBVIOUS
<1>0. Cardinality(TookToken) \in Nat /\ Cardinality(OwesSlot) \in Nat
  BY CountNat DEF TookToken, OwesSlot
<1> USE <1>0 DEF Goto, poolVars, PoolInv, Counts, FlagFollowsMain, TokensMatchTasks, SlotsConserved
(* Steps of a worker that neither take nor give a token or a slot.         *)
<1>1. ASSUME NEW w \in Workers,
             CheckShufdown(w) \/ LockQueue(w) \/ PassTest(w) \/ FrontTask(w) \/ RunTask(w)
      PROVE  Counts'
  <2>1. TookToken' = TookToken /\ OwesSlot' = OwesSlot
    BY <1>1 DEF CheckShufdown, LockQueue, PassTest, FrontTask, RunTask, TookToken, OwesSlot, TypeOK
  <2> QED
    BY <1>1, <2>1 DEF CheckShufdown, LockQueue, PassTest, FrontTask, RunTask
<1>2. ASSUME NEW w \in Workers, WaitFull(w) PROVE Counts'
  <2>1. TookToken' = TookToken \cup {w} /\ w \notin TookToken /\ OwesSlot' = OwesSlot
    BY <1>2 DEF WaitFull, TookToken, OwesSlot, TypeOK
  <2>2. Cardinality(TookToken') = Cardinality(TookToken) + 1
    BY <2>1, CountIn DEF TookToken
  <2> QED
    BY <1>2, <2>1, <2>2 DEF WaitFull, TypeOK
<1>3. ASSUME NEW w \in Workers, LeaveLocked(w) PROVE Counts'
  <2>1. OwesSlot' = OwesSlot
    BY <1>3 DEF LeaveLocked, OwesSlot, TypeOK
  <2> QED
    BY <1>3, <2>1 DEF LeaveLocked
<1>4. ASSUME NEW w \in Workers, PopTask(w) PROVE Counts'
  <2>1. w \in TookToken /\ w \notin OwesSlot
    BY <1>4 DEF PopTask, TookToken, OwesSlot
  <2>2. taskQueue # <<>>
    BY <1>4 DEF PopTask, HoldersLock, NeverPopEmpty, LetIn
  <2>3. Len(taskQueue') = Len(taskQueue) - 1 /\ Len(taskQueue) \in Nat
    BY <1>4, <2>2 DEF PopTask, TypeOK
  <2>4. TookToken' = TookToken \ {w} /\ OwesSlot' = OwesSlot \cup {w}
    BY <1>4 DEF PopTask, TookToken, OwesSlot, TypeOK
  <2>5. Cardinality(TookToken') = Cardinality(TookToken) - 1
    BY <2>1, <2>4, CountOut DEF TookToken
  <2>6. Cardinality(OwesSlot') = Cardinality(OwesSlot) + 1
    BY <2>1, <2>4, CountIn DEF OwesSlot
  <2>7. UNCHANGED <<shufdown, mainPc, full_sem, empty_sem>> /\ full_sem \in Nat /\ empty_sem \in Nat
    BY <1>4 DEF PopTask, TypeOK
  <2>8. TokensMatchTasks'
    BY <2>3, <2>5, <2>7
  <2>9. SlotsConserved'
    BY <2>3, <2>6, <2>7, ThreadPoolAssumption
  <2> QED
    BY <2>7, <2>8, <2>9
<1>5. ASSUME NEW w \in Workers, PostEmpty(w) PROVE Counts'
  <2>1. w \in OwesSlot /\ OwesSlot' = OwesSlot \ {w} /\ TookToken' = TookToken
    BY <1>5 DEF PostEmpty, TookToken, OwesSlot, TypeOK
  <2>2. Cardinality(OwesSlot') = Cardinality(OwesSlot) - 1
    BY <2>1, CountOut DEF OwesSlot
  <2>3. /\ UNCHANGED <<shufdown, mainPc, full_sem, taskQueue>>
        /\ empty_sem' = empty_sem + 1 /\ empty_sem \in Nat /\ Len(taskQueue) \in Nat
    BY <1>5 DEF PostEmpty, TypeOK
  <2>4. SlotsConserved'
    BY <2>2, <2>3, ThreadPoolAssumption
  <2> QED
    BY <2>1, <2>3, <2>4
(* Steps of the main thread leave the workers where they are.              *)
<1>6. CASE MainThread
  <2>1. TookToken' = TookToken /\ OwesSlot' = OwesSlot
    BY <1>6 DEF MainThread, AddTask, WaitEmpty, LockForPush, PushTask, PostFull, SetShufdown,
                WakeWorker, Destroy, End, TookToken, OwesSlot
  <2>2. CASE AddTask
    BY <2>1, <2>2 DEF AddTask
  <2>3. CASE WaitEmpty
    BY <2>1, <2>3 DEF WaitEmpty, TypeOK
  <2>4. CASE LockForPush
    BY <2>1, <2>4 DEF LockForPush
  <2>5. CASE PushTask
    <3>1. Len(taskQueue') = Len(taskQueue) + 1 /\ Len(taskQueue) \in Nat
      BY <2>5 DEF PushTask, TypeOK
    <3> QED
      BY <2>1, <2>5, <3>1 DEF PushTask, TypeOK
  <2>6. CASE PostFull
    BY <2>1, <2>6 DEF PostFull, TypeOK
  <2>7. CASE SetShufdown
    BY <2>1, <2>7 DEF SetShufdown
  <2>8. CASE WakeWorker
    BY <2>1, <2>8 DEF WakeWorker
  <2>9. CASE Destroy
    BY <2>1, <2>9 DEF Destroy
  <2>10. CASE End
    BY <2>1, <2>10 DEF End
  <2> QED
    BY <1>6, <2>2, <2>3, <2>4, <2>5, <2>6, <2>7, <2>8, <2>9, <2>10 DEF MainThread
<1>7. CASE UNCHANGED vars
  BY <1>7 DEF vars, TookToken, OwesSlot
<1> QED
  BY <1>1, <1>2, <1>3, <1>4, <1>5, <1>6, <1>7 DEF Next, Worker, Terminated

(* The mutex keeps a worker that was let in alone with the queue, until it *)
(* unlocks, also while main closes the pool around it.                     *)
LEMMA LockNext == TypeOK /\ PoolInv /\ [Next]_vars => HoldersLock'
<1> SUFFICES ASSUME TypeOK, PoolInv, [Next]_vars PROVE HoldersLock'
  OBVIOUS
<1> USE ThreadPoolAssumption DEF Goto, poolVars, HoldersLock, NeverPopEmpty, Locked, LetIn
<1>0. HoldersLock /\ FlagFollowsMain
  BY DEF PoolInv
(* Steps of a worker outside the mutex.                                    *)
<1>1. ASSUME NEW w \in Workers,
             CheckShufdown(w) \/ WaitFull(w) \/ PostEmpty(w) \/ RunTask(w)
      PROVE  HoldersLock'
  <2>1. Locked' = Locked /\ LetIn' = LetIn
    BY <1>1 DEF CheckShufdown, WaitFull, PostEmpty, RunTask, TypeOK
  <2>2. UNCHANGED <<usable, mutex, mainPc, shufdown, taskQueue>>
    BY <1>1 DEF CheckShufdown, WaitFull, PostEmpty, RunTask
  <2> QED
    BY <1>0, <2>1, <2>2
(* Lock, test, front: the mutex was free, or its holder goes on.           *)
<1>2. ASSUME NEW w \in Workers, LockQueue(w) PROVE HoldersLock'
  BY <1>0, <1>2 DEF LockQueue, Lock, TypeOK
<1>3. ASSUME NEW w \in Workers, PassTest(w) PROVE HoldersLock'
  <2>1. usable /\ mutex = w
    BY <1>0, <1>3 DEF PassTest, FlagFollowsMain
  <2>2. taskQueue # <<>>
    BY <1>3, TokenMeansTask DEF PassTest, TookToken
  <2>3. LetIn' = LetIn \cup {w} /\ Locked' = Locked
    BY <1>3 DEF PassTest, TypeOK
  <2>4. UNCHANGED <<usable, mutex, mainPc, shufdown, taskQueue>>
    BY <1>3 DEF PassTest
  <2> QED
    BY <1>0, <2>1, <2>2, <2>3, <2>4
<1>4. ASSUME NEW w \in Workers, FrontTask(w) PROVE HoldersLock'
  <2>1. LetIn' = LetIn /\ Locked' = Locked
    BY <1>4 DEF FrontTask, TypeOK
  <2>2. UNCHANGED <<usable, mutex, mainPc, shufdown, taskQueue>>
    BY <1>4 DEF FrontTask
  <2> QED
    BY <1>0, <2>1, <2>2
(* Unlocking: nobody else was between lock and unlock.                     *)
<1>5. ASSUME NEW w \in Workers, LeaveLocked(w) PROVE HoldersLock'
  BY <1>0, <1>5 DEF LeaveLocked, Unlock, TypeOK
<1>6. ASSUME NEW w \in Workers, PopTask(w) PROVE HoldersLock'
  <2>1. usable /\ Locked = {w} /\ mainPc # "locked"
    BY <1>0, <1>6 DEF PopTask
  <2>2. Locked' = {} /\ LetIn' = {}
    BY <1>6, <2>1 DEF PopTask, TypeOK
  <2>3. UNCHANGED <<usable, mainPc, shufdown>>
    BY <1>6 DEF PopTask
  <2> QED
    BY <2>1, <2>2, <2>3
<1>7. CASE MainThread
  <2>1. LetIn' = LetIn /\ Locked' = Locked
    BY <1>7 DEF MainThread, AddTask, WaitEmpty, LockForPush, PushTask, PostFull, SetShufdown,
                WakeWorker, Destroy, End
  <2>2. CASE LockForPush
    BY <1>0, <2>1, <2>2 DEF LockForPush, Lock, FlagFollowsMain
  <2>3. CASE PushTask
    <3>1. usable /\ mutex = Main /\ Locked = {}
      BY <1>0, <2>3 DEF PushTask, FlagFollowsMain
    <3> QED
      BY <2>1, <2>3, <3>1 DEF PushTask
  <2>4. CASE Destroy
    <3>1. UNCHANGED <<mutex, taskQueue>> /\ mainPc' = "sleep" /\ usable' = (mutex # NoThread)
      BY <2>4 DEF Destroy
    <3>2. \A w \in Locked : mutex = w
      BY <1>0, <2>4 DEF Destroy
    <3>3. mutex = NoThread => LetIn = {}
      BY <3>2
    <3> QED
      BY <1>0, <2>1, <3>1, <3>2, <3>3
  <2>5. CASE AddTask \/ WaitEmpty \/ PostFull \/ SetShufdown \/ WakeWorker \/ End
    <3>1. /\ UNCHANGED <<usable, mutex, taskQueue>> /\ mainPc' # "locked"
          /\ mainPc \in {"sleep", "ended"} => mainPc' \in {"sleep", "ended"}
      BY <2>5 DEF AddTask, WaitEmpty, PostFull, SetShufdown, WakeWorker, End
    <3> QED
      BY <1>0, <2>1, <3>1
  <2> QED
    BY <1>7, <2>2, <2>3, <2>4, <2>5 DEF MainThread
<1>8. CASE UNCHANGED vars
  BY <1>0, <1>8 DEF vars
<1> QED
  BY <1>1, <1>2, <1>3, <1>4, <1>5, <1>6, <1>7, <1>8 DEF Next, Worker, Terminated

(* The counting and locking invariant holds in every reachable state.      *)
LEMMA PoolInvCorrect == Spec => [](TypeOK /\ PoolInv)
<1>1. TypeOK /\ PoolInv /\ [Next]_vars => PoolInv'
  BY CountsNext, LockNext DEF Counts, PoolInv
<1> QED
  BY <1>1, PoolInit, PoolTypeCorrect, PTL DEF Spec

(* Tokens and tasks match and the mutex lasts, so no worker that was let in*)
(* meets an empty queue, whatever the other workers popped between its     *)
(* sem_wait and its lock and whenever main closes the pool.                *)
THEOREM NoEmptyPop == Spec => []NeverPopEmpty
<1>1. PoolInv => NeverPopEmpty
  BY DEF PoolInv, HoldersLock
<1> QED
  BY <1>1, PoolInvCorrect, PTL

(* Slots are conserved, so the queue never holds more than maxTaskNums.    *)
THEOREM BoundedQueue == Spec => []QueueBounded
<1>1. TypeOK /\ PoolInv => QueueBounded
  <2> SUFFICES ASSUME TypeOK, PoolInv PROVE QueueBounded
    OBVIOUS
  <2>1. Cardinality(OwesSlot) \in Nat
    BY CountNat DEF OwesSlot
  <2> QED
    BY <2>1, ThreadPoolAssumption DEF TypeOK, PoolInv, SlotsConserved, QueueBounded
<1> QED
  BY <1>1, PoolInvCorrect, PTL

-----------------------------------------------------------------------------
(* The tasks that reached the queue are 1..Pushed.                         *)
Pushed == IF mainPc \in {"wait", "lock", "locked"} THEN added - 1 ELSE added

(* Why no task is run twice: the queue, the workers' hands and done hold   *)
(* disjoint parts of 1..Pushed without repetition, so the number that is   *)
(* pushed next is nowhere yet.                                             *)
QueueOnce ==
  /\ \A i \in DOMAIN taskQueue : taskQueue[i] \in 1..Pushed \ done
  /\ \A i, j \in DOMAIN taskQueue : taskQueue[i] = taskQueue[j] => i = j
RunningOnce ==
  /\ \A w \in Running : task[w] \in 1..Pushed \ done
  /\ \A w \in Running : \A i \in DOMAIN taskQueue : taskQueue[i] # task[w]
  /\ \A v, w \in Running : task[v] = task[w] => v = w
NoneLost ==
  \A k \in 1..Pushed :
    \/ \E i \in DOMAIN taskQueue : taskQueue[i] = k
    \/ \E w \in Running : task[w] = k
    \/ k \in done
(* What front() returned is still the first when pop() comes.              *)
FrontStays == \A w \in Workers : pc[w] = "pop" => task[w] = Head(taskQueue)

TaskInv == QueueOnce /\ RunningOnce /\ NoneLost /\ FrontStays /\ done \subseteq 1..Pushed

(* Nothing is added, run or done in the new pool ...                       *)
LEMMA TaskInit == Init => TaskInv
BY DEF Init, TaskInv, QueueOnce, RunningOnce, NoneLost, FrontStays, Running, Pushed

(* A step that moves no task keeps every task where it is.                 *)
LEMMA TasksStay ==
  ASSUME TaskInv, UNCHANGED <<taskQueue, task, done>>, Pushed' = Pushed, Running' = Running,
         \A w \in Workers : pc'[w] = "pop" => pc[w] = "pop"
  PROVE  TaskInv'
BY DEF TaskInv, QueueOnce, RunningOnce, NoneLost, FrontStays

(* A push puts the next number at the end of the queue ...                 *)
LEMMA TasksPush == ASSUME TypeOK, PoolInv, TaskInv, PushTask PROVE TaskInv'
<1>1. /\ taskQueue' = Append(taskQueue, added) /\ UNCHANGED <<task, done>>
      /\ Running' = Running /\ Running \subseteq Workers
      /\ added \in Nat /\ added > 0 /\ Pushed = added - 1 /\ Pushed' = added
  BY DEF PushTask, Running, Pushed, TypeOK
<1>2. taskQueue \in Seq(1..MaxTasks) /\ Len(taskQueue) \in Nat
  BY DEF TypeOK
<1> DEFINE n == Len(taskQueue)
<1>3. /\ DOMAIN taskQueue = 1..n /\ DOMAIN taskQueue' = 1..n+1
      /\ \A i \in 1..n : taskQueue'[i] = taskQueue[i]
      /\ taskQueue'[n+1] = added
  <2>1. added \in 1..MaxTasks
    BY <1>1 DEF TypeOK
  <2> QED
    BY <1>1, <1>2, <2>1
<1>4. added \notin done /\ done' \subseteq 1..Pushed'
  BY <1>1 DEF TaskInv
<1>5. QueueOnce'
  BY <1>1, <1>2, <1>3, <1>4 DEF TaskInv, QueueOnce
<1>6. RunningOnce'
  BY <1>1, <1>2, <1>3, <1>4 DEF TaskInv, RunningOnce
<1>7. NoneLost'
  <2> SUFFICES ASSUME NEW k \in 1..Pushed'
               PROVE  \/ \E i \in DOMAIN taskQueue' : taskQueue'[i] = k
                      \/ \E w \in Running : task[w] = k
                      \/ k \in done
    BY <1>1 DEF NoneLost
  <2>1. CASE k = added
    BY <2>1, <1>2, <1>3
  <2>2. CASE k \in 1..Pushed
    BY <2>2, <1>2, <1>3 DEF TaskInv, NoneLost
  <2> QED
    BY <2>1, <2>2, <1>1
<1>8. FrontStays'
  <2>1. \A w \in Workers : pc'[w] # "pop"
    BY ThreadPoolAssumption
       DEF PushTask, PoolInv, HoldersLock, FlagFollowsMain, Locked, LetIn
  <2> QED
    BY <2>1 DEF FrontStays
<1> QED
  BY <1>4, <1>5, <1>6, <1>7, <1>8 DEF TaskInv

(* ... front() only looks at the first one ...                             *)
LEMMA TasksFront ==
  ASSUME TypeOK, PoolInv, TaskInv, NEW w \in Workers, FrontTask(w)
  PROVE  TaskInv'
<1>1. taskQueue # <<>>
  BY DEF FrontTask, PoolInv, HoldersLock, NeverPopEmpty, LetIn
<1>2. /\ task'[w] = Head(taskQueue) /\ \A v \in Workers \ {w} : task'[v] = task[v]
      /\ UNCHANGED <<taskQueue, done>> /\ Pushed' = Pushed
  BY <1>1 DEF FrontTask, Pushed, TypeOK, poolVars
<1>3. Running' = Running /\ w \notin Running /\ Running \subseteq Workers
  BY DEF FrontTask, Goto, Running, TypeOK
<1>4. \A v \in Workers \ {w} : pc'[v] = pc[v]
  BY DEF FrontTask, Goto, TypeOK
<1>5. QueueOnce' /\ RunningOnce' /\ NoneLost'
  BY <1>2, <1>3 DEF TaskInv, QueueOnce, RunningOnce, NoneLost
<1>6. FrontStays'
  BY <1>2, <1>4 DEF TaskInv, FrontStays
<1> QED
  BY <1>2, <1>5, <1>6 DEF TaskInv

(* ... a pop leaves it in the hands of that worker alone ...               *)
LEMMA TasksPop ==
  ASSUME TypeOK, PoolInv, TaskInv, NEW w \in Workers, PopTask(w)
  PROVE  TaskInv'
<1>0. taskQueue # <<>>
  BY DEF PopTask, PoolInv, HoldersLock, NeverPopEmpty, LetIn
<1> DEFINE n == Len(taskQueue)
<1>1. /\ taskQueue' = Tail(taskQueue) /\ UNCHANGED done /\ Pushed' = Pushed
      /\ Running' = Running \cup {w} /\ w \notin Running /\ Running \subseteq Workers
  BY <1>0 DEF PopTask, Goto, Running, Pushed, TypeOK
<1>2. taskQueue \in Seq(1..MaxTasks) /\ n \in Nat /\ n > 0 /\ DOMAIN taskQueue = 1..n
  BY <1>0 DEF TypeOK
<1>3. /\ DOMAIN taskQueue' = 1..n-1
      /\ \A i \in 1..n-1 : i+1 \in 1..n /\ taskQueue'[i] = taskQueue[i+1]
  BY <1>1, <1>2
<1>4. task'[w] = taskQueue[1] /\ \A v \in Workers \ {w} : task'[v] = task[v]
  BY <1>2 DEF PopTask, TaskInv, FrontStays
<1>5. 1 \in DOMAIN taskQueue
  BY <1>2
<1>6. QueueOnce'
  BY <1>1, <1>2, <1>3 DEF TaskInv, QueueOnce
<1>7. \A i \in 1..n-1 : taskQueue'[i] # taskQueue[1]
  BY <1>2, <1>3, <1>5 DEF TaskInv, QueueOnce
<1>8. RunningOnce'
  <2>1. \A v \in Running' : task'[v] \in 1..Pushed \ done
    BY <1>1, <1>4, <1>5 DEF TaskInv, QueueOnce, RunningOnce
  <2>2. \A v \in Running' : \A i \in 1..n-1 : taskQueue'[i] # task'[v]
    BY <1>1, <1>2, <1>3, <1>4, <1>7 DEF TaskInv, RunningOnce
  <2>3. \A u, v \in Running' : task'[u] = task'[v] => u = v
    BY <1>1, <1>4, <1>5 DEF TaskInv, RunningOnce
  <2> QED
    BY <1>1, <1>3, <2>1, <2>2, <2>3 DEF RunningOnce
<1>9. NoneLost'
  <2> SUFFICES ASSUME NEW k \in 1..Pushed
               PROVE  \/ \E i \in DOMAIN taskQueue' : taskQueue'[i] = k
                      \/ \E v \in Running' : task'[v] = k
                      \/ k \in done
    BY <1>1 DEF NoneLost
  <2>1. ASSUME NEW i \in 1..n, taskQueue[i] = k
        PROVE  \/ \E j \in DOMAIN taskQueue' : taskQueue'[j] = k
               \/ \E v \in Running' : task'[v] = k
    <3>1. CASE i = 1
      BY <2>1, <3>1, <1>1, <1>4
    <3>2. CASE i # 1
      <4>1. i-1 \in 1..n-1 /\ taskQueue'[i-1] = k
        BY <2>1, <3>2, <1>2, <1>3
      <4> QED
        BY <4>1, <1>3
    <3> QED
      BY <3>1, <3>2
  <2>2. ASSUME NEW v \in Running, task[v] = k
        PROVE  \E u \in Running' : task'[u] = k
    BY <2>2, <1>1, <1>4
  <2> QED
    BY <2>1, <2>2, <1>2 DEF TaskInv, NoneLost
<1>10. FrontStays'
  <2>1. \A v \in Workers \ {w} : pc[v] # "pop"
    BY DEF PopTask, PoolInv, HoldersLock, Locked, LetIn
  <2>2. \A v \in Workers : pc'[v] # "pop"
    BY <2>1 DEF PopTask, Goto, TypeOK
  <2> QED
    BY <2>2 DEF FrontStays
<1> QED
  BY <1>1, <1>6, <1>8, <1>9, <1>10 DEF TaskInv

(* ... and running it moves it from there to done.                         *)
LEMMA TasksRun ==
  ASSUME TypeOK, TaskInv, NEW w \in Workers, RunTask(w)
  PROVE  TaskInv'
<1>1. /\ done' = done \cup {task[w]} /\ UNCHANGED <<taskQueue, task>> /\ Pushed' = Pushed
      /\ Running' = Running \ {w} /\ w \in Running
  BY DEF RunTask, Goto, Running, Pushed, TypeOK, poolVars
<1>2. QueueOnce'
  BY <1>1 DEF TaskInv, QueueOnce, RunningOnce
<1>3. RunningOnce'
  BY <1>1 DEF TaskInv, RunningOnce
<1>4. NoneLost' /\ done' \subseteq 1..Pushed'
  BY <1>1 DEF TaskInv, RunningOnce, NoneLost
<1>5. FrontStays'
  <2>1. \A v \in Workers : pc'[v] = "pop" => pc[v] = "pop"
    BY DEF RunTask, Goto, TypeOK
  <2> QED
    BY <1>1, <2>1 DEF TaskInv, FrontStays
<1> QED
  BY <1>2, <1>3, <1>4, <1>5 DEF TaskInv

(* All other steps move no task: adding one only announces the number that *)
(* will be pushed.                                                         *)
LEMMA TaskNext == TypeOK /\ PoolInv /\ TaskInv /\ [Next]_vars => TaskInv'
<1> SUFFICES ASSUME TypeOK, PoolInv, TaskInv, [Next]_vars PROVE TaskInv'
  OBVIOUS
<1>1. ASSUME NEW w \in Workers, FrontTask(w) \/ PopTask(w) PROVE TaskInv'
  BY <1>1, TasksFront, TasksPop
<1>2. ASSUME NEW w \in Workers,
             \/ CheckShufdown(w) \/ WaitFull(w) \/ LockQueue(w) \/ PassTest(w) \/ LeaveLocked(w)
             \/ PostEmpty(w)
      PROVE  TaskInv'
  <2>1. UNCHANGED <<taskQueue, task, done, mainPc, added>>
    BY <1>2 DEF CheckShufdown, WaitFull, LockQueue, PassTest, LeaveLocked, PostEmpty, poolVars
  <2>2. Running' = Running /\ \A v \in Workers : pc'[v] = "pop" => pc[v] = "pop"
    BY <1>2 DEF CheckShufdown, WaitFull, LockQueue, PassTest, LeaveLocked, PostEmpty, Running,
                Goto, TypeOK
  <2> QED
    BY <2>1, <2>2, TasksStay DEF Pushed
<1>3. CASE \/ AddTask \/ WaitEmpty \/ LockForPush \/ PostFull \/ SetShufdown \/ WakeWorker
           \/ Destroy \/ End \/ UNCHANGED vars
  <2>1. UNCHANGED <<taskQueue, task, done, pc>>
    BY <1>3 DEF AddTask, WaitEmpty, LockForPush, PostFull, SetShufdown, WakeWorker, Destroy, End,
                poolVars, vars
  <2>2. Pushed' = Pushed
    BY <1>3 DEF AddTask, WaitEmpty, LockForPush, PostFull, SetShufdown, WakeWorker, Destroy, End,
                vars, Pushed, TypeOK
  <2> QED
    BY <2>1, <2>2, TasksStay DEF Running
<1> QED
  BY <1>1, <1>2, <1>3, TasksPush, TasksRun DEF Next, MainThread, Worker, Terminated

(* Whatever workers pop, run and add at the same time: each task that was  *)
(* pushed is in exactly one place, the queue, one worker, or done.         *)
THEOREM TasksRunOnce == Spec => []EachTaskOnce
<1>1. TypeOK /\ TaskInv => EachTaskOnce
  <2> SUFFICES ASSUME TypeOK, TaskInv PROVE EachTaskOnce
    OBVIOUS
  <2>1. ASSUME NEW k \in 1..added, ~(k = added /\ mainPc \in {"wait", "lock", "locked"})
        PROVE  k \in 1..Pushed
    BY <2>1 DEF Pushed, TypeOK
  <2> QED
    BY <2>1 DEF TaskInv, RunningOnce, NoneLost, EachTaskOnce
<1> QED
  BY <1>1, TaskInit, TaskNext, PoolInvCorrect, PTL DEF Spec

-----------------------------------------------------------------------------
(* A push finds room: the main thread holds a slot.                        *)
LEMMA PushFindsRoom ==
  ASSUME TypeOK, PoolInv, mainPc = "locked"
  PROVE  Len(taskQueue) < maxTaskNums
<1>1. Cardinality(OwesSlot) \in Nat
  BY CountNat DEF OwesSlot
<1> QED
  BY <1>1, ThreadPoolAssumption DEF TypeOK, PoolInv, SlotsConserved

(* A push is a put, a passed test lets a taker in, a pop is a take, the    *)
(* menu's -1 is the closing.                                               *)
LEMMA StepImplements ==
  ASSUME TypeOK, PoolInv, [Next]_vars
  PROVE  [Promised!Next]_<<taskQueue, shufdown, Taking>>
<1> USE DEF poolVars
<1>0. HoldersLock /\ FlagFollowsMain
  BY DEF PoolInv
<1>1. ASSUME NEW w \in Workers, PopTask(w) PROVE Promised!Take
  <2>1. taskQueue # <<>> /\ Taking /\ LetIn = {w}
    BY <1>0, <1>1 DEF PopTask, HoldersLock, NeverPopEmpty, Locked, LetIn, Taking
  <2>2. Taking' = FALSE
    BY <1>1, <2>1 DEF PopTask, Goto, LetIn, Taking, TypeOK
  <2>3. taskQueue' = Tail(taskQueue) /\ shufdown' = shufdown
    BY <1>1, <2>1 DEF PopTask
  <2> QED
    BY <2>1, <2>2, <2>3, Zenon DEF Promised!Take
<1>2. ASSUME NEW w \in Workers, PassTest(w) PROVE Promised!LetIn
  <2>1. taskQueue # <<>>
    BY <1>2, TokenMeansTask DEF PassTest, TookToken
  <2>2. ~Taking
    BY <1>0, <1>2 DEF PassTest, HoldersLock, FlagFollowsMain, Locked, LetIn, Taking
  <2>3. Taking' = TRUE
    BY <1>2 DEF PassTest, Goto, LetIn, Taking, TypeOK
  <2>4. ~shufdown /\ UNCHANGED <<taskQueue, shufdown>>
    BY <1>2 DEF PassTest
  <2> QED
    BY <2>1, <2>2, <2>3, <2>4, Zenon DEF Promised!LetIn
<1>3. CASE MainThread
  <2>0. Taking' = Taking
    BY <1>3 DEF MainThread, AddTask, WaitEmpty, LockForPush, PushTask, PostFull, SetShufdown,
                WakeWorker, Destroy, End, LetIn, Taking
  <2>1. CASE PushTask
    <3>1. Len(taskQueue) < maxTaskNums /\ added \in 1..MaxTasks
      BY <2>1, PushFindsRoom, ThreadPoolAssumption DEF PushTask, TypeOK
    <3>2. ~Taking
      BY <1>0, <2>1, ThreadPoolAssumption
         DEF PushTask, HoldersLock, FlagFollowsMain, Locked, LetIn, Taking
    <3>3. ~shufdown /\ taskQueue' = Append(taskQueue, added) /\ shufdown' = shufdown
      BY <2>1 DEF PushTask
    <3>4. Promised!Put
      BY <2>0, <3>1, <3>2, <3>3, Zenon DEF Promised!Put
    <3> QED
      BY <3>4 DEF Promised!Next
  <2>2. CASE SetShufdown
    <3>1. shufdown' = TRUE /\ taskQueue' = taskQueue
      BY <2>2 DEF SetShufdown
    <3>2. Promised!Close
      BY <2>0, <3>1, Zenon DEF Promised!Close
    <3> QED
      BY <3>2 DEF Promised!Next
  <2>3. CASE AddTask \/ WaitEmpty \/ LockForPush \/ PostFull \/ WakeWorker \/ Destroy \/ End
    <3>1. UNCHANGED <<taskQueue, shufdown>>
      BY <2>3 DEF AddTask, WaitEmpty, LockForPush, PostFull, WakeWorker, Destroy, End
    <3> QED
      BY <2>0, <3>1
  <2> QED
    BY <1>3, <2>1, <2>2, <2>3 DEF MainThread
<1>4. CASE UNCHANGED vars
  BY <1>4 DEF vars, LetIn, Taking
<1>5. ASSUME NEW w \in Workers,
             \/ CheckShufdown(w) \/ WaitFull(w) \/ LockQueue(w) \/ LeaveLocked(w)
             \/ FrontTask(w) \/ PostEmpty(w) \/ RunTask(w)
      PROVE  UNCHANGED <<taskQueue, shufdown, Taking>>
  <2>1. UNCHANGED <<taskQueue, shufdown>>
    BY <1>5 DEF CheckShufdown, WaitFull, LockQueue, LeaveLocked, FrontTask, PostEmpty, RunTask
  <2>2. LetIn' = LetIn
    BY <1>5 DEF CheckShufdown, WaitFull, LockQueue, LeaveLocked, FrontTask, PostEmpty, RunTask,
                Goto, LetIn, TypeOK
  <2> QED
    BY <2>1, <2>2 DEF Taking
<1>6. ASSUME NEW w \in Workers, Worker(w)
      PROVE  Promised!Next \/ UNCHANGED <<taskQueue, shufdown, Taking>>
  BY <1>1, <1>2, <1>5, <1>6 DEF Worker, Promised!Next
<1> QED
  BY <1>3, <1>4, <1>6 DEF Next, Terminated

(* The pool implements the bounded closing queue: every step of a thread   *)
(* is a put, a taker let in, a take or the closing of TaskQueue, or leaves *)
(* it alone; so after the shutdown at most one task more is taken.         *)
THEOREM PoolImplementsTaskQueue == Spec => ImplementsTaskQueue
<1>1. Init => Promised!Init
  <2> SUFFICES ASSUME Init PROVE Promised!Init
    OBVIOUS
  <2>1. Taking = FALSE
    BY DEF Init, LetIn, Taking
  <2>2. taskQueue = <<>> /\ shufdown = FALSE
    BY DEF Init
  <2> QED
    BY <2>1, <2>2, Zenon DEF Promised!Init
<1>2. TypeOK /\ PoolInv /\ [Next]_vars => [Promised!Next]_<<taskQueue, shufdown, Taking>>
  BY StepImplements
<1> QED
  BY <1>1, <1>2, PoolInvCorrect, PTL DEF Spec, ImplementsTaskQueue
=============================================================================
