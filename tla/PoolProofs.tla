------------------------------ MODULE PoolProofs ------------------------------
(***************************************************************************)
(* The safety of ThreadPool, for any number of workers, clients and tasks  *)
(* and any bound of the queue: its invariants, and that it implements the  *)
(* safety part of module TaskQueue.                                        *)
(*                                                                         *)
(* The inductive invariant says who holds the lock and where in the code,  *)
(* that the flag goes with the destructor's progress, and that each task   *)
(* is in exactly the place its state names: with a client, in the queue,   *)
(* or with a worker.                                                       *)
(***************************************************************************)
EXTENDS ThreadPool, FiniteSetTheorems, TLAPS

\* Who is between taking m_lock and giving it back holds it.
Holders ==
    /\ \A w \in Worker : wpc[w] \in {"look", "unlock"} => m_lock = w
    /\ \A c \in Client : cpc[c] \in {"look", "notify", "unlock"} => m_lock = c
    /\ opc = "locked" => m_lock = Owner

\* The flag is cleared by the destructor, when no client is inside; a worker
\* leaves when there is nothing to do and the flag is cleared.
Flag ==
    /\ run_flag <=> opc \in {"using", "locked"}
    /\ \A c \in Client : cpc[c] # "out" => opc = "using" /\ arg[c] \in Task
    /\ \A w \in Worker : wpc[w] = "exit" => ~run_flag /\ m_tasks = << >>
    /\ opc = "gone" => \A w \in Worker : wpc[w] = "exit"

InQueue(t) == \E i \in 1 .. Len(m_tasks) : m_tasks[i] = t
Runs(w) == wpc[w] \in {"unlock", "run"}

\* A task is where its state says, and only there.
Placed ==
    /\ \A t \in Task : state[t] = "waiting" <=> InQueue(t)
    /\ \A i, j \in 1 .. Len(m_tasks) : m_tasks[i] = m_tasks[j] => i = j
    /\ \A t \in Task : state[t] = "begun" => \E w \in Worker : Runs(w) /\ job[w] = t
    /\ \A w \in Worker : Runs(w) => job[w] \in Task /\ state[job[w]] = "begun"
    /\ \A w, v \in Worker : Runs(w) /\ Runs(v) /\ job[w] = job[v] => w = v
    /\ \A c \in Client : cpc[c] \in {"lock", "look"} => state[arg[c]] = "new"
    /\ \A c \in Client : cpc[c] = "out" => arg[c] = NoTask
    /\ \A c, d \in Client : arg[c] # NoTask /\ arg[c] = arg[d] => c = d

PoolInv ==
    /\ TypeOK /\ Holders /\ Flag /\ Placed /\ NobodyOversleeps /\ NobodyLeftWaiting

-----------------------------------------------------------------------------
\* Types are kept.
LEMMA TypeStep ==
    ASSUME TypeOK, Flag, [Next]_vars
    PROVE  TypeOK'
<1> USE PoolAssumption
<1>1. ASSUME NEW w \in Worker, Loop(w) PROVE TypeOK'
  BY <1>1 DEF Loop, workerVars, clientVars, TypeOK, WorkerPc, TaskState, Thread, Flag
<1>2. ASSUME NEW w \in Worker, WorkerLock(w) PROVE TypeOK'
  BY <1>2 DEF WorkerLock, Lock, workerVars, clientVars, TypeOK, WorkerPc, TaskState, Thread, Flag
<1>3. ASSUME NEW w \in Worker, Wait(w) PROVE TypeOK'
  BY <1>3 DEF Wait, Unlock, workerVars, clientVars, TypeOK, WorkerPc, TaskState, Thread, Flag
<1>4. ASSUME NEW w \in Worker, Exit(w) PROVE TypeOK'
  BY <1>4 DEF Exit, Unlock, workerVars, clientVars, TypeOK, WorkerPc, TaskState, Thread, Flag
<1>5. ASSUME NEW w \in Worker, Take(w) PROVE TypeOK'
  BY <1>5 DEF Take, workerVars, clientVars, TypeOK, WorkerPc, TaskState, Thread, Flag
<1>6. ASSUME NEW w \in Worker, WorkerUnlock(w) PROVE TypeOK'
  BY <1>6 DEF WorkerUnlock, Unlock, workerVars, clientVars, TypeOK, WorkerPc, TaskState, Thread, Flag
<1>7. ASSUME NEW w \in Worker, Run(w) PROVE TypeOK'
  BY <1>7 DEF Run, workerVars, clientVars, TypeOK, WorkerPc, TaskState, Thread, Flag
<1>8. ASSUME NEW w \in Worker, SpuriousWakeup(w) PROVE TypeOK'
  BY <1>8 DEF SpuriousWakeup, workerVars, clientVars, TypeOK, WorkerPc, TaskState, Thread, Flag
<1>9. ASSUME NEW c \in Client, NEW t \in Task, AssignTask(c, t) PROVE TypeOK'
  BY <1>9 DEF AssignTask, workerVars, clientVars, TypeOK, WorkerPc, TaskState, Thread, Flag
<1>10. ASSUME NEW c \in Client, ClientLock(c) PROVE TypeOK'
  BY <1>10 DEF ClientLock, Lock, workerVars, clientVars, TypeOK, WorkerPc, TaskState, Thread, Flag
<1>11. ASSUME NEW c \in Client, Push(c) PROVE TypeOK'
  BY <1>11 DEF Push, workerVars, clientVars, TypeOK, WorkerPc, TaskState, Thread, Flag
<1>12. ASSUME NEW c \in Client, Reject(c) PROVE TypeOK'
  BY <1>12 DEF Reject, workerVars, clientVars, TypeOK, WorkerPc, TaskState, Thread, Flag
<1>13. ASSUME NEW c \in Client, NotifyOne(c) PROVE TypeOK'
  BY <1>13 DEF NotifyOne, workerVars, clientVars, TypeOK, WorkerPc, TaskState, Thread, Flag
<1>14. ASSUME NEW c \in Client, ClientUnlock(c) PROVE TypeOK'
  BY <1>14 DEF ClientUnlock, Unlock, workerVars, clientVars, TypeOK, WorkerPc, TaskState, Thread, Flag
<1>15. CASE Destroy
  BY <1>15 DEF Destroy, Lock, workerVars, clientVars, TypeOK, WorkerPc, TaskState, Thread, Flag
<1>16. CASE ClearFlag
  BY <1>16 DEF ClearFlag, Unlock, workerVars, clientVars, TypeOK, WorkerPc, TaskState, Thread, Flag
<1>17. CASE NotifyAll
  BY <1>17 DEF NotifyAll, workerVars, clientVars, TypeOK, WorkerPc, TaskState, Thread, Flag
<1>18. CASE Joined
  BY <1>18 DEF Joined, workerVars, clientVars, TypeOK, WorkerPc, TaskState, Thread, Flag
<1>19. CASE UNCHANGED vars
  BY <1>19 DEF vars, workerVars, clientVars, TypeOK, WorkerPc, TaskState, Thread, Flag
<1>20. QED BY <1>1, <1>2, <1>3, <1>4, <1>5, <1>6, <1>7, <1>8, <1>9, <1>10, <1>11, <1>12, <1>13, <1>14, <1>15, <1>16, <1>17, <1>18, <1>19 DEF Next, WorkerStep, ClientStep, OwnerStep

\* Nobody enters the critical section while somebody else is in it.
LEMMA HoldersStep ==
    ASSUME TypeOK, Holders, Flag, [Next]_vars
    PROVE  Holders'
<1> USE PoolAssumption
<1>1. ASSUME NEW w \in Worker, Loop(w) PROVE Holders'
  BY <1>1 DEF Loop, workerVars, clientVars, TypeOK, WorkerPc, TaskState, Thread, Holders
<1>2. ASSUME NEW w \in Worker, WorkerLock(w) PROVE Holders'
  BY <1>2 DEF WorkerLock, Lock, workerVars, clientVars, TypeOK, WorkerPc, TaskState, Thread, Holders
<1>3. ASSUME NEW w \in Worker, Wait(w) PROVE Holders'
  BY <1>3 DEF Wait, Unlock, workerVars, clientVars, TypeOK, WorkerPc, TaskState, Thread, Holders
<1>4. ASSUME NEW w \in Worker, Exit(w) PROVE Holders'
  BY <1>4 DEF Exit, Unlock, workerVars, clientVars, TypeOK, WorkerPc, TaskState, Thread, Holders
<1>5. ASSUME NEW w \in Worker, Take(w) PROVE Holders'
  BY <1>5 DEF Take, workerVars, clientVars, TypeOK, WorkerPc, TaskState, Thread, Holders
<1>6. ASSUME NEW w \in Worker, WorkerUnlock(w) PROVE Holders'
  BY <1>6 DEF WorkerUnlock, Unlock, workerVars, clientVars, TypeOK, WorkerPc, TaskState, Thread, Holders
<1>7. ASSUME NEW w \in Worker, Run(w) PROVE Holders'
  BY <1>7 DEF Run, workerVars, clientVars, TypeOK, WorkerPc, TaskState, Thread, Holders
<1>8. ASSUME NEW w \in Worker, SpuriousWakeup(w) PROVE Holders'
  BY <1>8 DEF SpuriousWakeup, workerVars, clientVars, TypeOK, WorkerPc, TaskState, Thread, Holders
<1>9. ASSUME NEW c \in Client, NEW t \in Task, AssignTask(c, t) PROVE Holders'
  BY <1>9 DEF AssignTask, workerVars, clientVars, TypeOK, WorkerPc, TaskState, Thread, Holders
<1>10. ASSUME NEW c \in Client, ClientLock(c) PROVE Holders'
  BY <1>10 DEF ClientLock, Lock, workerVars, clientVars, TypeOK, WorkerPc, TaskState, Thread, Holders
<1>11. ASSUME NEW c \in Client, Push(c) PROVE Holders'
  BY <1>11 DEF Push, workerVars, clientVars, TypeOK, WorkerPc, TaskState, Thread, Holders
<1>12. ASSUME NEW c \in Client, Reject(c) PROVE Holders'
  BY <1>12 DEF Reject, workerVars, clientVars, TypeOK, WorkerPc, TaskState, Thread, Holders
<1>13. ASSUME NEW c \in Client, NotifyOne(c) PROVE Holders'
  BY <1>13 DEF NotifyOne, workerVars, clientVars, TypeOK, WorkerPc, TaskState, Thread, Holders
<1>14. ASSUME NEW c \in Client, ClientUnlock(c) PROVE Holders'
  BY <1>14 DEF ClientUnlock, Unlock, workerVars, clientVars, TypeOK, WorkerPc, TaskState, Thread, Holders
<1>15. CASE Destroy
  BY <1>15 DEF Destroy, Lock, workerVars, clientVars, TypeOK, WorkerPc, TaskState, Thread, Holders
<1>16. CASE ClearFlag
  BY <1>16 DEF ClearFlag, Unlock, workerVars, clientVars, TypeOK, WorkerPc, TaskState, Thread, Holders
<1>17. CASE NotifyAll
  BY <1>17 DEF NotifyAll, workerVars, clientVars, TypeOK, WorkerPc, TaskState, Thread, Holders
<1>18. CASE Joined
  BY <1>18 DEF Joined, workerVars, clientVars, TypeOK, WorkerPc, TaskState, Thread, Holders
<1>19. CASE UNCHANGED vars
  BY <1>19 DEF vars, workerVars, clientVars, TypeOK, WorkerPc, TaskState, Thread, Holders
<1>20. QED BY <1>1, <1>2, <1>3, <1>4, <1>5, <1>6, <1>7, <1>8, <1>9, <1>10, <1>11, <1>12, <1>13, <1>14, <1>15, <1>16, <1>17, <1>18, <1>19 DEF Next, WorkerStep, ClientStep, OwnerStep

\* The flag, the clients and the workers that have left.
LEMMA FlagStep ==
    ASSUME TypeOK, Holders, Flag, [Next]_vars
    PROVE  Flag'
<1> USE PoolAssumption
<1>1. ASSUME NEW w \in Worker, Loop(w) PROVE Flag'
  BY <1>1 DEF Loop, workerVars, clientVars, TypeOK, WorkerPc, TaskState, Thread, Holders, Flag
<1>2. ASSUME NEW w \in Worker, WorkerLock(w) PROVE Flag'
  BY <1>2 DEF WorkerLock, Lock, workerVars, clientVars, TypeOK, WorkerPc, TaskState, Thread, Holders, Flag
<1>3. ASSUME NEW w \in Worker, Wait(w) PROVE Flag'
  BY <1>3 DEF Wait, Unlock, workerVars, clientVars, TypeOK, WorkerPc, TaskState, Thread, Holders, Flag
<1>4. ASSUME NEW w \in Worker, Exit(w) PROVE Flag'
  BY <1>4 DEF Exit, Unlock, workerVars, clientVars, TypeOK, WorkerPc, TaskState, Thread, Holders, Flag
<1>5. ASSUME NEW w \in Worker, Take(w) PROVE Flag'
  BY <1>5 DEF Take, workerVars, clientVars, TypeOK, WorkerPc, TaskState, Thread, Holders, Flag
<1>6. ASSUME NEW w \in Worker, WorkerUnlock(w) PROVE Flag'
  BY <1>6 DEF WorkerUnlock, Unlock, workerVars, clientVars, TypeOK, WorkerPc, TaskState, Thread, Holders, Flag
<1>7. ASSUME NEW w \in Worker, Run(w) PROVE Flag'
  BY <1>7 DEF Run, workerVars, clientVars, TypeOK, WorkerPc, TaskState, Thread, Holders, Flag
<1>8. ASSUME NEW w \in Worker, SpuriousWakeup(w) PROVE Flag'
  BY <1>8 DEF SpuriousWakeup, workerVars, clientVars, TypeOK, WorkerPc, TaskState, Thread, Holders, Flag
<1>9. ASSUME NEW c \in Client, NEW t \in Task, AssignTask(c, t) PROVE Flag'
  BY <1>9 DEF AssignTask, workerVars, clientVars, TypeOK, WorkerPc, TaskState, Thread, Holders, Flag
<1>10. ASSUME NEW c \in Client, ClientLock(c) PROVE Flag'
  BY <1>10 DEF ClientLock, Lock, workerVars, clientVars, TypeOK, WorkerPc, TaskState, Thread, Holders, Flag
<1>11. ASSUME NEW c \in Client, Push(c) PROVE Flag'
  BY <1>11 DEF Push, workerVars, clientVars, TypeOK, WorkerPc, TaskState, Thread, Holders, Flag
<1>12. ASSUME NEW c \in Client, Reject(c) PROVE Flag'
  BY <1>12 DEF Reject, workerVars, clientVars, TypeOK, WorkerPc, TaskState, Thread, Holders, Flag
<1>13. ASSUME NEW c \in Client, NotifyOne(c) PROVE Flag'
  BY <1>13 DEF NotifyOne, workerVars, clientVars, TypeOK, WorkerPc, TaskState, Thread, Holders, Flag
<1>14. ASSUME NEW c \in Client, ClientUnlock(c) PROVE Flag'
  BY <1>14 DEF ClientUnlock, Unlock, workerVars, clientVars, TypeOK, WorkerPc, TaskState, Thread, Holders, Flag
<1>15. CASE Destroy
  BY <1>15 DEF Destroy, Lock, workerVars, clientVars, TypeOK, WorkerPc, TaskState, Thread, Holders, Flag
<1>16. CASE ClearFlag
  BY <1>16 DEF ClearFlag, Unlock, workerVars, clientVars, TypeOK, WorkerPc, TaskState, Thread, Holders, Flag
<1>17. CASE NotifyAll
  BY <1>17 DEF NotifyAll, workerVars, clientVars, TypeOK, WorkerPc, TaskState, Thread, Holders, Flag
<1>18. CASE Joined
  BY <1>18 DEF Joined, workerVars, clientVars, TypeOK, WorkerPc, TaskState, Thread, Holders, Flag
<1>19. CASE UNCHANGED vars
  BY <1>19 DEF vars, workerVars, clientVars, TypeOK, WorkerPc, TaskState, Thread, Holders, Flag
<1>20. QED BY <1>1, <1>2, <1>3, <1>4, <1>5, <1>6, <1>7, <1>8, <1>9, <1>10, <1>11, <1>12, <1>13, <1>14, <1>15, <1>16, <1>17, <1>18, <1>19 DEF Next, WorkerStep, ClientStep, OwnerStep

\* Who puts a task into the queue notifies before anything else can be said.
LEMMA OversleepStep ==
    ASSUME TypeOK, Flag, NobodyOversleeps, [Next]_vars
    PROVE  NobodyOversleeps'
<1> USE PoolAssumption
<1>1. ASSUME NEW w \in Worker, Loop(w) PROVE NobodyOversleeps'
  BY <1>1 DEF Loop, workerVars, clientVars, TypeOK, WorkerPc, TaskState, Thread, Flag, NobodyOversleeps
<1>2. ASSUME NEW w \in Worker, WorkerLock(w) PROVE NobodyOversleeps'
  BY <1>2 DEF WorkerLock, Lock, workerVars, clientVars, TypeOK, WorkerPc, TaskState, Thread, Flag, NobodyOversleeps
<1>3. ASSUME NEW w \in Worker, Wait(w) PROVE NobodyOversleeps'
  BY <1>3 DEF Wait, Unlock, workerVars, clientVars, TypeOK, WorkerPc, TaskState, Thread, Flag, NobodyOversleeps
<1>4. ASSUME NEW w \in Worker, Exit(w) PROVE NobodyOversleeps'
  BY <1>4 DEF Exit, Unlock, workerVars, clientVars, TypeOK, WorkerPc, TaskState, Thread, Flag, NobodyOversleeps
<1>5. ASSUME NEW w \in Worker, Take(w) PROVE NobodyOversleeps'
  BY <1>5 DEF Take, workerVars, clientVars, TypeOK, WorkerPc, TaskState, Thread, Flag, NobodyOversleeps
<1>6. ASSUME NEW w \in Worker, WorkerUnlock(w) PROVE NobodyOversleeps'
  BY <1>6 DEF WorkerUnlock, Unlock, workerVars, clientVars, TypeOK, WorkerPc, TaskState, Thread, Flag, NobodyOversleeps
<1>7. ASSUME NEW w \in Worker, Run(w) PROVE NobodyOversleeps'
  BY <1>7 DEF Run, workerVars, clientVars, TypeOK, WorkerPc, TaskState, Thread, Flag, NobodyOversleeps
<1>8. ASSUME NEW w \in Worker, SpuriousWakeup(w) PROVE NobodyOversleeps'
  BY <1>8 DEF SpuriousWakeup, workerVars, clientVars, TypeOK, WorkerPc, TaskState, Thread, Flag, NobodyOversleeps
<1>9. ASSUME NEW c \in Client, NEW t \in Task, AssignTask(c, t) PROVE NobodyOversleeps'
  BY <1>9 DEF AssignTask, workerVars, clientVars, TypeOK, WorkerPc, TaskState, Thread, Flag, NobodyOversleeps
<1>10. ASSUME NEW c \in Client, ClientLock(c) PROVE NobodyOversleeps'
  BY <1>10 DEF ClientLock, Lock, workerVars, clientVars, TypeOK, WorkerPc, TaskState, Thread, Flag, NobodyOversleeps
<1>11. ASSUME NEW c \in Client, Push(c) PROVE NobodyOversleeps'
  BY <1>11 DEF Push, workerVars, clientVars, TypeOK, WorkerPc, TaskState, Thread, Flag, NobodyOversleeps
<1>12. ASSUME NEW c \in Client, Reject(c) PROVE NobodyOversleeps'
  BY <1>12 DEF Reject, workerVars, clientVars, TypeOK, WorkerPc, TaskState, Thread, Flag, NobodyOversleeps
<1>13. ASSUME NEW c \in Client, NotifyOne(c) PROVE NobodyOversleeps'
  BY <1>13 DEF NotifyOne, workerVars, clientVars, TypeOK, WorkerPc, TaskState, Thread, Flag, NobodyOversleeps
<1>14. ASSUME NEW c \in Client, ClientUnlock(c) PROVE NobodyOversleeps'
  BY <1>14 DEF ClientUnlock, Unlock, workerVars, clientVars, TypeOK, WorkerPc, TaskState, Thread, Flag, NobodyOversleeps
<1>15. CASE Destroy
  BY <1>15 DEF Destroy, Lock, workerVars, clientVars, TypeOK, WorkerPc, TaskState, Thread, Flag, NobodyOversleeps
<1>16. CASE ClearFlag
  BY <1>16 DEF ClearFlag, Unlock, workerVars, clientVars, TypeOK, WorkerPc, TaskState, Thread, Flag, NobodyOversleeps
<1>17. CASE NotifyAll
  BY <1>17 DEF NotifyAll, workerVars, clientVars, TypeOK, WorkerPc, TaskState, Thread, Flag, NobodyOversleeps
<1>18. CASE Joined
  BY <1>18 DEF Joined, workerVars, clientVars, TypeOK, WorkerPc, TaskState, Thread, Flag, NobodyOversleeps
<1>19. CASE UNCHANGED vars
  BY <1>19 DEF vars, workerVars, clientVars, TypeOK, WorkerPc, TaskState, Thread, Flag, NobodyOversleeps
<1>20. QED BY <1>1, <1>2, <1>3, <1>4, <1>5, <1>6, <1>7, <1>8, <1>9, <1>10, <1>11, <1>12, <1>13, <1>14, <1>15, <1>16, <1>17, <1>18, <1>19 DEF Next, WorkerStep, ClientStep, OwnerStep

\* After notify_all nobody waits: the flag is read under the lock.
LEMMA LeftStep ==
    ASSUME TypeOK, Flag, NobodyLeftWaiting, [Next]_vars
    PROVE  NobodyLeftWaiting'
<1> USE PoolAssumption
<1>1. ASSUME NEW w \in Worker, Loop(w) PROVE NobodyLeftWaiting'
  BY <1>1 DEF Loop, workerVars, clientVars, TypeOK, WorkerPc, TaskState, Thread, Flag, NobodyLeftWaiting
<1>2. ASSUME NEW w \in Worker, WorkerLock(w) PROVE NobodyLeftWaiting'
  BY <1>2 DEF WorkerLock, Lock, workerVars, clientVars, TypeOK, WorkerPc, TaskState, Thread, Flag, NobodyLeftWaiting
<1>3. ASSUME NEW w \in Worker, Wait(w) PROVE NobodyLeftWaiting'
  BY <1>3 DEF Wait, Unlock, workerVars, clientVars, TypeOK, WorkerPc, TaskState, Thread, Flag, NobodyLeftWaiting
<1>4. ASSUME NEW w \in Worker, Exit(w) PROVE NobodyLeftWaiting'
  BY <1>4 DEF Exit, Unlock, workerVars, clientVars, TypeOK, WorkerPc, TaskState, Thread, Flag, NobodyLeftWaiting
<1>5. ASSUME NEW w \in Worker, Take(w) PROVE NobodyLeftWaiting'
  BY <1>5 DEF Take, workerVars, clientVars, TypeOK, WorkerPc, TaskState, Thread, Flag, NobodyLeftWaiting
<1>6. ASSUME NEW w \in Worker, WorkerUnlock(w) PROVE NobodyLeftWaiting'
  BY <1>6 DEF WorkerUnlock, Unlock, workerVars, clientVars, TypeOK, WorkerPc, TaskState, Thread, Flag, NobodyLeftWaiting
<1>7. ASSUME NEW w \in Worker, Run(w) PROVE NobodyLeftWaiting'
  BY <1>7 DEF Run, workerVars, clientVars, TypeOK, WorkerPc, TaskState, Thread, Flag, NobodyLeftWaiting
<1>8. ASSUME NEW w \in Worker, SpuriousWakeup(w) PROVE NobodyLeftWaiting'
  BY <1>8 DEF SpuriousWakeup, workerVars, clientVars, TypeOK, WorkerPc, TaskState, Thread, Flag, NobodyLeftWaiting
<1>9. ASSUME NEW c \in Client, NEW t \in Task, AssignTask(c, t) PROVE NobodyLeftWaiting'
  BY <1>9 DEF AssignTask, workerVars, clientVars, TypeOK, WorkerPc, TaskState, Thread, Flag, NobodyLeftWaiting
<1>10. ASSUME NEW c \in Client, ClientLock(c) PROVE NobodyLeftWaiting'
  BY <1>10 DEF ClientLock, Lock, workerVars, clientVars, TypeOK, WorkerPc, TaskState, Thread, Flag, NobodyLeftWaiting
<1>11. ASSUME NEW c \in Client, Push(c) PROVE NobodyLeftWaiting'
  BY <1>11 DEF Push, workerVars, clientVars, TypeOK, WorkerPc, TaskState, Thread, Flag, NobodyLeftWaiting
<1>12. ASSUME NEW c \in Client, Reject(c) PROVE NobodyLeftWaiting'
  BY <1>12 DEF Reject, workerVars, clientVars, TypeOK, WorkerPc, TaskState, Thread, Flag, NobodyLeftWaiting
<1>13. ASSUME NEW c \in Client, NotifyOne(c) PROVE NobodyLeftWaiting'
  BY <1>13 DEF NotifyOne, workerVars, clientVars, TypeOK, WorkerPc, TaskState, Thread, Flag, NobodyLeftWaiting
<1>14. ASSUME NEW c \in Client, ClientUnlock(c) PROVE NobodyLeftWaiting'
  BY <1>14 DEF ClientUnlock, Unlock, workerVars, clientVars, TypeOK, WorkerPc, TaskState, Thread, Flag, NobodyLeftWaiting
<1>15. CASE Destroy
  BY <1>15 DEF Destroy, Lock, workerVars, clientVars, TypeOK, WorkerPc, TaskState, Thread, Flag, NobodyLeftWaiting
<1>16. CASE ClearFlag
  BY <1>16 DEF ClearFlag, Unlock, workerVars, clientVars, TypeOK, WorkerPc, TaskState, Thread, Flag, NobodyLeftWaiting
<1>17. CASE NotifyAll
  BY <1>17 DEF NotifyAll, workerVars, clientVars, TypeOK, WorkerPc, TaskState, Thread, Flag, NobodyLeftWaiting
<1>18. CASE Joined
  BY <1>18 DEF Joined, workerVars, clientVars, TypeOK, WorkerPc, TaskState, Thread, Flag, NobodyLeftWaiting
<1>19. CASE UNCHANGED vars
  BY <1>19 DEF vars, workerVars, clientVars, TypeOK, WorkerPc, TaskState, Thread, Flag, NobodyLeftWaiting
<1>20. QED BY <1>1, <1>2, <1>3, <1>4, <1>5, <1>6, <1>7, <1>8, <1>9, <1>10, <1>11, <1>12, <1>13, <1>14, <1>15, <1>16, <1>17, <1>18, <1>19 DEF Next, WorkerStep, ClientStep, OwnerStep

\* A task leaves one place and enters the next in one step.
LEMMA PlacedStep ==
    ASSUME TypeOK, Holders, Flag, Placed, [Next]_vars
    PROVE  Placed'
<1> USE PoolAssumption
<1>1. ASSUME NEW w \in Worker, Loop(w) PROVE Placed'
  BY <1>1 DEF Loop, workerVars, clientVars, TypeOK, WorkerPc, TaskState, Thread, Flag, Holders, Placed, InQueue, Runs
<1>2. ASSUME NEW w \in Worker, WorkerLock(w) PROVE Placed'
  BY <1>2 DEF WorkerLock, Lock, workerVars, clientVars, TypeOK, WorkerPc, TaskState, Thread, Flag, Holders, Placed, InQueue, Runs
<1>3. ASSUME NEW w \in Worker, Wait(w) PROVE Placed'
  BY <1>3 DEF Wait, Unlock, workerVars, clientVars, TypeOK, WorkerPc, TaskState, Thread, Flag, Holders, Placed, InQueue, Runs
<1>4. ASSUME NEW w \in Worker, Exit(w) PROVE Placed'
  BY <1>4 DEF Exit, Unlock, workerVars, clientVars, TypeOK, WorkerPc, TaskState, Thread, Flag, Holders, Placed, InQueue, Runs
<1>5. ASSUME NEW w \in Worker, Take(w) PROVE Placed'
  <2> DEFINE h == Head(m_tasks)
  <2>1. /\ h = m_tasks[1] /\ Len(m_tasks) \in Nat \ {0} /\ m_tasks \in Seq(Task)
        /\ m_tasks' = Tail(m_tasks) /\ Len(m_tasks') = Len(m_tasks) - 1
        /\ \A i \in 1 .. Len(m_tasks) - 1 : m_tasks'[i] = m_tasks[i + 1]
    BY <1>5 DEF Take, TypeOK
  <2>2. h \in Task /\ state[h] = "waiting"
    BY <2>1 DEF Placed, InQueue, TypeOK
  <2>3. \A t \in Task : InQueue(t)' <=> InQueue(t) /\ t # h
    <3>1. ASSUME NEW t \in Task, InQueue(t)' PROVE InQueue(t) /\ t # h
      <4>1. PICK i \in 1 .. Len(m_tasks) - 1 : m_tasks[i + 1] = t
        BY <3>1, <2>1 DEF InQueue
      <4>2. i + 1 \in 1 .. Len(m_tasks) /\ i + 1 # 1 /\ 1 \in 1 .. Len(m_tasks)
        BY <2>1
      <4>3. QED BY <4>1, <4>2, <2>1 DEF InQueue, Placed
    <3>2. ASSUME NEW t \in Task, InQueue(t), t # h PROVE InQueue(t)'
      <4>1. PICK i \in 1 .. Len(m_tasks) : m_tasks[i] = t
        BY <3>2 DEF InQueue
      <4>2. i # 1 /\ i - 1 \in 1 .. Len(m_tasks) - 1 /\ (i - 1) + 1 = i
        BY <4>1, <3>2, <2>1
      <4>3. m_tasks'[i - 1] = t
        BY <4>1, <4>2, <2>1
      <4>4. QED BY <4>2, <4>3, <2>1 DEF InQueue
    <3>3. QED BY <3>1, <3>2
  <2>4. \A i, j \in 1 .. Len(m_tasks') : m_tasks'[i] = m_tasks'[j] => i = j
    <3>1. ASSUME NEW i \in 1 .. Len(m_tasks'), NEW j \in 1 .. Len(m_tasks'),
                 m_tasks'[i] = m_tasks'[j]
          PROVE  i = j
      <4>1. /\ i + 1 \in 1 .. Len(m_tasks) /\ j + 1 \in 1 .. Len(m_tasks)
            /\ m_tasks[i + 1] = m_tasks[j + 1]
        BY <3>1, <2>1
      <4>2. i + 1 = j + 1
        BY <4>1 DEF Placed
      <4>3. QED BY <4>2, <3>1, <2>1
    <3>2. QED BY <3>1
  <2>5. /\ state' = [state EXCEPT ![h] = "begun"] /\ job' = [job EXCEPT ![w] = h]
        /\ wpc' = [wpc EXCEPT ![w] = "unlock"] /\ ~Runs(w)
        /\ UNCHANGED << cpc, arg >>
    BY <1>5 DEF Take, Runs, clientVars
  <2>6. \A t \in Task : state'[t] = "waiting" <=> InQueue(t)'
    BY <2>2, <2>3, <2>5 DEF Placed, TypeOK
  <2>7. \A t \in Task : state'[t] = "begun" => \E v \in Worker : Runs(v)' /\ job'[v] = t
    BY <2>2, <2>5 DEF Placed, TypeOK, Runs
  <2>8. \A v \in Worker : Runs(v)' => job'[v] \in Task /\ state'[job'[v]] = "begun"
    BY <2>2, <2>5 DEF Placed, TypeOK, Runs
  <2>9. \A u, v \in Worker : Runs(u)' /\ Runs(v)' /\ job'[u] = job'[v] => u = v
    BY <2>2, <2>5 DEF Placed, TypeOK, Runs
  <2>10. \A c \in Client : cpc'[c] \in {"lock", "look"} => state'[arg'[c]] = "new"
    BY <2>2, <2>5 DEF Placed, TypeOK, Flag
  <2>11. QED BY <2>4, <2>5, <2>6, <2>7, <2>8, <2>9, <2>10 DEF Placed
<1>6. ASSUME NEW w \in Worker, WorkerUnlock(w) PROVE Placed'
  BY <1>6 DEF WorkerUnlock, Unlock, workerVars, clientVars, TypeOK, WorkerPc, TaskState, Thread, Flag, Holders, Placed, InQueue, Runs
<1>7. ASSUME NEW w \in Worker, Run(w) PROVE Placed'
  BY <1>7 DEF Run, workerVars, clientVars, TypeOK, WorkerPc, TaskState, Thread, Flag, Holders, Placed, InQueue, Runs
<1>8. ASSUME NEW w \in Worker, SpuriousWakeup(w) PROVE Placed'
  BY <1>8 DEF SpuriousWakeup, workerVars, clientVars, TypeOK, WorkerPc, TaskState, Thread, Flag, Holders, Placed, InQueue, Runs
<1>9. ASSUME NEW c \in Client, NEW t \in Task, AssignTask(c, t) PROVE Placed'
  BY <1>9 DEF AssignTask, workerVars, clientVars, TypeOK, WorkerPc, TaskState, Thread, Flag, Holders, Placed, InQueue, Runs
<1>10. ASSUME NEW c \in Client, ClientLock(c) PROVE Placed'
  BY <1>10 DEF ClientLock, Lock, workerVars, clientVars, TypeOK, WorkerPc, TaskState, Thread, Flag, Holders, Placed, InQueue, Runs
<1>11. ASSUME NEW c \in Client, Push(c) PROVE Placed'
  BY <1>11 DEF Push, workerVars, clientVars, TypeOK, WorkerPc, TaskState, Thread, Flag, Holders, Placed, InQueue, Runs
<1>12. ASSUME NEW c \in Client, Reject(c) PROVE Placed'
  BY <1>12 DEF Reject, workerVars, clientVars, TypeOK, WorkerPc, TaskState, Thread, Flag, Holders, Placed, InQueue, Runs
<1>13. ASSUME NEW c \in Client, NotifyOne(c) PROVE Placed'
  BY <1>13 DEF NotifyOne, workerVars, clientVars, TypeOK, WorkerPc, TaskState, Thread, Flag, Holders, Placed, InQueue, Runs
<1>14. ASSUME NEW c \in Client, ClientUnlock(c) PROVE Placed'
  BY <1>14 DEF ClientUnlock, Unlock, workerVars, clientVars, TypeOK, WorkerPc, TaskState, Thread, Flag, Holders, Placed, InQueue, Runs
<1>15. CASE Destroy
  BY <1>15 DEF Destroy, Lock, workerVars, clientVars, TypeOK, WorkerPc, TaskState, Thread, Flag, Holders, Placed, InQueue, Runs
<1>16. CASE ClearFlag
  BY <1>16 DEF ClearFlag, Unlock, workerVars, clientVars, TypeOK, WorkerPc, TaskState, Thread, Flag, Holders, Placed, InQueue, Runs
<1>17. CASE NotifyAll
  BY <1>17 DEF NotifyAll, workerVars, clientVars, TypeOK, WorkerPc, TaskState, Thread, Flag, Holders, Placed, InQueue, Runs
<1>18. CASE Joined
  BY <1>18 DEF Joined, workerVars, clientVars, TypeOK, WorkerPc, TaskState, Thread, Flag, Holders, Placed, InQueue, Runs
<1>19. CASE UNCHANGED vars
  BY <1>19 DEF vars, workerVars, clientVars, TypeOK, WorkerPc, TaskState, Thread, Flag, Holders, Placed, InQueue, Runs
<1>20. QED BY <1>1, <1>2, <1>3, <1>4, <1>5, <1>6, <1>7, <1>8, <1>9, <1>10, <1>11, <1>12, <1>13, <1>14, <1>15, <1>16, <1>17, <1>18, <1>19 DEF Next, WorkerStep, ClientStep, OwnerStep

-----------------------------------------------------------------------------
LEMMA PoolInit == Init => PoolInv
  BY PoolAssumption DEF Init, PoolInv, TypeOK, WorkerPc, TaskState, Thread, Holders, Flag,
     Placed, InQueue, Runs, NobodyOversleeps, NobodyLeftWaiting

LEMMA PoolStep == PoolInv /\ [Next]_vars => PoolInv'
  BY TypeStep, HoldersStep, FlagStep, PlacedStep, OversleepStep, LeftStep DEF PoolInv

LEMMA PoolInvariant == Spec => []PoolInv
  BY PoolInit, PoolStep, PTL DEF Spec

\* Every variable of the pool holds a value of its type, the queue at most
\* max_tasks tasks, for any number of threads and tasks ("assign_task").
THEOREM PoolTypeCorrect == Spec => []TypeOK
<1>1. PoolInv => TypeOK
  BY DEF PoolInv
<1>2. QED BY <1>1, PoolInvariant, PTL

\* No wakeup is lost ("assign_task": notify_one under the lock, and the while
\* around wait).
THEOREM NoLostWakeup == Spec => []NobodyOversleeps
<1>1. PoolInv => NobodyOversleeps
  BY DEF PoolInv
<1>2. QED BY <1>1, PoolInvariant, PTL

\* After the destructor's notify_all no worker waits again.
THEOREM NobodyWaitsOn == Spec => []NobodyLeftWaiting
<1>1. PoolInv => NobodyLeftWaiting
  BY DEF PoolInv
<1>2. QED BY <1>1, PoolInvariant, PTL

\* All workers have left, so nothing is in the queue or under way.
LEMMA AllLeft ==
    ASSUME PoolInv, \A w \in Worker : wpc[w] = "exit"
    PROVE  /\ m_tasks = << >>
           /\ \A t \in Task : state[t] \notin {"waiting", "begun"}
<1>1. m_tasks = << >>
  BY PoolAssumption DEF PoolInv, Flag
<1>2. QED BY <1>1 DEF PoolInv, Placed, InQueue, Runs

\* When the pool is gone every task it has accepted has ended.
THEOREM PoolDrains == Spec => []DrainedWhenGone
<1>1. PoolInv => DrainedWhenGone
  BY AllLeft DEF PoolInv, Flag, DrainedWhenGone
<1>2. QED BY <1>1, PoolInvariant, PTL

-----------------------------------------------------------------------------
\* A worker that is at the queue has no task: there is a slot for one more.
LEMMA FreeSlot ==
    ASSUME PoolInv, NEW w \in Worker, wpc[w] = "look"
    PROVE  Queue!Cardinality(Queue!Begun) < Cardinality(Worker)
<1> DEFINE Others == Worker \ {w}
           Jobs == { job[v] : v \in Others }
<1>1. IsFiniteSet(Others) /\ Cardinality(Others) = Cardinality(Worker) - 1
  BY PoolAssumption, FS_RemoveElement
<1>2. [v \in Others |-> job[v]] \in Surjection(Others, Jobs)
  BY DEF Surjection
<1>3. IsFiniteSet(Jobs) /\ Cardinality(Jobs) <= Cardinality(Others)
  BY <1>1, <1>2, FS_Surjection
<1>4. Queue!Begun \subseteq Jobs
  BY DEF PoolInv, Placed, Runs, Queue!Begun
<1>5. /\ IsFiniteSet(Queue!Begun) /\ Cardinality(Queue!Begun) <= Cardinality(Jobs)
      /\ Cardinality(Queue!Begun) \in Nat /\ Cardinality(Jobs) \in Nat
      /\ Cardinality(Others) \in Nat /\ Cardinality(Worker) \in Nat
  BY <1>1, <1>3, <1>4, FS_Subset, FS_CardinalityType, PoolAssumption
<1>6. Queue!Cardinality(Queue!Begun) = Cardinality(Queue!Begun)
  BY DEF Queue!Cardinality, Cardinality
<1>7. QED BY <1>1, <1>3, <1>5, <1>6

\* Every step of a thread of the pool is a step of the queue, or none.
LEMMA QueueStep ==
    ASSUME PoolInv, [Next]_vars
    PROVE  [Queue!Next]_(Queue!queueVars)
<1>1. ASSUME NEW w \in Worker, Loop(w) PROVE [Queue!Next]_(Queue!queueVars)
  BY <1>1 DEF Loop, workerVars, clientVars, Queue!queueVars
<1>2. ASSUME NEW w \in Worker, WorkerLock(w) PROVE [Queue!Next]_(Queue!queueVars)
  BY <1>2 DEF WorkerLock, Lock, workerVars, clientVars, Queue!queueVars
<1>3. ASSUME NEW w \in Worker, Wait(w) PROVE [Queue!Next]_(Queue!queueVars)
  BY <1>3 DEF Wait, Unlock, workerVars, clientVars, Queue!queueVars
<1>4. ASSUME NEW w \in Worker, Exit(w) PROVE [Queue!Next]_(Queue!queueVars)
  BY <1>4 DEF Exit, Unlock, workerVars, clientVars, Queue!queueVars
<1>5. ASSUME NEW w \in Worker, Take(w) PROVE [Queue!Next]_(Queue!queueVars)
  <2>1. Queue!Cardinality(Queue!Begun) < Cardinality(Worker)
    BY <1>5, FreeSlot DEF Take
  <2>2. Queue!Begin
    BY <1>5, <2>1 DEF Take, Queue!Begin
  <2>3. QED BY <2>2 DEF Queue!Next
<1>6. ASSUME NEW w \in Worker, WorkerUnlock(w) PROVE [Queue!Next]_(Queue!queueVars)
  BY <1>6 DEF WorkerUnlock, Unlock, workerVars, clientVars, Queue!queueVars
<1>7. ASSUME NEW w \in Worker, Run(w) PROVE [Queue!Next]_(Queue!queueVars)
  <2>1. job[w] \in Task /\ state[job[w]] = "begun"
    BY <1>7 DEF Run, PoolInv, Placed, Runs
  <2>2. Queue!End(job[w])
    BY <1>7, <2>1 DEF Run, clientVars, Queue!End
  <2>3. QED BY <2>1, <2>2 DEF Queue!Next
<1>8. ASSUME NEW w \in Worker, SpuriousWakeup(w) PROVE [Queue!Next]_(Queue!queueVars)
  BY <1>8 DEF SpuriousWakeup, workerVars, clientVars, Queue!queueVars
<1>9. ASSUME NEW c \in Client, NEW t \in Task, AssignTask(c, t) PROVE [Queue!Next]_(Queue!queueVars)
  BY <1>9 DEF AssignTask, workerVars, clientVars, Queue!queueVars
<1>10. ASSUME NEW c \in Client, ClientLock(c) PROVE [Queue!Next]_(Queue!queueVars)
  BY <1>10 DEF ClientLock, Lock, workerVars, clientVars, Queue!queueVars
<1>11. ASSUME NEW c \in Client, Push(c) PROVE [Queue!Next]_(Queue!queueVars)
  <2>1. arg[c] \in Task /\ state[arg[c]] = "new" /\ opc = "using"
    BY <1>11 DEF Push, PoolInv, Placed, Flag
  <2>2. Queue!Accept(arg[c])
    BY <1>11, <2>1 DEF Push, Queue!Accept
  <2>3. QED BY <2>1, <2>2 DEF Queue!Next
<1>12. ASSUME NEW c \in Client, Reject(c) PROVE [Queue!Next]_(Queue!queueVars)
  <2>1. arg[c] \in Task /\ state[arg[c]] = "new" /\ opc = "using"
    BY <1>12 DEF Reject, PoolInv, Placed, Flag
  <2>2. Len(m_tasks) = MaxTasks
    BY <1>12, PoolAssumption DEF Reject, PoolInv, TypeOK
  <2>3. Queue!Refuse(arg[c])
    BY <1>12, <2>1, <2>2 DEF Reject, Queue!Refuse
  <2>4. QED BY <2>1, <2>3 DEF Queue!Next
<1>13. ASSUME NEW c \in Client, NotifyOne(c) PROVE [Queue!Next]_(Queue!queueVars)
  BY <1>13 DEF NotifyOne, workerVars, clientVars, Queue!queueVars
<1>14. ASSUME NEW c \in Client, ClientUnlock(c) PROVE [Queue!Next]_(Queue!queueVars)
  BY <1>14 DEF ClientUnlock, Unlock, workerVars, clientVars, Queue!queueVars
<1>15. CASE Destroy
  BY <1>15 DEF Destroy, Lock, workerVars, clientVars, Queue!queueVars
<1>16. CASE ClearFlag
  BY <1>16 DEF ClearFlag, Unlock, workerVars, clientVars, Queue!queueVars
<1>17. CASE NotifyAll
  BY <1>17 DEF NotifyAll, workerVars, clientVars, Queue!queueVars
<1>18. CASE Joined
  <2>1. m_tasks = << >> /\ Queue!Begun = {}
    BY <1>18, AllLeft DEF Joined, Queue!Begun
  <2>2. Queue!Close
    BY <1>18, <2>1 DEF Joined, Queue!Close
  <2>3. QED BY <2>2 DEF Queue!Next
<1>19. CASE UNCHANGED vars
  BY <1>19 DEF vars, workerVars, clientVars, Queue!queueVars
<1>20. QED BY <1>1, <1>2, <1>3, <1>4, <1>5, <1>6, <1>7, <1>8, <1>9, <1>10, <1>11, <1>12, <1>13, <1>14, <1>15, <1>16, <1>17, <1>18, <1>19 DEF Next, WorkerStep, ClientStep, OwnerStep

\* The pool is a bounded queue: its initial state is one of TaskQueue, and every
\* step a step of TaskQueue or a stutter (the safety part of ImplementsTaskQueue).
THEOREM PoolIsQueue == Spec => Queue!Init /\ [][Queue!Next]_(Queue!queueVars)
<1>1. Init => Queue!Init
  BY DEF Init, Queue!Init
<1>2. PoolInv /\ [Next]_vars => [Queue!Next]_(Queue!queueVars)
  BY QueueStep
<1>3. QED BY <1>1, <1>2, PoolInvariant, PTL DEF Spec
=============================================================================
