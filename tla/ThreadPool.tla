------------------------------ MODULE ThreadPool ------------------------------
(***************************************************************************)
(* util/threadpool.cpp: workers that wait on a condition variable for tasks *)
(* in a bounded queue, clients that assign tasks, and the destructor.      *)
(*                                                                         *)
(* A step is what a thread does between two events another thread can see: *)
(* taking and giving back m_lock, the accesses under it, waiting, being    *)
(* woken, and the one access to the queue that is NOT under the lock, the  *)
(* condition of the worker's outer loop.  A task is any function that      *)
(* returns; the pool is not destroyed while a client is inside assign_task. *)
(***************************************************************************)
EXTENDS Naturals, Sequences, FiniteSets

CONSTANTS
    Worker,    \* threads
    Client,    \* threads that call assign_task
    Owner,     \* the thread that destroys the pool
    Task,      \* the calls of assign_task in a behaviour (BOUND)
    MaxTasks,  \* max_tasks
    Nobody,    \* no thread
    NoTask

ASSUME PoolAssumption ==
    /\ IsFiniteSet(Worker) /\ Worker # {}
    /\ IsFiniteSet(Task) /\ NoTask \notin Task
    /\ MaxTasks \in Nat
    /\ Owner \notin Worker \cup Client /\ Worker \cap Client = {}
    /\ Nobody \notin Worker \cup Client \cup {Owner}

VARIABLES
    m_tasks,  \* m_tasks
    run_flag, \* run_flag
    m_lock,   \* the thread that holds m_lock
    wpc,      \* worker -> where it is in run_task
    job,      \* worker -> its local variable task
    cpc,      \* client -> where it is in assign_task
    arg,      \* client -> the argument of assign_task
    opc,      \* the owner: using the pool, or where it is in the destructor
    state     \* task -> what has become of it

workerVars == << wpc, job >>
clientVars == << cpc, arg >>
vars == << m_tasks, run_flag, m_lock, workerVars, clientVars, opc, state >>

Thread == Worker \cup Client \cup {Owner}

Init ==
    /\ m_tasks = << >> /\ run_flag = TRUE /\ m_lock = Nobody
    /\ wpc = [w \in Worker |-> "loop"]
    /\ job = [w \in Worker |-> NoTask]
    /\ cpc = [c \in Client |-> "out"]
    /\ arg = [c \in Client |-> NoTask]
    /\ opc = "using"
    /\ state = [t \in Task |-> "new"]

Lock(x) == m_lock = Nobody /\ m_lock' = x
Unlock(x) == m_lock = x /\ m_lock' = Nobody

-----------------------------------------------------------------------------
(***************************************************************************)
(* run_task.                                                               *)
(***************************************************************************)

\* The condition of the outer loop, read without the lock.
Loop(w) ==
    /\ wpc[w] = "loop"
    /\ wpc' = [wpc EXCEPT ![w] =
                 IF run_flag \/ m_tasks # << >> THEN "lock" ELSE "exit"]
    /\ UNCHANGED << m_tasks, run_flag, m_lock, job, clientVars, opc, state >>

\* unique_lock, and taking the lock again on the way out of wait.
WorkerLock(w) ==
    /\ wpc[w] \in {"lock", "woken"} /\ Lock(w)
    /\ wpc' = [wpc EXCEPT ![w] = "look"]
    /\ UNCHANGED << m_tasks, run_flag, job, clientVars, opc, state >>

\* FAULT: the flag is not looked at before waiting.
WaitBlindly(w) ==
    /\ wpc[w] = "look" /\ m_tasks = << >> /\ Unlock(w)
    /\ wpc' = [wpc EXCEPT ![w] = "wait"]
    /\ UNCHANGED << m_tasks, run_flag, job, clientVars, opc, state >>

\* No task yet: has_task.wait gives the lock back and sleeps, in one step.
Wait(w) ==
    /\ wpc[w] = "look" /\ m_tasks = << >> /\ run_flag /\ Unlock(w)
    /\ wpc' = [wpc EXCEPT ![w] = "wait"]
    /\ UNCHANGED << m_tasks, run_flag, job, clientVars, opc, state >>

\* FAULT: what is left in the queue is not looked at.
ExitWithWork(w) ==
    /\ wpc[w] = "look" /\ ~run_flag /\ Unlock(w)
    /\ wpc' = [wpc EXCEPT ![w] = "exit"]
    /\ UNCHANGED << m_tasks, run_flag, job, clientVars, opc, state >>

\* No task and no more to come: the thread returns, and gives the lock back.
Exit(w) ==
    /\ wpc[w] = "look" /\ m_tasks = << >> /\ ~run_flag /\ Unlock(w)
    /\ wpc' = [wpc EXCEPT ![w] = "exit"]
    /\ UNCHANGED << m_tasks, run_flag, job, clientVars, opc, state >>

\* FAULT: the latest task first.
TakeLatest(w) ==
    LET n == Len(m_tasks)
    IN  /\ wpc[w] = "look" /\ m_tasks # << >>
        /\ job' = [job EXCEPT ![w] = m_tasks[n]]
        /\ m_tasks' = SubSeq(m_tasks, 1, n - 1)
        /\ state' = [state EXCEPT ![m_tasks[n]] = "begun"]
        /\ wpc' = [wpc EXCEPT ![w] = "unlock"]
        /\ UNCHANGED << run_flag, m_lock, clientVars, opc >>

Take(w) ==
    /\ wpc[w] = "look" /\ m_tasks # << >>
    /\ job' = [job EXCEPT ![w] = Head(m_tasks)]
    /\ m_tasks' = Tail(m_tasks)
    /\ state' = [state EXCEPT ![Head(m_tasks)] = "begun"]
    /\ wpc' = [wpc EXCEPT ![w] = "unlock"]
    /\ UNCHANGED << run_flag, m_lock, clientVars, opc >>

WorkerUnlock(w) ==
    /\ wpc[w] = "unlock" /\ Unlock(w)
    /\ wpc' = [wpc EXCEPT ![w] = "run"]
    /\ UNCHANGED << m_tasks, run_flag, job, clientVars, opc, state >>

\* task() returns.
Run(w) ==
    /\ wpc[w] = "run"
    /\ state' = [state EXCEPT ![job[w]] = "ended"]
    /\ job' = [job EXCEPT ![w] = NoTask]
    /\ wpc' = [wpc EXCEPT ![w] = "loop"]
    /\ UNCHANGED << m_tasks, run_flag, m_lock, clientVars, opc >>

\* wait may return without a notification.
SpuriousWakeup(w) ==
    /\ wpc[w] = "wait"
    /\ wpc' = [wpc EXCEPT ![w] = "woken"]
    /\ UNCHANGED << m_tasks, run_flag, m_lock, job, clientVars, opc, state >>

WorkerStep(w) ==
    \/ Loop(w) \/ WorkerLock(w) \/ Wait(w) \/ Exit(w) \/ Take(w)
    \/ WorkerUnlock(w) \/ Run(w)

-----------------------------------------------------------------------------
(***************************************************************************)
(* assign_task.                                                            *)
(***************************************************************************)

AssignTask(c, t) ==
    /\ cpc[c] = "out" /\ opc = "using"
    /\ state[t] = "new" /\ \A d \in Client : arg[d] # t
    /\ cpc' = [cpc EXCEPT ![c] = "lock"]
    /\ arg' = [arg EXCEPT ![c] = t]
    /\ UNCHANGED << m_tasks, run_flag, m_lock, workerVars, opc, state >>

ClientLock(c) ==
    /\ cpc[c] = "lock" /\ Lock(c)
    /\ cpc' = [cpc EXCEPT ![c] = "look"]
    /\ UNCHANGED << m_tasks, run_flag, workerVars, arg, opc, state >>

\* FAULT: room for one more than there is.
PushOneMore(c) ==
    /\ cpc[c] = "look" /\ Len(m_tasks) <= MaxTasks
    /\ m_tasks' = Append(m_tasks, arg[c])
    /\ state' = [state EXCEPT ![arg[c]] = "waiting"]
    /\ cpc' = [cpc EXCEPT ![c] = "notify"]
    /\ UNCHANGED << run_flag, m_lock, workerVars, arg, opc >>

Push(c) ==
    /\ cpc[c] = "look" /\ Len(m_tasks) < MaxTasks
    /\ m_tasks' = Append(m_tasks, arg[c])
    /\ state' = [state EXCEPT ![arg[c]] = "waiting"]
    /\ cpc' = [cpc EXCEPT ![c] = "notify"]
    /\ UNCHANGED << run_flag, m_lock, workerVars, arg, opc >>

\* The queue is full: false.
Reject(c) ==
    /\ cpc[c] = "look" /\ Len(m_tasks) >= MaxTasks
    /\ state' = [state EXCEPT ![arg[c]] = "refused"]
    /\ cpc' = [cpc EXCEPT ![c] = "unlock"]
    /\ UNCHANGED << m_tasks, run_flag, m_lock, workerVars, arg, opc >>

\* FAULT: nobody is notified.
NotifyNobody(c) ==
    /\ cpc[c] = "notify"
    /\ cpc' = [cpc EXCEPT ![c] = "unlock"]
    /\ UNCHANGED << m_tasks, run_flag, m_lock, workerVars, arg, opc, state >>

\* notify_one: some waiting thread, if there is one.
NotifyOne(c) ==
    /\ cpc[c] = "notify"
    /\ \/ \E w \in Worker : wpc[w] = "wait" /\ wpc' = [wpc EXCEPT ![w] = "woken"]
       \/ (\A w \in Worker : wpc[w] # "wait") /\ UNCHANGED wpc
    /\ cpc' = [cpc EXCEPT ![c] = "unlock"]
    /\ UNCHANGED << m_tasks, run_flag, m_lock, job, arg, opc, state >>

ClientUnlock(c) ==
    /\ cpc[c] = "unlock" /\ Unlock(c)
    /\ cpc' = [cpc EXCEPT ![c] = "out"]
    /\ arg' = [arg EXCEPT ![c] = NoTask]
    /\ UNCHANGED << m_tasks, run_flag, workerVars, opc, state >>

ClientStep(c) ==
    ClientLock(c) \/ Push(c) \/ Reject(c) \/ NotifyOne(c) \/ ClientUnlock(c)

-----------------------------------------------------------------------------
(***************************************************************************)
(* ~Threadpool.                                                            *)
(***************************************************************************)

Destroy ==
    /\ opc = "using" /\ \A c \in Client : cpc[c] = "out"
    /\ Lock(Owner)
    /\ opc' = "locked"
    /\ UNCHANGED << m_tasks, run_flag, workerVars, clientVars, state >>

ClearFlag ==
    /\ opc = "locked" /\ Unlock(Owner)
    /\ run_flag' = FALSE
    /\ opc' = "notify"
    /\ UNCHANGED << m_tasks, workerVars, clientVars, state >>

\* FAULT: one of them.
NotifyJustOne ==
    /\ opc = "notify"
    /\ \/ \E w \in Worker : wpc[w] = "wait" /\ wpc' = [wpc EXCEPT ![w] = "woken"]
       \/ (\A w \in Worker : wpc[w] # "wait") /\ UNCHANGED wpc
    /\ opc' = "join"
    /\ UNCHANGED << m_tasks, run_flag, m_lock, job, clientVars, state >>

\* notify_all, after the lock has been given back.
NotifyAll ==
    /\ opc = "notify"
    /\ wpc' = [w \in Worker |-> IF wpc[w] = "wait" THEN "woken" ELSE wpc[w]]
    /\ opc' = "join"
    /\ UNCHANGED << m_tasks, run_flag, m_lock, job, clientVars, state >>

\* Every thread has been joined.
Joined ==
    /\ opc = "join" /\ \A w \in Worker : wpc[w] = "exit"
    /\ opc' = "gone"
    /\ UNCHANGED << m_tasks, run_flag, m_lock, workerVars, clientVars, state >>

OwnerStep == ClearFlag \/ NotifyAll \/ Joined

-----------------------------------------------------------------------------
Next ==
    \/ \E w \in Worker : WorkerStep(w) \/ SpuriousWakeup(w)
    \/ \E c \in Client : ClientStep(c) \/ \E t \in Task : AssignTask(c, t)
    \/ Destroy \/ OwnerStep

Spec == Init /\ [][Next]_vars

\* Every thread that can go on does; a thread that waits for the lock gets it
\* if it is free again and again.  Calls, the destruction of the pool and
\* wakeups without a notification need not happen.
FairSpec ==
    /\ Spec
    /\ \A w \in Worker : WF_vars(WorkerStep(w)) /\ SF_vars(WorkerLock(w))
    /\ \A c \in Client : WF_vars(ClientStep(c)) /\ SF_vars(ClientLock(c))
    /\ WF_vars(OwnerStep)

-----------------------------------------------------------------------------
WorkerPc == {"loop", "lock", "look", "wait", "woken", "unlock", "run", "exit"}
TaskState == {"new", "waiting", "begun", "ended", "refused"}

\* Every variable holds a value of its type, the queue at most max_tasks tasks.
TypeOK ==
    /\ m_tasks \in Seq(Task) /\ Len(m_tasks) <= MaxTasks /\ run_flag \in BOOLEAN
    /\ m_lock \in Thread \cup {Nobody}
    /\ wpc \in [Worker -> WorkerPc] /\ job \in [Worker -> Task \cup {NoTask}]
    /\ cpc \in [Client -> {"out", "lock", "look", "notify", "unlock"}]
    /\ arg \in [Client -> Task \cup {NoTask}]
    /\ opc \in {"using", "locked", "notify", "join", "gone"}
    /\ state \in [Task -> TaskState]

\* No wakeup is lost: when there is a task and nobody is about to notify, some
\* worker is on its way to the queue ("assign_task", notify_one under the lock).
NobodyOversleeps ==
    m_tasks # << >> /\ (\A c \in Client : cpc[c] # "notify") =>
        \E w \in Worker : wpc[w] \notin {"wait", "exit"}

\* Nor is the last one: after the destructor's notify_all no worker waits, and
\* none goes back to waiting ("run_task", while with the flag in its condition).
NobodyLeftWaiting == opc \in {"join", "gone"} => \A w \in Worker : wpc[w] # "wait"

\* The destructor lets the workers finish what has been accepted.
DrainedWhenGone == opc = "gone" => \A t \in Task : state[t] \notin {"waiting", "begun"}

\* The pool is a bounded queue that begins each accepted task in its turn, once,
\* and ends it ("a thread safe thread pool", threadpool.h:12).
Queue == INSTANCE TaskQueue WITH
            waiting <- m_tasks, open <- (opc # "gone"),
            Capacity <- MaxTasks, Slots <- Cardinality(Worker)

ImplementsTaskQueue == Queue!Spec

\* The destructor returns: nobody waits for somebody who waits.
DestructorReturns == opc # "using" ~> opc = "gone"
=============================================================================
