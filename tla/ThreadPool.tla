----------------------------- MODULE ThreadPool -----------------------------
(***************************************************************************)
(* The thread pool of Project-5-1: threadpool.c driven by client.c.        *)
(*                                                                         *)
(* Workers (the "bees") wait on the semaphore taskCnt, take one task out   *)
(* of the ring taskQueue under the mutex lock and execute it.  Submitters  *)
(* put tasks into the ring under the same mutex, signal the semaphore      *)
(* after the mutex is released, and retry when the ring is full.  The main *)
(* thread creates the bees, and cancels and joins them one by one.         *)
(*                                                                         *)
(* Each thread advances one access to shared memory at a time, as pc says. *)
(* The functions the thread is in are named at the actions.                *)
(***************************************************************************)
EXTENDS Integers, Sequences, FiniteSets

CONSTANTS QUEUE_SIZE,         \* how many tasks the queue holds
          NUMBER_OF_THREADS,  \* how many bees the pool has
          Submitters,         \* the threads that call pool_submit
          TasksPerSubmitter,  \* n in client.c
          NoTask, NoOne       \* "no task" and "nobody holds the mutex"

ASSUME PoolAssumption ==
    /\ QUEUE_SIZE \in Nat \ {0}
    /\ NUMBER_OF_THREADS \in Nat \ {0}
    /\ TasksPerSubmitter \in Nat \ {0}
    /\ IsFiniteSet(Submitters)

bees == 0 .. NUMBER_OF_THREADS - 1
Slots == 0 .. QUEUE_SIZE
Tasks == Submitters \X (0 .. TasksPerSubmitter - 1)

(* A bee and a submitter are different threads, NoOne is no thread.        *)
ASSUME ThreadAssumption ==
    /\ Submitters \cap bees = {}
    /\ NoOne \notin Submitters \cup bees
    /\ NoTask \notin Tasks

Threads == Submitters \cup bees

VARIABLES lock,                  \* the thread holding the mutex, or NoOne
          taskCnt,               \* the semaphore
          taskQueue,             \* the ring, one spare slot
          queueHead, queueTail,
          workToDo,              \* worker's local, per bee
          next,                  \* i in client.c's main, per submitter
          cancelled,             \* bees with a pending cancellation request
          executed,              \* tasks whose function ran to its end
          main, bee,             \* phase and loop index of the main thread
          pc                     \* where each bee and each submitter is

queueVars == <<taskQueue, queueHead, queueTail>>
mainVars  == <<main, bee, cancelled>>
vars == <<lock, taskCnt, queueVars, workToDo, next, executed, mainVars, pc>>

Goto(t, label) == pc' = [pc EXCEPT ![t] = label]

(* The critical sections of enqueue and dequeue.                           *)
InEnqueue == {"enq_check", "enq_advance", "enq_unlock"}
InDequeue == {"deq_read", "deq_advance", "deq_unlock"}

SubmitterLabels == {"submit", "post", "done"} \cup InEnqueue
BeeLabels == {"none", "sem_wait", "deq_lock", "execute", "exited"} \cup InDequeue

(* Once main is past its sleep and has entered pool_shutdown.              *)
ShuttingDown == main \in {"cancel", "join", "destroy", "exit"}
-----------------------------------------------------------------------------
(* The indices of the ring.                                                *)

SuccWithoutModulo(x) == x + 1
Succ(x) == (x + 1) % (QUEUE_SIZE + 1)

QueueNeverFull == FALSE
QueueFull == Succ(queueTail) = queueHead

(* How many tasks lie between the head and the tail.                       *)
InQueue == IF queueHead <= queueTail
           THEN queueTail - queueHead
           ELSE queueTail - queueHead + QUEUE_SIZE + 1
-----------------------------------------------------------------------------
(* pthread_mutex_lock blocks while another thread holds the mutex.         *)

MutexIgnored(t) == lock' = t
Acquire(t) == lock = NoOne /\ lock' = t
Release(t) == lock = t /\ lock' = NoOne

(* pool_submit and enqueue: the steps of a submitter.  The client retries  *)
(* at once when the queue is full ("busy waiting is enough").              *)

EnqueueLock(s) ==
    /\ pc[s] = "submit"
    /\ main = "running"
    /\ Acquire(s)
    /\ Goto(s, "enq_check")
    /\ UNCHANGED <<taskCnt, queueVars, workToDo, next, executed, mainVars>>

FullWithoutUnlock(s) ==
    /\ pc[s] = "enq_check"
    /\ QueueFull
    /\ Goto(s, "submit")
    /\ UNCHANGED <<lock, taskCnt, queueVars, workToDo, next, executed, mainVars>>

EnqueueFull(s) ==
    /\ pc[s] = "enq_check"
    /\ QueueFull
    /\ Release(s)
    /\ Goto(s, "submit")
    /\ UNCHANGED <<taskCnt, queueVars, workToDo, next, executed, mainVars>>

EnqueueStore(s) ==
    /\ pc[s] = "enq_check"
    /\ ~QueueFull
    /\ taskQueue' = [taskQueue EXCEPT ![queueTail] = <<s, next[s]>>]
    /\ Goto(s, "enq_advance")
    /\ UNCHANGED <<lock, taskCnt, queueHead, queueTail, workToDo, next,
                   executed, mainVars>>

EnqueueAdvance(s) ==
    /\ pc[s] = "enq_advance"
    /\ queueTail' = Succ(queueTail)
    /\ Goto(s, "enq_unlock")
    /\ UNCHANGED <<lock, taskCnt, taskQueue, queueHead, workToDo, next,
                   executed, mainVars>>

EnqueueUnlock(s) ==
    /\ pc[s] = "enq_unlock"
    /\ Release(s)
    /\ Goto(s, "post")
    /\ UNCHANGED <<taskCnt, queueVars, workToDo, next, executed, mainVars>>

NextTask(s) ==
    /\ next' = [next EXCEPT ![s] = @ + 1]
    /\ Goto(s, IF next[s] + 1 = TasksPerSubmitter THEN "done" ELSE "submit")

PostForgotten(s) ==
    /\ pc[s] = "post"
    /\ NextTask(s)
    /\ UNCHANGED <<lock, taskCnt, queueVars, workToDo, executed, mainVars>>

Post(s) ==
    /\ pc[s] = "post"
    /\ taskCnt' = taskCnt + 1
    /\ NextTask(s)
    /\ UNCHANGED <<lock, queueVars, workToDo, executed, mainVars>>

submit(s) == \/ EnqueueLock(s) \/ EnqueueFull(s) \/ EnqueueStore(s)
             \/ EnqueueAdvance(s) \/ EnqueueUnlock(s) \/ Post(s)
-----------------------------------------------------------------------------
(* worker and dequeue: the steps of a bee.                                 *)

SemWait(b) ==
    /\ pc[b] = "sem_wait"
    /\ taskCnt > 0
    /\ taskCnt' = taskCnt - 1
    /\ Goto(b, "deq_lock")
    /\ UNCHANGED <<lock, queueVars, workToDo, next, executed, mainVars>>

DequeueLock(b) ==
    /\ pc[b] = "deq_lock"
    /\ Acquire(b)
    /\ Goto(b, "deq_read")
    /\ UNCHANGED <<taskCnt, queueVars, workToDo, next, executed, mainVars>>

DequeueRead(b) ==
    /\ pc[b] = "deq_read"
    /\ workToDo' = [workToDo EXCEPT ![b] = taskQueue[queueHead]]
    /\ Goto(b, "deq_advance")
    /\ UNCHANGED <<lock, taskCnt, queueVars, next, executed, mainVars>>

DequeueAdvance(b) ==
    /\ pc[b] = "deq_advance"
    /\ queueHead' = Succ(queueHead)
    /\ Goto(b, "deq_unlock")
    /\ UNCHANGED <<lock, taskCnt, taskQueue, queueTail, workToDo, next,
                   executed, mainVars>>

DequeueUnlock(b) ==
    /\ pc[b] = "deq_unlock"
    /\ Release(b)
    /\ Goto(b, "execute")
    /\ UNCHANGED <<taskCnt, queueVars, workToDo, next, executed, mainVars>>

(* execute runs the task's function to its end and the worker loops.  The  *)
(* local workToDo is dead until the next dequeue: it is reset here.        *)
Execute(b) ==
    /\ pc[b] = "execute"
    /\ executed' = executed \cup {workToDo[b]}
    /\ workToDo' = [workToDo EXCEPT ![b] = NoTask]
    /\ Goto(b, "sem_wait")
    /\ UNCHANGED <<lock, taskCnt, queueVars, next, mainVars>>

(* A pending cancellation acts at a cancellation point only: sem_wait,     *)
(* entered or blocked in, and the output of the task's printf, which is    *)
(* then lost.  pthread_mutex_lock and sem_post are none.                   *)
OutputOnly(b) == pc[b] = "execute"
AnyPoint(b) == pc[b] \notin {"none", "exited"}
CancellationPoint(b) == pc[b] \in {"sem_wait", "execute"}

Cancelled(b) ==
    /\ b \in cancelled
    /\ CancellationPoint(b)
    /\ workToDo' = [workToDo EXCEPT ![b] = NoTask]
    /\ Goto(b, "exited")
    /\ UNCHANGED <<lock, taskCnt, queueVars, next, executed, mainVars>>

worker(b) == \/ SemWait(b) \/ DequeueLock(b) \/ DequeueRead(b)
             \/ DequeueAdvance(b) \/ DequeueUnlock(b) \/ Execute(b)
             \/ Cancelled(b)
-----------------------------------------------------------------------------
(* The main thread: pool_init, then the submissions, then pool_shutdown.   *)

(* The next bee of a loop over bees[], and the phase after the loop.       *)
LoopBees(again, after) ==
    IF bee + 1 = NUMBER_OF_THREADS
    THEN bee' = 0 /\ main' = after
    ELSE bee' = bee + 1 /\ main' = again

CreateBee ==
    /\ main = "init"
    /\ Goto(bee, "sem_wait")
    /\ LoopBees("init", "running")
    /\ UNCHANGED <<lock, taskCnt, queueVars, workToDo, next, cancelled, executed>>

(* Every task was submitted and the client's sleep is over.  Nothing       *)
(* relates the length of that sleep to what the bees still have to do.     *)
Shutdown ==
    /\ main = "running"
    /\ \A s \in Submitters : pc[s] = "done"
    /\ main' = "cancel"
    /\ UNCHANGED <<lock, taskCnt, queueVars, workToDo, next, executed, bee,
                   cancelled, pc>>

CancelBee ==
    /\ main = "cancel"
    /\ cancelled' = cancelled \cup {bee}
    /\ main' = "join"
    /\ UNCHANGED <<lock, taskCnt, queueVars, workToDo, next, executed, bee, pc>>

JoinWithoutWaiting ==
    /\ main = "join"
    /\ LoopBees("cancel", "destroy")
    /\ UNCHANGED <<lock, taskCnt, queueVars, workToDo, next, executed,
                   cancelled, pc>>

JoinBee ==
    /\ main = "join"
    /\ pc[bee] = "exited"
    /\ LoopBees("cancel", "destroy")
    /\ UNCHANGED <<lock, taskCnt, queueVars, workToDo, next, executed,
                   cancelled, pc>>

(* sem_destroy, pthread_mutex_destroy, and free(params) in the client.     *)
Destroy ==
    /\ main = "destroy"
    /\ main' = "exit"
    /\ UNCHANGED <<lock, taskCnt, queueVars, workToDo, next, executed, bee,
                   cancelled, pc>>

Exited == main = "exit" /\ UNCHANGED vars

mainThread == CreateBee \/ CancelBee \/ JoinBee \/ Destroy
-----------------------------------------------------------------------------
Init == /\ lock = NoOne
        /\ taskCnt = 0
        /\ taskQueue = [x \in Slots |-> NoTask]
        /\ queueHead = 0 /\ queueTail = 0
        /\ workToDo = [b \in bees |-> NoTask]
        /\ next = [s \in Submitters |-> 0]
        /\ cancelled = {}
        /\ executed = {}
        /\ main = "init" /\ bee = 0
        /\ pc = [t \in Threads |-> IF t \in bees THEN "none" ELSE "submit"]

Next == \/ \E s \in Submitters : submit(s)
        \/ \E b \in bees : worker(b)
        \/ mainThread
        \/ Shutdown
        \/ Exited

(* Every thread that can move is eventually scheduled.  A mutex that is    *)
(* released again and again is eventually granted to each thread waiting   *)
(* for it.  Nothing makes the main thread end its sleep.                   *)
Fairness ==
    /\ \A s \in Submitters : WF_vars(submit(s)) /\ SF_vars(EnqueueLock(s))
    /\ \A b \in bees : WF_vars(worker(b)) /\ SF_vars(DequeueLock(b))
    /\ WF_vars(mainThread)

Spec == Init /\ [][Next]_vars /\ Fairness
-----------------------------------------------------------------------------
(* Properties.                                                             *)

(* The values the variables of threadpool.c and client.c take.             *)
TypeOK ==
    /\ lock \in Threads \cup {NoOne}
    /\ taskCnt \in Nat
    /\ taskQueue \in [Slots -> Tasks \cup {NoTask}]
    /\ queueHead \in Slots /\ queueTail \in Slots
    /\ workToDo \in [bees -> Tasks \cup {NoTask}]
    /\ next \in [Submitters -> 0 .. TasksPerSubmitter]
    /\ cancelled \subseteq bees
    /\ executed \subseteq Tasks
    /\ main \in {"init", "running", "cancel", "join", "destroy", "exit"}
    /\ bee \in bees
    /\ pc \in [Threads -> SubmitterLabels \cup BeeLabels]
    /\ \A s \in Submitters : pc[s] \in SubmitterLabels
    /\ \A b \in bees : pc[b] \in BeeLabels

(* The bees that passed sem_wait and have not moved the head yet, and the  *)
(* submitters that moved the tail and have not posted yet.                 *)
At(S, labels) == {t \in S : pc[t] \in labels}
Claiming == {"deq_lock", "deq_read", "deq_advance"}
Posting == {"enq_unlock", "post"}

(* dequeue tests nothing: it relies on the semaphore counting exactly the  *)
(* tasks in the ring that are neither claimed by a bee past sem_wait nor   *)
(* still to be posted by pool_submit, which posts after it has unlocked.   *)
TokensMatchQueue ==
    InQueue = taskCnt + Cardinality(At(bees, Claiming))
                      + Cardinality(At(Submitters, Posting))

(* A bee that is about to read taskQueue[queueHead] in dequeue finds a     *)
(* task there, never an empty ring or a slot it already took.              *)
DequeueNeverEmpty ==
    \A b \in bees : pc[b] \in {"deq_read", "deq_advance"} => queueHead # queueTail

(* When pool_shutdown destroys the semaphore and the mutex and the client  *)
(* frees the parameters, no thread of the pool can touch them any more:    *)
(* no cancelled bee took the mutex with it and none still runs.            *)
DestroyIsSafe ==
    main \in {"destroy", "exit"} =>
        /\ lock = NoOne
        /\ \A b \in bees : pc[b] = "exited"
        /\ \A s \in Submitters : pc[s] = "done"

(* The tasks in the ring, oldest first, as dequeue would take them.        *)
QueueContents ==
    [k \in 1 .. InQueue |-> taskQueue[(queueHead + k - 1) % (QUEUE_SIZE + 1)]]

Line == INSTANCE HandOff WITH
    Items <- Tasks, Takers <- bees, Capacity <- QUEUE_SIZE, Nothing <- NoTask,
    line <- QueueContents,
    held <- [b \in bees |-> IF pc[b] \in {"deq_unlock", "execute"}
                            THEN workToDo[b] ELSE NoTask],
    finished <- executed,
    closing <- ShuttingDown

(* Ring, mutex and semaphore together are a first-in first-out line of at  *)
(* most QUEUE_SIZE tasks from which each task is taken and run once.       *)
ImplementsHandOff == Line!Spec

(* enqueue has put task t into the ring, so pool_submit will return 0.     *)
Accepted(t) == \/ t[2] < next[t[1]]
               \/ t[2] = next[t[1]] /\ pc[t[1]] \in {"enq_unlock", "post"}

(* README.md:21: a task that was submitted successfully is later executed, *)
(* as long as the pool is not shut down: no wake-up is lost between        *)
(* enqueue, sem_post and the bees' sem_wait.                               *)
AcceptedTaskExecuted ==
    \A t \in Tasks : Accepted(t) ~> (t \in executed \/ ShuttingDown)

(* client.c:38: busy waiting on a full queue does get every task into it.  *)
BusyWaitingEnds == <>(\A s \in Submitters : pc[s] = "done")

(* pool_shutdown, once entered, joins every bee and returns: each bee gets *)
(* to a cancellation point whatever it was doing when it was cancelled.    *)
ShutdownReturns == ShuttingDown ~> main = "exit"

=============================================================================
