-------------------------- MODULE ThreadPoolProofs --------------------------
(***************************************************************************)
(* Theorems about ThreadPool, for any number of bees, submitting threads   *)
(* and tasks and any size of the queue.                                    *)
(*                                                                         *)
(* The inductive invariant IInv says who may be in a critical section      *)
(* (Mutex), what a thread in one knows of the ring (Room, Taken), that the *)
(* slots between head and tail hold tasks (Filled), and that the semaphore *)
(* counts these tasks (TokensMatchQueue).  None of the parts is inductive  *)
(* without the others: a submitter's knowledge that the ring has room      *)
(* survives because of the mutex, the bee's that it is not empty because   *)
(* of the token it holds, and the count of tasks needs both.               *)
(*                                                                         *)
(* A second invariant, HInv, says where each task is: in the ring, with a  *)
(* bee, executed or dropped, and in one place only.  With it each step of  *)
(* the pool is shown to be a step of HandOff or to leave that unchanged.   *)
(***************************************************************************)
EXTENDS ThreadPool, Counting

(* The slots from the head up to the tail.                                 *)
InUse(x) == IF queueHead <= queueTail
            THEN queueHead <= x /\ x < queueTail
            ELSE queueHead <= x \/ x < queueTail

(* A submitter that is not done has a task left to submit.                 *)
TasksLeft == \A s \in Submitters : pc[s] # "done" => next[s] < TasksPerSubmitter

(* The thread in enqueue or dequeue is the one that holds the mutex.       *)
Mutex == /\ \A t \in Threads : pc[t] \in InEnqueue \cup InDequeue => lock = t
         /\ lock # NoOne => pc[lock] \in InEnqueue \cup InDequeue

(* Between storing its task and moving the tail, a submitter has room.     *)
Room == \A s \in Submitters :
            pc[s] = "enq_advance" => ~QueueFull /\ taskQueue[queueTail] \in Tasks

Filled == \A x \in Slots : InUse(x) => taskQueue[x] \in Tasks

Taken == \A b \in bees :
            pc[b] \in {"deq_advance", "deq_unlock", "execute"} => workToDo[b] \in Tasks

(* pool_init creates the bees in the order of their indices.               *)
NotCreated == main = "init" => \A b \in bees : bee <= b => pc[b] = "none"

IInv == /\ TypeOK /\ TasksLeft /\ Mutex /\ Room /\ Filled /\ Taken
        /\ TokensMatchQueue /\ NotCreated

(* The main thread's loops: which bees exist, which are cancelled and      *)
(* which have ended.                                                       *)
LoopInv ==
    /\ main = "init" => \A s \in Submitters : pc[s] = "submit"
    /\ main \in {"init", "running"} => cancelled = {}
    /\ main = "running" => bee = 0
    /\ ShuttingDown => \A s \in Submitters : pc[s] = "done"
    /\ main = "join" => bee \in cancelled
    /\ main \in {"cancel", "join"} => \A b \in 0 .. bee - 1 : pc[b] = "exited"
    /\ main \in {"destroy", "exit"} => \A b \in bees : pc[b] = "exited"
-----------------------------------------------------------------------------
(* Facts about the ring's indices.                                         *)

(* enqueue's and dequeue's step to the next slot, without the modulus.     *)
LEMMA SuccValue ==
    \A x \in Slots : Succ(x) = IF x = QUEUE_SIZE THEN 0 ELSE x + 1
<1> SUFFICES ASSUME NEW x \in Slots
             PROVE  Succ(x) = IF x = QUEUE_SIZE THEN 0 ELSE x + 1
  OBVIOUS
<1>1. CASE x = QUEUE_SIZE
  BY <1>1, PoolAssumption DEF Succ, Slots
<1>2. CASE x # QUEUE_SIZE
  BY <1>2, PoolAssumption DEF Succ, Slots
<1> QED BY <1>1, <1>2

(* The distance from head to tail is at most QUEUE_SIZE; enqueue's test    *)
(* for a full queue holds exactly when it is.                              *)
LEMMA InQueueRange ==
    ASSUME TypeOK
    PROVE  /\ InQueue \in 0 .. QUEUE_SIZE
           /\ InQueue = 0 <=> queueHead = queueTail
           /\ InQueue = QUEUE_SIZE <=> QueueFull
<1>1. Succ(queueTail) = IF queueTail = QUEUE_SIZE THEN 0 ELSE queueTail + 1
  BY SuccValue DEF TypeOK
<1> QED BY <1>1, PoolAssumption DEF TypeOK, InQueue, QueueFull, Slots

(* Bees and submitters are different threads, finitely many of each.       *)
LEMMA ThreadsApart ==
    /\ NoOne \notin Threads
    /\ \A s \in Submitters, b \in bees : s # b
    /\ IsFiniteSet(bees) /\ IsFiniteSet(Submitters)
<1>1. IsFiniteSet(bees)
  BY FS_Interval, PoolAssumption DEF bees
<1> QED BY <1>1, PoolAssumption, ThreadAssumption DEF Threads

(* The number of threads at a label is a number.                           *)
LEMMA Counts ==
    ASSUME NEW S \in {bees, Submitters}, NEW L
    PROVE  Cardinality(At(S, L)) \in Nat
<1>1. IsFiniteSet(At(S, L))
  BY ThreadsApart, FS_Subset, At(S, L) \in SUBSET S DEF At
<1> QED BY <1>1, FS_CardinalityType

(* A bee with a token finds a task in the ring.                            *)
LEMMA TokenNonEmpty ==
    ASSUME IInv, NEW b \in bees, pc[b] \in Claiming
    PROVE  queueHead # queueTail
<1>1. Cardinality(At(bees, Claiming)) > 0
  BY ThreadsApart, CountPositive DEF At
<1>2. InQueue > 0
  BY <1>1, Counts DEF IInv, TypeOK, TokensMatchQueue
<1> QED BY <1>2, InQueueRange DEF IInv

(* How the counts change when thread t moves to label l.                   *)
LEMMA CountsAfterMove ==
    ASSUME TypeOK, NEW t \in Threads, NEW l, Goto(t, l),
           NEW S \in {bees, Submitters}, NEW L
    PROVE  Cardinality(At(S, L))' = Cardinality(At(S, L)) +
               (IF t \in S /\ pc[t] \notin L /\ l \in L THEN 1
                ELSE IF t \in S /\ pc[t] \in L /\ l \notin L THEN -1
                ELSE 0)
<1>1. DOMAIN pc = Threads /\ pc' = [pc EXCEPT ![t] = l]
  BY DEF TypeOK, Goto
<1>2. S \subseteq Threads /\ IsFiniteSet(S)
  BY ThreadsApart DEF Threads
<1>3. Cardinality({x \in S : pc'[x] \in L}) = Cardinality({x \in S : pc[x] \in L}) +
               (IF t \in S /\ pc[t] \notin L /\ l \in L THEN 1
                ELSE IF t \in S /\ pc[t] \in L /\ l \notin L THEN -1
                ELSE 0)
  BY <1>1, <1>2, CountAfterMove
<1> QED BY <1>3 DEF At

(* A move that neither enters nor leaves one of the two groups keeps the   *)
(* balance of tokens and tasks if it leaves semaphore and indices alone.   *)
LEMMA TokensKept ==
    ASSUME IInv, NEW t \in Threads, NEW l, Goto(t, l),
           UNCHANGED <<taskCnt, queueHead, queueTail>>,
           pc[t] \in Claiming <=> l \in Claiming,
           pc[t] \in Posting <=> l \in Posting
    PROVE  TokensMatchQueue'
<1>1. /\ Cardinality(At(bees, Claiming))' = Cardinality(At(bees, Claiming))
      /\ Cardinality(At(Submitters, Posting))' = Cardinality(At(Submitters, Posting))
  BY CountsAfterMove, Counts DEF IInv
<1>2. InQueue' = InQueue
  BY DEF InQueue
<1> QED BY <1>1, <1>2 DEF IInv, TokensMatchQueue
-----------------------------------------------------------------------------
(* Every step of the program preserves the inductive invariant.            *)
THEOREM InductiveStep == IInv /\ [Next]_vars => IInv'
<1> SUFFICES ASSUME IInv, [Next]_vars PROVE IInv'
  OBVIOUS
<1> USE DEF InEnqueue, InDequeue, SubmitterLabels, BeeLabels
<1>1. ASSUME NEW s \in Submitters, EnqueueLock(s) PROVE IInv'
  <2>1. TypeOK' /\ TasksLeft'
    BY <1>1, PoolAssumption, ThreadsApart
       DEF IInv, TypeOK, TasksLeft, Threads, Tasks, Slots, Room, Taken, mainVars, EnqueueLock, Acquire, Goto, queueVars
  <2>2. Mutex'
    BY <1>1, ThreadsApart DEF IInv, TypeOK, Mutex, Threads, EnqueueLock, Acquire, Goto, queueVars
  <2>3. Room'
    BY <1>1, ThreadsApart DEF IInv, TypeOK, Room, Mutex, Threads, QueueFull, Succ, EnqueueLock, Acquire, Goto, queueVars
  <2>4. Filled'
    BY <1>1, ThreadsApart DEF IInv, TypeOK, Filled, InUse, Room, Slots, EnqueueLock, Acquire, Goto, queueVars
  <2>5. Taken'
    BY <1>1, ThreadsApart DEF IInv, TypeOK, Taken, Threads, EnqueueLock, Acquire, Goto, queueVars
  <2>6. TokensMatchQueue'
    <3>1. PICK l : Goto(s, l) /\ l = "enq_check"
      BY <1>1 DEF EnqueueLock
    <3> QED BY <1>1, <3>1, TokensKept DEF EnqueueLock, Claiming, Posting, Threads, queueVars
  <2>7. NotCreated'
    BY <1>1, ThreadsApart DEF IInv, TypeOK, NotCreated, Threads, mainVars, EnqueueLock, Acquire, Goto, queueVars
  <2> QED BY <2>1, <2>2, <2>3, <2>4, <2>5, <2>6, <2>7 DEF IInv
<1>2. ASSUME NEW s \in Submitters, EnqueueFull(s) PROVE IInv'
  <2>1. TypeOK' /\ TasksLeft'
    BY <1>2, PoolAssumption, ThreadsApart
       DEF IInv, TypeOK, TasksLeft, Threads, Tasks, Slots, Room, Taken, mainVars, EnqueueFull, Release, Goto, queueVars
  <2>2. Mutex'
    BY <1>2, ThreadsApart DEF IInv, TypeOK, Mutex, Threads, EnqueueFull, Release, Goto, queueVars
  <2>3. Room'
    BY <1>2, ThreadsApart DEF IInv, TypeOK, Room, Mutex, Threads, QueueFull, Succ, EnqueueFull, Release, Goto, queueVars
  <2>4. Filled'
    BY <1>2, ThreadsApart DEF IInv, TypeOK, Filled, InUse, Room, Slots, EnqueueFull, Release, Goto, queueVars
  <2>5. Taken'
    BY <1>2, ThreadsApart DEF IInv, TypeOK, Taken, Threads, EnqueueFull, Release, Goto, queueVars
  <2>6. TokensMatchQueue'
    <3>1. PICK l : Goto(s, l) /\ l = "submit"
      BY <1>2 DEF EnqueueFull
    <3> QED BY <1>2, <3>1, TokensKept DEF EnqueueFull, Claiming, Posting, Threads, queueVars
  <2>7. NotCreated'
    BY <1>2, ThreadsApart DEF IInv, TypeOK, NotCreated, Threads, mainVars, EnqueueFull, Release, Goto, queueVars
  <2> QED BY <2>1, <2>2, <2>3, <2>4, <2>5, <2>6, <2>7 DEF IInv
<1>3. ASSUME NEW s \in Submitters, EnqueueStore(s) PROVE IInv'
  <2>1. TypeOK' /\ TasksLeft'
    BY <1>3, PoolAssumption, ThreadsApart
       DEF IInv, TypeOK, TasksLeft, Threads, Tasks, Slots, Room, Taken, mainVars, EnqueueStore, Goto
  <2>2. Mutex'
    BY <1>3, ThreadsApart DEF IInv, TypeOK, Mutex, Threads, EnqueueStore, Goto
  <2>3. Room'
    <3>1. <<s, next[s]>> \in Tasks
      BY <1>3, PoolAssumption DEF IInv, TypeOK, TasksLeft, Tasks, EnqueueStore
    <3>2. taskQueue'[queueTail] \in Tasks /\ ~QueueFull /\ UNCHANGED <<queueHead, queueTail>>
      BY <1>3, <3>1 DEF IInv, TypeOK, EnqueueStore
    <3> QED BY <3>2 DEF Room, QueueFull, Succ
  <2>4. Filled'
    BY <1>3, ThreadsApart DEF IInv, TypeOK, Filled, InUse, Room, Slots, EnqueueStore, Goto
  <2>5. Taken'
    BY <1>3, ThreadsApart DEF IInv, TypeOK, Taken, Threads, EnqueueStore, Goto
  <2>6. TokensMatchQueue'
    <3>1. PICK l : Goto(s, l) /\ l = "enq_advance"
      BY <1>3 DEF EnqueueStore
    <3> QED BY <1>3, <3>1, TokensKept DEF EnqueueStore, Claiming, Posting, Threads, queueVars
  <2>7. NotCreated'
    BY <1>3, ThreadsApart DEF IInv, TypeOK, NotCreated, Threads, mainVars, EnqueueStore, Goto
  <2> QED BY <2>1, <2>2, <2>3, <2>4, <2>5, <2>6, <2>7 DEF IInv
<1>4. ASSUME NEW s \in Submitters, EnqueueAdvance(s) PROVE IInv'
  <2>1. TypeOK' /\ TasksLeft'
    <3>1. queueTail' \in Slots
      BY <1>4, PoolAssumption, SuccValue DEF IInv, TypeOK, Slots, EnqueueAdvance
    <3>2. UNCHANGED <<lock, taskCnt, taskQueue, queueHead, workToDo, next, executed, mainVars>>
      BY <1>4 DEF EnqueueAdvance
    <3>3. pc' \in [Threads -> SubmitterLabels \cup BeeLabels] /\ pc'[s] = "enq_unlock"
          /\ \A t \in Threads : t # s => pc'[t] = pc[t]
      BY <1>4 DEF IInv, TypeOK, EnqueueAdvance, Goto, Threads
    <3>4. /\ \A t \in Submitters : pc'[t] \in SubmitterLabels
          /\ \A b \in bees : pc'[b] \in BeeLabels
      BY <3>3, ThreadsApart DEF IInv, TypeOK, Threads
    <3>5. TasksLeft'
      BY <1>4, <3>2, <3>3, PoolAssumption DEF IInv, TasksLeft, Threads, EnqueueAdvance
    <3> QED BY <3>1, <3>2, <3>3, <3>4, <3>5 DEF IInv, TypeOK, mainVars
  <2>2. Mutex'
    BY <1>4, ThreadsApart DEF IInv, TypeOK, Mutex, Threads, EnqueueAdvance, Goto
  <2>3. Room'
    BY <1>4, ThreadsApart DEF IInv, TypeOK, Room, Mutex, Threads, QueueFull, Succ, EnqueueAdvance, Goto
  <2>4. Filled'
    BY <1>4, ThreadsApart, SuccValue DEF IInv, TypeOK, Filled, InUse, Room, Slots, EnqueueAdvance, Goto
  <2>5. Taken'
    BY <1>4, ThreadsApart DEF IInv, TypeOK, Taken, Threads, EnqueueAdvance, Goto
  <2>6. TokensMatchQueue'
    <3>1. Goto(s, "enq_unlock") /\ pc[s] = "enq_advance" /\ taskCnt' = taskCnt
      BY <1>4 DEF EnqueueAdvance
    <3>2. /\ Cardinality(At(bees, Claiming))' = Cardinality(At(bees, Claiming))
          /\ Cardinality(At(Submitters, Posting))' = Cardinality(At(Submitters, Posting)) + 1
      BY <1>4, <3>1, ThreadsApart, CountsAfterMove, Counts DEF IInv, Claiming, Posting, Threads
    <3>3. InQueue' = InQueue + 1
      BY <1>4, <3>1, SuccValue, PoolAssumption
         DEF IInv, TypeOK, Room, QueueFull, EnqueueAdvance, InQueue, Slots
    <3> QED BY <3>1, <3>2, <3>3, Counts DEF IInv, TypeOK, TokensMatchQueue
  <2>7. NotCreated'
    BY <1>4, ThreadsApart DEF IInv, TypeOK, NotCreated, Threads, mainVars, EnqueueAdvance, Goto
  <2> QED BY <2>1, <2>2, <2>3, <2>4, <2>5, <2>6, <2>7 DEF IInv
<1>5. ASSUME NEW s \in Submitters, EnqueueUnlock(s) PROVE IInv'
  <2>1. TypeOK' /\ TasksLeft'
    BY <1>5, PoolAssumption, ThreadsApart
       DEF IInv, TypeOK, TasksLeft, Threads, Tasks, Slots, Room, Taken, mainVars, EnqueueUnlock, Release, Goto, queueVars
  <2>2. Mutex'
    BY <1>5, ThreadsApart DEF IInv, TypeOK, Mutex, Threads, EnqueueUnlock, Release, Goto, queueVars
  <2>3. Room'
    BY <1>5, ThreadsApart DEF IInv, TypeOK, Room, Mutex, Threads, QueueFull, Succ, EnqueueUnlock, Release, Goto, queueVars
  <2>4. Filled'
    BY <1>5, ThreadsApart DEF IInv, TypeOK, Filled, InUse, Room, Slots, EnqueueUnlock, Release, Goto, queueVars
  <2>5. Taken'
    BY <1>5, ThreadsApart DEF IInv, TypeOK, Taken, Threads, EnqueueUnlock, Release, Goto, queueVars
  <2>6. TokensMatchQueue'
    <3>1. PICK l : Goto(s, l) /\ l = "post"
      BY <1>5 DEF EnqueueUnlock
    <3> QED BY <1>5, <3>1, TokensKept DEF EnqueueUnlock, Claiming, Posting, Threads, queueVars
  <2>7. NotCreated'
    BY <1>5, ThreadsApart DEF IInv, TypeOK, NotCreated, Threads, mainVars, EnqueueUnlock, Release, Goto, queueVars
  <2> QED BY <2>1, <2>2, <2>3, <2>4, <2>5, <2>6, <2>7 DEF IInv
<1>6. ASSUME NEW s \in Submitters, Post(s) PROVE IInv'
  <2>1. TypeOK' /\ TasksLeft'
    <3>1. next[s] \in 0 .. TasksPerSubmitter - 1
      BY <1>6, PoolAssumption DEF IInv, TypeOK, TasksLeft, Post
    <3>2. next'[s] = next[s] + 1 /\ next' = [next EXCEPT ![s] = next[s] + 1]
      BY <1>6, <3>1 DEF IInv, TypeOK, Post, NextTask
    <3>3. next' \in [Submitters -> 0 .. TasksPerSubmitter]
      BY <3>1, <3>2, PoolAssumption DEF IInv, TypeOK
    <3>4. /\ pc' \in [Threads -> SubmitterLabels \cup BeeLabels]
          /\ pc'[s] = IF next'[s] = TasksPerSubmitter THEN "done" ELSE "submit"
          /\ \A t \in Threads \ {s} : pc'[t] = pc[t]
      BY <1>6, <3>2 DEF IInv, TypeOK, Post, NextTask, Goto, Threads
    <3> QED BY <1>6, <3>1, <3>2, <3>3, <3>4, ThreadsApart, PoolAssumption
         DEF IInv, TypeOK, TasksLeft, Post, Threads, queueVars, mainVars
  <2>2. Mutex'
    BY <1>6, ThreadsApart DEF IInv, TypeOK, Mutex, Threads, Post, Goto, NextTask, queueVars
  <2>3. Room'
    BY <1>6, ThreadsApart DEF IInv, TypeOK, Room, Mutex, Threads, QueueFull, Succ, Post, Goto, NextTask, queueVars
  <2>4. Filled'
    BY <1>6, ThreadsApart DEF IInv, TypeOK, Filled, InUse, Room, Slots, Post, Goto, NextTask, queueVars
  <2>5. Taken'
    BY <1>6, ThreadsApart DEF IInv, TypeOK, Taken, Threads, Post, Goto, NextTask, queueVars
  <2>6. TokensMatchQueue'
    <3>1. taskCnt' = taskCnt + 1 /\ pc[s] = "post"
      BY <1>6 DEF Post
    <3>2. PICK l \in {"done", "submit"} : Goto(s, l)
      BY <1>6 DEF Post, NextTask
    <3>3. /\ Cardinality(At(bees, Claiming))' = Cardinality(At(bees, Claiming))
          /\ Cardinality(At(Submitters, Posting))' = Cardinality(At(Submitters, Posting)) - 1
      BY <1>6, <3>1, <3>2, ThreadsApart, CountsAfterMove, Counts DEF IInv, Claiming, Posting, Threads
    <3>4. InQueue' = InQueue
      BY <1>6 DEF Post, InQueue, queueVars
    <3> QED BY <3>1, <3>3, <3>4, Counts DEF IInv, TypeOK, TokensMatchQueue
  <2>7. NotCreated'
    BY <1>6, ThreadsApart DEF IInv, TypeOK, NotCreated, Threads, mainVars, Post, Goto, NextTask, queueVars
  <2> QED BY <2>1, <2>2, <2>3, <2>4, <2>5, <2>6, <2>7 DEF IInv
<1>7. ASSUME NEW b \in bees, SemWait(b) PROVE IInv'
  <2>1. TypeOK' /\ TasksLeft'
    BY <1>7, PoolAssumption, ThreadsApart
       DEF IInv, TypeOK, TasksLeft, Threads, Tasks, Slots, Room, Taken, mainVars, SemWait, Goto, queueVars
  <2>2. Mutex'
    BY <1>7, ThreadsApart DEF IInv, TypeOK, Mutex, Threads, SemWait, Goto, queueVars
  <2>3. Room'
    BY <1>7, ThreadsApart DEF IInv, TypeOK, Room, Mutex, Threads, QueueFull, Succ, SemWait, Goto, queueVars
  <2>4. Filled'
    BY <1>7, ThreadsApart DEF IInv, TypeOK, Filled, InUse, Room, Slots, SemWait, Goto, queueVars
  <2>5. Taken'
    BY <1>7, ThreadsApart DEF IInv, TypeOK, Taken, Threads, SemWait, Goto, queueVars
  <2>6. TokensMatchQueue'
    <3>1. Goto(b, "deq_lock") /\ pc[b] = "sem_wait" /\ taskCnt' = taskCnt - 1
      BY <1>7 DEF SemWait
    <3>2. /\ Cardinality(At(bees, Claiming))' = Cardinality(At(bees, Claiming)) + 1
          /\ Cardinality(At(Submitters, Posting))' = Cardinality(At(Submitters, Posting))
      BY <1>7, <3>1, ThreadsApart, CountsAfterMove, Counts DEF IInv, Claiming, Posting, Threads
    <3>3. InQueue' = InQueue
      BY <1>7 DEF SemWait, InQueue, queueVars
    <3> QED BY <3>1, <3>2, <3>3, Counts DEF IInv, TypeOK, TokensMatchQueue
  <2>7. NotCreated'
    BY <1>7, ThreadsApart DEF IInv, TypeOK, NotCreated, Threads, mainVars, SemWait, Goto, queueVars
  <2> QED BY <2>1, <2>2, <2>3, <2>4, <2>5, <2>6, <2>7 DEF IInv
<1>8. ASSUME NEW b \in bees, DequeueLock(b) PROVE IInv'
  <2>1. TypeOK' /\ TasksLeft'
    BY <1>8, PoolAssumption, ThreadsApart
       DEF IInv, TypeOK, TasksLeft, Threads, Tasks, Slots, Room, Taken, mainVars, DequeueLock, Acquire, Goto, queueVars
  <2>2. Mutex'
    BY <1>8, ThreadsApart DEF IInv, TypeOK, Mutex, Threads, DequeueLock, Acquire, Goto, queueVars
  <2>3. Room'
    BY <1>8, ThreadsApart DEF IInv, TypeOK, Room, Mutex, Threads, QueueFull, Succ, DequeueLock, Acquire, Goto, queueVars
  <2>4. Filled'
    BY <1>8, ThreadsApart DEF IInv, TypeOK, Filled, InUse, Room, Slots, DequeueLock, Acquire, Goto, queueVars
  <2>5. Taken'
    BY <1>8, ThreadsApart DEF IInv, TypeOK, Taken, Threads, DequeueLock, Acquire, Goto, queueVars
  <2>6. TokensMatchQueue'
    <3>1. PICK l : Goto(b, l) /\ l = "deq_read"
      BY <1>8 DEF DequeueLock
    <3> QED BY <1>8, <3>1, TokensKept DEF DequeueLock, Claiming, Posting, Threads, queueVars
  <2>7. NotCreated'
    BY <1>8, ThreadsApart DEF IInv, TypeOK, NotCreated, Threads, mainVars, DequeueLock, Acquire, Goto, queueVars
  <2> QED BY <2>1, <2>2, <2>3, <2>4, <2>5, <2>6, <2>7 DEF IInv
<1>9. ASSUME NEW b \in bees, DequeueRead(b) PROVE IInv'
  <2>1. TypeOK' /\ TasksLeft'
    BY <1>9, PoolAssumption, ThreadsApart
       DEF IInv, TypeOK, TasksLeft, Threads, Tasks, Slots, Room, Taken, mainVars, DequeueRead, Goto, queueVars
  <2>2. Mutex'
    BY <1>9, ThreadsApart DEF IInv, TypeOK, Mutex, Threads, DequeueRead, Goto, queueVars
  <2>3. Room'
    BY <1>9, ThreadsApart DEF IInv, TypeOK, Room, Mutex, Threads, QueueFull, Succ, DequeueRead, Goto, queueVars
  <2>4. Filled'
    BY <1>9, ThreadsApart DEF IInv, TypeOK, Filled, InUse, Room, Slots, DequeueRead, Goto, queueVars
  <2>5. Taken'
    <3>1. queueHead # queueTail
      BY <1>9, TokenNonEmpty DEF DequeueRead, Claiming
    <3>2. taskQueue[queueHead] \in Tasks
      BY <3>1 DEF IInv, TypeOK, Filled, InUse, Slots
    <3> QED BY <1>9, <3>2 DEF IInv, TypeOK, Taken, Threads, DequeueRead, Goto, queueVars
  <2>6. TokensMatchQueue'
    <3>1. PICK l : Goto(b, l) /\ l = "deq_advance"
      BY <1>9 DEF DequeueRead
    <3> QED BY <1>9, <3>1, TokensKept DEF DequeueRead, Claiming, Posting, Threads, queueVars
  <2>7. NotCreated'
    BY <1>9, ThreadsApart DEF IInv, TypeOK, NotCreated, Threads, mainVars, DequeueRead, Goto, queueVars
  <2> QED BY <2>1, <2>2, <2>3, <2>4, <2>5, <2>6, <2>7 DEF IInv
<1>10. ASSUME NEW b \in bees, DequeueAdvance(b) PROVE IInv'
  <2>1. TypeOK' /\ TasksLeft'
    BY <1>10, PoolAssumption, ThreadsApart, SuccValue
       DEF IInv, TypeOK, TasksLeft, Threads, Tasks, Slots, Room, Taken, mainVars, DequeueAdvance, Goto
  <2>2. Mutex'
    BY <1>10, ThreadsApart DEF IInv, TypeOK, Mutex, Threads, DequeueAdvance, Goto
  <2>3. Room'
    BY <1>10, ThreadsApart DEF IInv, TypeOK, Room, Mutex, Threads, QueueFull, Succ, DequeueAdvance, Goto
  <2>4. Filled'
    <3>1. queueHead # queueTail
      BY <1>10, TokenNonEmpty DEF DequeueAdvance, Claiming
    <3>2. \A x \in Slots : InUse(x)' => InUse(x)
      BY <1>10, <3>1, SuccValue DEF IInv, TypeOK, InUse, Slots, DequeueAdvance
    <3> QED BY <1>10, <3>2 DEF IInv, Filled, DequeueAdvance
  <2>5. Taken'
    BY <1>10, ThreadsApart DEF IInv, TypeOK, Taken, Threads, DequeueAdvance, Goto
  <2>6. TokensMatchQueue'
    <3>1. Goto(b, "deq_unlock") /\ pc[b] = "deq_advance" /\ taskCnt' = taskCnt
      BY <1>10 DEF DequeueAdvance
    <3>2. /\ Cardinality(At(bees, Claiming))' = Cardinality(At(bees, Claiming)) - 1
          /\ Cardinality(At(Submitters, Posting))' = Cardinality(At(Submitters, Posting))
      BY <1>10, <3>1, ThreadsApart, CountsAfterMove, Counts DEF IInv, Claiming, Posting, Threads
    <3>3. InQueue' = InQueue - 1
      <4>1. queueHead # queueTail
        BY <3>1, TokenNonEmpty DEF Claiming
      <4> QED BY <1>10, <4>1, SuccValue, PoolAssumption
           DEF IInv, TypeOK, DequeueAdvance, InQueue, Slots
    <3> QED BY <3>1, <3>2, <3>3, Counts DEF IInv, TypeOK, TokensMatchQueue
  <2>7. NotCreated'
    BY <1>10, ThreadsApart DEF IInv, TypeOK, NotCreated, Threads, mainVars, DequeueAdvance, Goto
  <2> QED BY <2>1, <2>2, <2>3, <2>4, <2>5, <2>6, <2>7 DEF IInv
<1>11. ASSUME NEW b \in bees, DequeueUnlock(b) PROVE IInv'
  <2>1. TypeOK' /\ TasksLeft'
    BY <1>11, PoolAssumption, ThreadsApart
       DEF IInv, TypeOK, TasksLeft, Threads, Tasks, Slots, Room, Taken, mainVars, DequeueUnlock, Release, Goto, queueVars
  <2>2. Mutex'
    BY <1>11, ThreadsApart DEF IInv, TypeOK, Mutex, Threads, DequeueUnlock, Release, Goto, queueVars
  <2>3. Room'
    BY <1>11, ThreadsApart DEF IInv, TypeOK, Room, Mutex, Threads, QueueFull, Succ, DequeueUnlock, Release, Goto, queueVars
  <2>4. Filled'
    BY <1>11, ThreadsApart DEF IInv, TypeOK, Filled, InUse, Room, Slots, DequeueUnlock, Release, Goto, queueVars
  <2>5. Taken'
    BY <1>11, ThreadsApart DEF IInv, TypeOK, Taken, Threads, DequeueUnlock, Release, Goto, queueVars
  <2>6. TokensMatchQueue'
    <3>1. PICK l : Goto(b, l) /\ l = "execute"
      BY <1>11 DEF DequeueUnlock
    <3> QED BY <1>11, <3>1, TokensKept DEF DequeueUnlock, Claiming, Posting, Threads, queueVars
  <2>7. NotCreated'
    BY <1>11, ThreadsApart DEF IInv, TypeOK, NotCreated, Threads, mainVars, DequeueUnlock, Release, Goto, queueVars
  <2> QED BY <2>1, <2>2, <2>3, <2>4, <2>5, <2>6, <2>7 DEF IInv
<1>12. ASSUME NEW b \in bees, Execute(b) PROVE IInv'
  <2>1. TypeOK' /\ TasksLeft'
    BY <1>12, PoolAssumption, ThreadsApart
       DEF IInv, TypeOK, TasksLeft, Threads, Tasks, Slots, Room, Taken, mainVars, Execute, Goto, queueVars
  <2>2. Mutex'
    BY <1>12, ThreadsApart DEF IInv, TypeOK, Mutex, Threads, Execute, Goto, queueVars
  <2>3. Room'
    BY <1>12, ThreadsApart DEF IInv, TypeOK, Room, Mutex, Threads, QueueFull, Succ, Execute, Goto, queueVars
  <2>4. Filled'
    BY <1>12, ThreadsApart DEF IInv, TypeOK, Filled, InUse, Room, Slots, Execute, Goto, queueVars
  <2>5. Taken'
    BY <1>12, ThreadsApart DEF IInv, TypeOK, Taken, Threads, Execute, Goto, queueVars
  <2>6. TokensMatchQueue'
    <3>1. PICK l : Goto(b, l) /\ l = "sem_wait"
      BY <1>12 DEF Execute
    <3> QED BY <1>12, <3>1, TokensKept DEF Execute, Claiming, Posting, Threads, queueVars
  <2>7. NotCreated'
    BY <1>12, ThreadsApart DEF IInv, TypeOK, NotCreated, Threads, mainVars, Execute, Goto, queueVars
  <2> QED BY <2>1, <2>2, <2>3, <2>4, <2>5, <2>6, <2>7 DEF IInv
<1>13. ASSUME NEW b \in bees, Cancelled(b) PROVE IInv'
  <2>1. TypeOK' /\ TasksLeft'
    BY <1>13, PoolAssumption, ThreadsApart
       DEF IInv, TypeOK, TasksLeft, Threads, Tasks, Slots, Room, Taken, mainVars, Cancelled, Goto, CancellationPoint, queueVars
  <2>2. Mutex'
    BY <1>13, ThreadsApart DEF IInv, TypeOK, Mutex, Threads, Cancelled, Goto, CancellationPoint, queueVars
  <2>3. Room'
    BY <1>13, ThreadsApart DEF IInv, TypeOK, Room, Mutex, Threads, QueueFull, Succ, Cancelled, Goto, CancellationPoint, queueVars
  <2>4. Filled'
    BY <1>13, ThreadsApart DEF IInv, TypeOK, Filled, InUse, Room, Slots, Cancelled, Goto, CancellationPoint, queueVars
  <2>5. Taken'
    BY <1>13, ThreadsApart DEF IInv, TypeOK, Taken, Threads, Cancelled, Goto, CancellationPoint, queueVars
  <2>6. TokensMatchQueue'
    <3>1. PICK l : Goto(b, l) /\ l = "exited"
      BY <1>13 DEF Cancelled
    <3> QED BY <1>13, <3>1, TokensKept DEF Cancelled, Claiming, Posting, Threads, queueVars, CancellationPoint
  <2>7. NotCreated'
    BY <1>13, ThreadsApart DEF IInv, TypeOK, NotCreated, Threads, mainVars, Cancelled, Goto, CancellationPoint, queueVars
  <2> QED BY <2>1, <2>2, <2>3, <2>4, <2>5, <2>6, <2>7 DEF IInv
<1>14. ASSUME CreateBee PROVE IInv'
  <2>1. bee \in bees /\ pc[bee] = "none" /\ Goto(bee, "sem_wait") /\ main = "init"
    BY <1>14, PoolAssumption DEF IInv, TypeOK, NotCreated, CreateBee, bees
  <2>2. TypeOK' /\ TasksLeft'
    BY <1>14, <2>1, PoolAssumption, ThreadsApart
       DEF IInv, TypeOK, TasksLeft, Threads, bees, CreateBee, LoopBees, Goto, queueVars
  <2>3. Mutex' /\ Room'
    BY <1>14, <2>1, ThreadsApart
       DEF IInv, TypeOK, Mutex, Room, Threads, QueueFull, Succ, CreateBee, Goto, queueVars
  <2>4. Filled' /\ Taken'
    BY <1>14, <2>1, ThreadsApart
       DEF IInv, TypeOK, Filled, InUse, Taken, Threads, CreateBee, Goto, queueVars
  <2>5. TokensMatchQueue'
    BY <1>14, <2>1, TokensKept DEF CreateBee, Claiming, Posting, Threads, queueVars
  <2>6. NotCreated'
    BY <1>14, <2>1, PoolAssumption
       DEF IInv, TypeOK, NotCreated, CreateBee, LoopBees, Goto, bees, Threads
  <2> QED BY <2>2, <2>3, <2>4, <2>5, <2>6 DEF IInv
<1>15. ASSUME Shutdown \/ CancelBee \/ JoinBee \/ Destroy PROVE IInv'
  <2>1. UNCHANGED <<lock, taskCnt, taskQueue, queueHead, queueTail, workToDo, next, executed, pc>>
    BY <1>15 DEF Shutdown, CancelBee, JoinBee, Destroy, queueVars
  <2>2. TypeOK'
    <3>1. bee' \in bees
      <4>1. CASE Shutdown \/ CancelBee \/ Destroy
        BY <4>1 DEF IInv, TypeOK, Shutdown, CancelBee, Destroy
      <4>2. CASE JoinBee
        BY <4>2, PoolAssumption DEF IInv, TypeOK, JoinBee, LoopBees, bees
      <4> QED BY <1>15, <4>1, <4>2
    <3>2. cancelled' \subseteq bees
      BY <1>15 DEF IInv, TypeOK, Shutdown, CancelBee, JoinBee, Destroy
    <3>3. main' \in {"init", "running", "cancel", "join", "destroy", "exit"}
      BY <1>15 DEF Shutdown, CancelBee, JoinBee, Destroy, LoopBees
    <3> QED BY <2>1, <3>1, <3>2, <3>3 DEF IInv, TypeOK
  <2>3. NotCreated'
    BY <1>15, <2>1 DEF NotCreated, Shutdown, CancelBee, JoinBee, Destroy, LoopBees
  <2> QED BY <2>1, <2>2, <2>3
       DEF IInv, TasksLeft, Mutex, Room, Filled, InUse, Taken, TokensMatchQueue, InQueue, At,
           QueueFull, Succ
<1>16. CASE UNCHANGED vars
  BY <1>16 DEF vars, queueVars, mainVars, IInv, TypeOK, TasksLeft, Mutex, Room, Filled, InUse, Taken,
               TokensMatchQueue, InQueue, At, NotCreated, QueueFull, Succ
<1> QED
  BY <1>1, <1>2, <1>3, <1>4, <1>5, <1>6, <1>7, <1>8, <1>9, <1>10, <1>11, <1>12, <1>13,
     <1>14, <1>15, <1>16
     DEF Next, submit, worker, mainThread, Exited

(* The initial state satisfies the inductive invariant: the ring is empty, *)
(* nobody holds the mutex and no bee exists.                               *)
THEOREM InitialState == Init => IInv
<1> SUFFICES ASSUME Init PROVE IInv
  OBVIOUS
<1> USE DEF Init
<1>1. TypeOK /\ TasksLeft
  BY PoolAssumption, ThreadsApart
     DEF TypeOK, TasksLeft, Threads, Slots, bees, SubmitterLabels, BeeLabels
<1>2. Mutex /\ Room /\ Taken /\ NotCreated
  BY ThreadsApart DEF Mutex, Room, Taken, NotCreated, Threads, InEnqueue, InDequeue
<1>3. Filled
  BY DEF Filled, InUse, Slots
<1>4. TokensMatchQueue
  <2>1. /\ Cardinality(At(bees, Claiming)) = 0
        /\ Cardinality(At(Submitters, Posting)) = 0
    BY CountZero, ThreadsApart DEF At, Claiming, Posting, Threads
  <2> QED BY <2>1, PoolAssumption DEF TokensMatchQueue, InQueue
<1> QED BY <1>1, <1>2, <1>3, <1>4 DEF IInv

(* The inductive invariant holds in every reachable state.                 *)
THEOREM Invariance == Spec => []IInv
<1> QED BY InitialState, InductiveStep, PTL DEF Spec

(* The variables of threadpool.c keep their types: in particular a bee     *)
(* never executes anything but a task that was submitted.                  *)
THEOREM TypeCorrect == Spec => []TypeOK
<1>1. IInv => TypeOK
  BY DEF IInv
<1> QED BY <1>1, Invariance, PTL

(* The semaphore counts the tasks in the ring that no bee has claimed.     *)
THEOREM SemaphoreCorrect == Spec => []TokensMatchQueue
<1>1. IInv => TokensMatchQueue
  BY DEF IInv
<1> QED BY <1>1, Invariance, PTL

(* dequeue, which does not test for it, never finds the ring empty.        *)
THEOREM DequeueFindsTask == Spec => []DequeueNeverEmpty
<1>1. IInv => DequeueNeverEmpty
  BY TokenNonEmpty DEF DequeueNeverEmpty, Claiming
<1> QED BY <1>1, Invariance, PTL
-----------------------------------------------------------------------------
(* Shutdown.                                                               *)

(* The main thread's loops do what they say: a bee joined has ended, and   *)
(* no submitter is left when the shutdown begins.                          *)
THEOREM LoopStep == TypeOK /\ LoopInv /\ [Next]_vars => LoopInv'
<1> SUFFICES ASSUME TypeOK, LoopInv, [Next]_vars PROVE LoopInv'
  OBVIOUS
<1> USE DEF LoopInv, ShuttingDown
<1>1. ASSUME NEW s \in Submitters, submit(s) PROVE LoopInv'
  <2>1. UNCHANGED mainVars /\ pc[s] # "done" /\ (pc[s] = "submit" => main = "running")
    BY <1>1 DEF submit, EnqueueLock, EnqueueFull, EnqueueStore, EnqueueAdvance, EnqueueUnlock,
                Post, InEnqueue
  <2>2. main = "running"
    BY <2>1 DEF TypeOK
  <2> QED BY <2>1, <2>2 DEF mainVars
<1>2. ASSUME NEW b \in bees, worker(b) PROVE LoopInv'
  <2>1. UNCHANGED mainVars /\ pc[b] # "exited" /\ \E l : Goto(b, l)
    BY <1>2 DEF worker, SemWait, DequeueLock, DequeueRead, DequeueAdvance, DequeueUnlock, Execute, Cancelled, CancellationPoint
  <2>2. \A t \in Threads \ {b} : pc'[t] = pc[t]
    BY <2>1 DEF Goto, TypeOK
  <2>3. \A s \in Submitters : pc'[s] = pc[s]
    BY <2>2, ThreadsApart DEF Threads
  <2>4. \A c \in bees : pc[c] = "exited" => pc'[c] = "exited"
    BY <2>1, <2>2 DEF Threads
  <2>5. 0 .. bee - 1 \subseteq bees
    BY PoolAssumption DEF TypeOK, bees
  <2> QED BY <2>1, <2>3, <2>4, <2>5 DEF mainVars
<1>3. ASSUME CreateBee PROVE LoopInv'
  BY <1>3, ThreadsApart, PoolAssumption DEF CreateBee, LoopBees, Goto, TypeOK, Threads, bees
<1>4. ASSUME Shutdown PROVE LoopInv'
  BY <1>4, PoolAssumption DEF Shutdown, TypeOK, bees
<1>5. ASSUME CancelBee PROVE LoopInv'
  BY <1>5 DEF CancelBee
<1>6. ASSUME JoinBee PROVE LoopInv'
  BY <1>6, PoolAssumption DEF JoinBee, LoopBees, TypeOK, bees
<1>7. ASSUME Destroy PROVE LoopInv'
  BY <1>7 DEF Destroy
<1>8. CASE UNCHANGED vars
  BY <1>8 DEF vars, mainVars
<1> QED BY <1>1, <1>2, <1>3, <1>4, <1>5, <1>6, <1>7, <1>8 DEF Next, mainThread, Exited

(* When pool_shutdown destroys the mutex and the semaphore nobody is left  *)
(* who could use them: no bee was cancelled inside a critical section.     *)
THEOREM DestroySafe == Spec => []DestroyIsSafe
<1>1. Init => LoopInv
  BY PoolAssumption, ThreadsApart DEF Init, LoopInv, ShuttingDown, Threads
<1>2. Spec => []LoopInv
  BY <1>1, LoopStep, TypeCorrect, PTL DEF Spec
<1>3. IInv /\ LoopInv => DestroyIsSafe
  BY DEF IInv, TypeOK, Mutex, LoopInv, ShuttingDown, DestroyIsSafe, Threads, InEnqueue, InDequeue
<1> QED BY <1>2, <1>3, Invariance, PTL
-----------------------------------------------------------------------------
(* The hand-off.  Each task is in one place, and it takes the way HandOff  *)
(* describes.                                                              *)

Has == {"deq_unlock", "execute"}

(* The task a bee has taken out of the ring.                               *)
Hand == [b \in bees |-> IF pc[b] \in Has THEN workToDo[b] ELSE NoTask]

(* What a submitter stored is at the tail, what a bee read at the head.    *)
Hands ==
    /\ \A s \in Submitters : pc[s] = "enq_advance" => taskQueue[queueTail] = <<s, next[s]>>
    /\ \A b \in bees : pc[b] = "deq_advance" => workToDo[b] = taskQueue[queueHead]

(* Only accepted tasks are in the ring, with a bee or executed.            *)
Past == {t \in Tasks : Accepted(t)}

NoneToCome ==
    /\ \A i \in Slots : InUse(i) => taskQueue[i] \in Past
    /\ \A b \in bees : Hand[b] # NoTask => Hand[b] \in Past
    /\ executed \subseteq Past

(* No task is in two places.                                               *)
Apart ==
    /\ \A i, j \in Slots : InUse(i) /\ InUse(j) /\ taskQueue[i] = taskQueue[j] => i = j
    /\ \A i \in Slots, b \in bees : InUse(i) => taskQueue[i] # Hand[b]
    /\ \A b, d \in bees : Hand[b] # NoTask /\ Hand[b] = Hand[d] => b = d
    /\ \A i \in Slots : InUse(i) => taskQueue[i] \notin executed
    /\ \A b \in bees : Hand[b] \notin executed

HInv == LoopInv /\ Hands /\ NoneToCome /\ Apart

(* In a step of these kinds a task moves: into the ring, out of it, to its *)
(* execution, or nowhere when its bee is cancelled.  In all others the     *)
(* tasks stay where they are.                                              *)
Quiet ==
    /\ queueHead' = queueHead /\ queueTail' = queueTail
    /\ \A i \in Slots : InUse(i) => taskQueue'[i] = taskQueue[i]
    /\ Hand' = Hand /\ executed' = executed

Drops(b) == Cancelled(b) /\ pc[b] \in Has

LEMMA HandTypes ==
    ASSUME IInv
    PROVE  /\ ~InUse(queueTail)
           /\ DOMAIN Hand = bees
           /\ \A b \in bees : Hand[b] = IF pc[b] \in Has THEN workToDo[b] ELSE NoTask
           /\ \A b \in bees : pc[b] \in Has => workToDo[b] \in Tasks
           /\ \A b \in bees : Hand[b] # NoTask => Hand[b] \in Tasks
<1>1. \A b \in bees : pc[b] \in Has => workToDo[b] \in Tasks
  BY DEF IInv, Taken, Has
<1>2. ~InUse(queueTail)
  BY PoolAssumption DEF IInv, TypeOK, InUse, Slots
<1> QED BY <1>1, <1>2 DEF Hand

LEMMA StepKinds ==
    ASSUME IInv, [Next]_vars
    PROVE  \/ Quiet
           \/ \E s \in Submitters : EnqueueAdvance(s)
           \/ \E b \in bees : DequeueAdvance(b) \/ Execute(b) \/ Drops(b)
<1> USE DEF IInv, TypeOK, Goto, queueVars, mainVars, Threads, InUse
<1>1. ASSUME NEW s \in Submitters,
             EnqueueLock(s) \/ EnqueueFull(s) \/ EnqueueUnlock(s) \/ Post(s)
      PROVE  Quiet
  <2>1. \A b \in bees : pc'[b] = pc[b] /\ workToDo'[b] = workToDo[b]
    BY <1>1, ThreadsApart DEF EnqueueLock, EnqueueFull, EnqueueUnlock, Post, NextTask
  <2>2. UNCHANGED <<queueVars, executed>>
    BY <1>1 DEF EnqueueLock, EnqueueFull, EnqueueUnlock, Post, NextTask
  <2>3. Hand' = Hand
    BY <2>1 DEF Hand
  <2> QED BY <2>2, <2>3 DEF Quiet
<1>2. ASSUME NEW s \in Submitters, EnqueueStore(s) PROVE Quiet
  <2>1. \A b \in bees : pc'[b] = pc[b] /\ workToDo'[b] = workToDo[b]
    BY <1>2, ThreadsApart DEF EnqueueStore
  <2>2. ~InUse(queueTail)
    BY HandTypes
  <2>3. Hand' = Hand
    BY <2>1 DEF Hand
  <2> QED BY <1>2, <2>2, <2>3 DEF EnqueueStore, Quiet
<1>3. ASSUME NEW b \in bees,
             SemWait(b) \/ DequeueLock(b) \/ DequeueRead(b) \/ DequeueUnlock(b)
      PROVE  Quiet
  <2>1. \A d \in bees : d # b => pc'[d] = pc[d] /\ workToDo'[d] = workToDo[d]
    BY <1>3 DEF SemWait, DequeueLock, DequeueRead, DequeueUnlock
  <2>2. \/ pc[b] \notin Has /\ pc'[b] \notin Has
        \/ pc[b] \in Has /\ pc'[b] \in Has /\ workToDo'[b] = workToDo[b]
    BY <1>3 DEF SemWait, DequeueLock, DequeueRead, DequeueUnlock, Has
  <2>3. UNCHANGED <<queueVars, executed>>
    BY <1>3 DEF SemWait, DequeueLock, DequeueRead, DequeueUnlock
  <2>4. Hand' = Hand
    BY <2>1, <2>2 DEF Hand
  <2> QED BY <2>3, <2>4 DEF Quiet
<1>4. ASSUME NEW b \in bees, Cancelled(b), ~Drops(b) PROVE Quiet
  <2>1. \A d \in bees : d # b => pc'[d] = pc[d] /\ workToDo'[d] = workToDo[d]
    BY <1>4 DEF Cancelled
  <2>2. pc[b] \notin Has /\ pc'[b] \notin Has
    BY <1>4 DEF Cancelled, Drops, Has
  <2>3. UNCHANGED <<queueVars, executed>>
    BY <1>4 DEF Cancelled
  <2>4. Hand' = Hand
    BY <2>1, <2>2 DEF Hand
  <2> QED BY <2>3, <2>4 DEF Quiet
<1>5. ASSUME CreateBee PROVE Quiet
  <2>1. pc[bee] = "none" /\ pc' = [pc EXCEPT ![bee] = "sem_wait"]
    BY <1>5, PoolAssumption DEF CreateBee, NotCreated, bees
  <2>2. \A b \in bees : pc'[b] \in Has <=> pc[b] \in Has
    BY <2>1 DEF Has
  <2>3. UNCHANGED <<queueVars, executed, workToDo>>
    BY <1>5 DEF CreateBee
  <2>4. Hand' = Hand
    BY <2>2, <2>3 DEF Hand
  <2> QED BY <2>3, <2>4 DEF Quiet
<1>6. ASSUME UNCHANGED <<queueVars, executed, workToDo, pc>> PROVE Quiet
  BY <1>6 DEF Quiet, Hand
<1> QED
  BY <1>1, <1>2, <1>3, <1>4, <1>5, <1>6
     DEF Next, submit, worker, mainThread, Shutdown, CancelBee, JoinBee, Destroy, Exited, vars

(* The slots in use after a move of the tail, and of the head.             *)
LEMMA InUseGrows ==
    ASSUME IInv, NEW s \in Submitters, EnqueueAdvance(s)
    PROVE  /\ InQueue' = InQueue + 1
           /\ \A i \in Slots : InUse(i)' <=> InUse(i) \/ i = queueTail
<1>1. queueTail' = (IF queueTail = QUEUE_SIZE THEN 0 ELSE queueTail + 1) /\ queueHead' = queueHead
  BY SuccValue DEF IInv, TypeOK, EnqueueAdvance
<1>2. InQueue < QUEUE_SIZE
  BY InQueueRange, PoolAssumption DEF EnqueueAdvance, IInv, Room
<1> QED BY <1>1, <1>2, PoolAssumption DEF IInv, TypeOK, InUse, InQueue, Slots

LEMMA InUseShrinks ==
    ASSUME IInv, NEW b \in bees, DequeueAdvance(b)
    PROVE  /\ InQueue' = InQueue - 1
           /\ InUse(queueHead)
           /\ \A i \in Slots : InUse(i)' <=> InUse(i) /\ i # queueHead
<1>1. queueHead' = (IF queueHead = QUEUE_SIZE THEN 0 ELSE queueHead + 1) /\ queueTail' = queueTail
  BY SuccValue DEF IInv, TypeOK, DequeueAdvance
<1>2. queueHead # queueTail
  BY TokenNonEmpty DEF DequeueAdvance, Claiming
<1> QED BY <1>1, <1>2, PoolAssumption DEF IInv, TypeOK, InUse, InQueue, Slots

(* What moves in each kind of step.                                        *)
LEMMA EnqueueMoves ==
    ASSUME IInv, Hands, NEW s \in Submitters, EnqueueAdvance(s)
    PROVE  /\ taskQueue' = taskQueue /\ queueHead' = queueHead
           /\ Hand' = Hand /\ executed' = executed
           /\ taskQueue[queueTail] \in Past' \ Past
           /\ queueTail \in Slots /\ \A i \in Slots : InUse(i)' <=> InUse(i) \/ i = queueTail
<1>1. /\ taskQueue' = taskQueue /\ workToDo' = workToDo /\ executed' = executed /\ next' = next
      /\ queueHead' = queueHead /\ pc' = [pc EXCEPT ![s] = "enq_unlock"] /\ pc[s] = "enq_advance"
  BY DEF EnqueueAdvance, Goto
<1>2. Hand' = Hand
  <2>1. \A b \in bees : pc'[b] = pc[b]
    BY <1>1, ThreadsApart
  <2> QED BY <1>1, <2>1 DEF Hand
<1>3. taskQueue[queueTail] = <<s, next[s]>> /\ taskQueue[queueTail] \in Tasks
  BY <1>1 DEF Hands, IInv, Room
<1>4. pc'[s] = "enq_unlock" /\ next[s] \in Nat
  BY <1>1 DEF IInv, TypeOK, Threads
<1> DEFINE x == taskQueue[queueTail]
<1>5. x[1] = s /\ x[2] = next[s] /\ x \in Tasks
  BY <1>3
<1> HIDE DEF x
<1>6. x \in Past' \ Past
  BY <1>1, <1>4, <1>5 DEF Past, Accepted
<1> QED BY <1>1, <1>2, <1>6, InUseGrows DEF x, IInv, TypeOK

LEMMA DequeueMoves ==
    ASSUME IInv, Hands, NEW b \in bees, DequeueAdvance(b)
    PROVE  /\ taskQueue' = taskQueue /\ queueTail' = queueTail /\ executed' = executed
           /\ Hand[b] = NoTask /\ Hand' = [Hand EXCEPT ![b] = taskQueue[queueHead]]
           /\ queueHead \in Slots /\ InUse(queueHead)
           /\ \A i \in Slots : InUse(i)' <=> InUse(i) /\ i # queueHead
<1>1. /\ taskQueue' = taskQueue /\ workToDo' = workToDo /\ executed' = executed
      /\ queueTail' = queueTail
      /\ pc' = [pc EXCEPT ![b] = "deq_unlock"] /\ pc[b] = "deq_advance"
  BY DEF DequeueAdvance, Goto
<1>2. Hand[b] = NoTask
  BY <1>1, HandTypes DEF Has
<1>3. Hand' = [Hand EXCEPT ![b] = taskQueue[queueHead]]
  <2>1. workToDo[b] = taskQueue[queueHead] /\ pc'[b] = "deq_unlock"
    BY <1>1 DEF Hands, IInv, TypeOK, Threads
  <2>2. \A d \in bees : d # b => pc'[d] = pc[d]
    BY <1>1 DEF IInv, TypeOK, Threads
  <2> QED BY <1>1, <2>1, <2>2 DEF Hand, Has
<1> QED BY <1>1, <1>2, <1>3, InUseShrinks DEF IInv, TypeOK

LEMMA ExecuteMoves ==
    ASSUME IInv, NEW b \in bees, Execute(b) \/ Drops(b)
    PROVE  /\ UNCHANGED queueVars /\ Hand[b] \in Tasks /\ Hand' = [Hand EXCEPT ![b] = NoTask]
           /\ Execute(b) => executed' = executed \cup {Hand[b]}
           /\ Drops(b) => executed' = executed
<1>1. /\ UNCHANGED queueVars /\ workToDo' = [workToDo EXCEPT ![b] = NoTask]
      /\ (Goto(b, "sem_wait") \/ Goto(b, "exited")) /\ pc[b] \in Has
      /\ Execute(b) => executed' = executed \cup {workToDo[b]}
      /\ Drops(b) => executed' = executed
  BY DEF Execute, Drops, Cancelled, Has
<1>2. Hand[b] = workToDo[b] /\ Hand[b] \in Tasks
  BY <1>1, HandTypes
<1>3. Hand' = [Hand EXCEPT ![b] = NoTask]
  <2>1. pc'[b] \notin Has
    BY <1>1 DEF Goto, Has, IInv, TypeOK, Threads
  <2>2. \A d \in bees : d # b => pc'[d] = pc[d] /\ workToDo'[d] = workToDo[d]
    BY <1>1 DEF Goto, IInv, TypeOK, Threads
  <2> QED BY <2>1, <2>2 DEF Hand
<1> QED BY <1>1, <1>2, <1>3

(* What is at hand stays right: the mutex keeps the indices still between  *)
(* the two steps of a critical section, and a submitter goes on to its     *)
(* next task only after it has posted.                                     *)
LEMMA HandsStep ==
    ASSUME IInv, Hands, [Next]_vars
    PROVE  Hands'
<1> USE DEF IInv, TypeOK, Hands, Goto, queueVars, mainVars, Threads
<1>1. ASSUME NEW s \in Submitters, EnqueueLock(s) \/ EnqueueFull(s) \/ EnqueueUnlock(s)
      PROVE  Hands'
  BY <1>1, ThreadsApart DEF EnqueueLock, EnqueueFull, EnqueueUnlock
<1>2. ASSUME NEW s \in Submitters, EnqueueStore(s) PROVE Hands'
  <2>1. \A t \in Threads : pc[t] \notin {"enq_advance", "deq_advance"}
    BY <1>2 DEF EnqueueStore, Mutex, InEnqueue, InDequeue
  <2>2. \A t \in Threads : pc'[t] \in {"enq_advance", "deq_advance"} => t = s
    BY <1>2, <2>1 DEF EnqueueStore
  <2>3. \A b \in bees : pc'[b] # "deq_advance"
    BY <2>2, ThreadsApart
  <2>4. taskQueue'[queueTail'] = <<s, next'[s]>>
    BY <1>2 DEF EnqueueStore
  <2> QED BY <2>2, <2>3, <2>4
<1>3. ASSUME NEW s \in Submitters, EnqueueAdvance(s) PROVE Hands'
  <2>1. \A t \in Threads : pc'[t] # "enq_advance"
    BY <1>3 DEF EnqueueAdvance, Mutex, InEnqueue, InDequeue
  <2> QED BY <1>3, <2>1, ThreadsApart DEF EnqueueAdvance
<1>4. ASSUME NEW s \in Submitters, Post(s) PROVE Hands'
  BY <1>4, ThreadsApart DEF Post, NextTask
<1>5. ASSUME NEW b \in bees, SemWait(b) \/ DequeueLock(b) \/ DequeueUnlock(b)
      PROVE  Hands'
  BY <1>5, ThreadsApart DEF SemWait, DequeueLock, DequeueUnlock
<1>6. ASSUME NEW b \in bees, DequeueRead(b) PROVE Hands'
  BY <1>6, ThreadsApart DEF DequeueRead
<1>7. ASSUME NEW b \in bees, DequeueAdvance(b) PROVE Hands'
  <2>1. \A t \in Threads : pc'[t] # "deq_advance"
    BY <1>7 DEF DequeueAdvance, Mutex, InEnqueue, InDequeue
  <2> QED BY <1>7, <2>1, ThreadsApart DEF DequeueAdvance
<1>8. ASSUME NEW b \in bees, Execute(b) \/ Cancelled(b) PROVE Hands'
  BY <1>8, ThreadsApart DEF Execute, Cancelled
<1>9. ASSUME CreateBee PROVE Hands'
  <2>1. pc' = [pc EXCEPT ![bee] = "sem_wait"] /\ UNCHANGED <<queueVars, workToDo, next>>
    BY <1>9 DEF CreateBee
  <2> QED BY <2>1, ThreadsApart
<1>10. ASSUME UNCHANGED <<queueVars, workToDo, next, pc>> PROVE Hands'
  BY <1>10
<1> QED
  BY <1>1, <1>2, <1>3, <1>4, <1>5, <1>6, <1>7, <1>8, <1>9, <1>10
     DEF Next, submit, worker, mainThread, Shutdown, CancelBee, JoinBee, Destroy, Exited, vars

(* An accepted task stays accepted: its submitter goes on to the next one. *)
LEMMA PastKept ==
    ASSUME IInv, [Next]_vars
    PROVE  Past \subseteq Past'
<1> SUFFICES ASSUME NEW x \in Past PROVE x \in Past'
  OBVIOUS
<1> DEFINE q == x[1]
           In == {"enq_unlock", "post"}
<1>1. q \in Submitters /\ x[2] \in Nat /\ next[q] \in Nat /\ x \in Tasks
  BY PoolAssumption DEF Past, Tasks, IInv, TypeOK
<1> USE DEF Goto, Threads
<1>2. \/ next'[q] = next[q] /\ (pc[q] \in In => pc'[q] \in In)
      \/ next'[q] = next[q] + 1
  <2> USE DEF IInv, TypeOK, mainVars
  <2>1. ASSUME NEW s \in Submitters, submit(s) PROVE <1>2
    <3>1. CASE Post(s)
      BY <1>1, <3>1 DEF Post, NextTask
    <3>2. CASE EnqueueLock(s) \/ EnqueueFull(s) \/ EnqueueStore(s) \/ EnqueueAdvance(s)
      BY <1>1, <3>2 DEF EnqueueLock, EnqueueFull, EnqueueStore, EnqueueAdvance
    <3>3. CASE EnqueueUnlock(s)
      BY <1>1, <3>3 DEF EnqueueUnlock
    <3> QED BY <2>1, <3>1, <3>2, <3>3 DEF submit
  <2>2. ASSUME NEW b \in bees, worker(b) PROVE <1>2
    <3>1. next' = next /\ \E l : Goto(b, l)
      BY <2>2 DEF worker, SemWait, DequeueLock, DequeueRead, DequeueAdvance, DequeueUnlock,
                  Execute, Cancelled
    <3> QED BY <1>1, <3>1, ThreadsApart
  <2>3. CASE CreateBee
    <3>1. pc' = [pc EXCEPT ![bee] = "sem_wait"] /\ next' = next
      BY <2>3 DEF CreateBee
    <3> QED BY <1>1, <3>1, ThreadsApart
  <2>4. CASE UNCHANGED <<next, pc>>
    BY <2>4
  <2> QED BY <2>1, <2>2, <2>3, <2>4
          DEF Next, mainThread, Shutdown, CancelBee, JoinBee, Destroy, Exited, vars
<1>3. x[2] < next[q] \/ (x[2] = next[q] /\ pc[q] \in In)
  BY DEF Past, Accepted
<1>4. x[2] < next'[q] \/ (x[2] = next'[q] /\ pc'[q] \in In)
  BY <1>1, <1>2, <1>3
<1> QED BY <1>1, <1>4 DEF Past, Accepted

LEMMA NoneToComeStep ==
    ASSUME IInv, HInv, [Next]_vars
    PROVE  NoneToCome'
<1>1. Past \subseteq Past' /\ NoneToCome /\ Hands
  BY PastKept DEF HInv
<1>2. DOMAIN Hand = bees
  BY HandTypes
<1> USE DEF NoneToCome
<1>3. CASE Quiet
  <2>1. \A i \in Slots : InUse(i)' <=> InUse(i)
    BY <1>3 DEF Quiet, InUse
  <2> QED BY <1>1, <1>3, <2>1 DEF Quiet
<1>4. ASSUME NEW s \in Submitters, EnqueueAdvance(s) PROVE NoneToCome'
  BY <1>1, <1>4, EnqueueMoves
<1>5. ASSUME NEW b \in bees, DequeueAdvance(b) PROVE NoneToCome'
  BY <1>1, <1>2, <1>5, DequeueMoves
<1>6. ASSUME NEW b \in bees, Execute(b) \/ Drops(b) PROVE NoneToCome'
  <2>1. /\ UNCHANGED queueVars /\ Hand[b] \in Tasks /\ Hand' = [Hand EXCEPT ![b] = NoTask]
        /\ executed' = executed \/ executed' = executed \cup {Hand[b]}
    BY <1>6, ExecuteMoves
  <2>2. \A i \in Slots : InUse(i)' <=> InUse(i)
    BY <2>1 DEF queueVars, InUse
  <2> QED BY <1>1, <1>2, <2>1, <2>2, ThreadAssumption DEF queueVars
<1> QED BY <1>3, <1>4, <1>5, <1>6, StepKinds

LEMMA ApartStep ==
    ASSUME IInv, HInv, [Next]_vars
    PROVE  Apart'
<1>1. NoneToCome /\ Apart /\ Hands
  BY DEF HInv
<1>2. /\ DOMAIN Hand = bees
      /\ NoTask \notin executed
      /\ \A i \in Slots : InUse(i) => taskQueue[i] # NoTask
  BY HandTypes, ThreadAssumption DEF IInv, TypeOK, Filled
<1> USE DEF Apart
<1>3. CASE Quiet
  <2>1. \A i \in Slots : InUse(i)' <=> InUse(i)
    BY <1>3 DEF Quiet, InUse
  <2> QED BY <1>1, <1>3, <2>1 DEF Quiet
<1>4. ASSUME NEW s \in Submitters, EnqueueAdvance(s) PROVE Apart'
  <2> DEFINE x == taskQueue[queueTail]
  <2>1. /\ taskQueue' = taskQueue /\ Hand' = Hand /\ executed' = executed
        /\ x \notin Past /\ queueTail \in Slots
        /\ \A i \in Slots : InUse(i)' <=> InUse(i) \/ i = queueTail
    BY <1>1, <1>4, EnqueueMoves
  <2>2. x # NoTask
    BY <1>1, <1>4, ThreadAssumption DEF IInv, Room, EnqueueAdvance
  <2>3. \A i \in Slots : InUse(i) => taskQueue[i] # x
    BY <1>1, <2>1 DEF NoneToCome
  <2>4. \A b \in bees : Hand[b] # x
    BY <1>1, <2>1, <2>2 DEF NoneToCome
  <2>5. x \notin executed
    BY <1>1, <2>1 DEF NoneToCome
  <2> HIDE DEF x
  <2>6. \A i \in Slots : InUse(i)' => \/ InUse(i) /\ taskQueue'[i] = taskQueue[i]
                                      \/ i = queueTail /\ taskQueue'[i] = x
    BY <2>1 DEF x
  <2> QED BY <1>1, <2>1, <2>3, <2>4, <2>5, <2>6
<1>5. ASSUME NEW b \in bees, DequeueAdvance(b) PROVE Apart'
  <2> DEFINE x == taskQueue[queueHead]
  <2>1. /\ taskQueue' = taskQueue /\ executed' = executed
        /\ Hand[b] = NoTask /\ Hand' = [Hand EXCEPT ![b] = x]
        /\ queueHead \in Slots /\ InUse(queueHead)
        /\ \A i \in Slots : InUse(i)' <=> InUse(i) /\ i # queueHead
    BY <1>1, <1>5, DequeueMoves
  <2>2. /\ x # NoTask /\ x \notin executed /\ \A d \in bees : Hand[d] # x
        /\ \A i \in Slots : InUse(i)' => taskQueue[i] # x
    BY <1>1, <1>2, <2>1
  <2> HIDE DEF x
  <2>3. Hand'[b] = x /\ \A d \in bees : d # b => Hand'[d] = Hand[d]
    BY <1>2, <2>1
  <2> QED BY <1>1, <2>1, <2>2, <2>3
<1>6. ASSUME NEW b \in bees, Execute(b) \/ Drops(b) PROVE Apart'
  <2> DEFINE x == Hand[b]
  <2>1. /\ UNCHANGED queueVars /\ x \in Tasks /\ Hand' = [Hand EXCEPT ![b] = NoTask]
        /\ executed' = executed \/ executed' = executed \cup {x}
    BY <1>6, ExecuteMoves
  <2>2. \A i \in Slots : (InUse(i)' <=> InUse(i)) /\ taskQueue'[i] = taskQueue[i]
    BY <2>1 DEF queueVars, InUse
  <2>3. x # NoTask /\ Hand'[b] = NoTask /\ \A d \in bees : d # b => Hand'[d] = Hand[d]
    BY <1>2, <2>1, ThreadAssumption
  <2>4. /\ \A d \in bees : d # b => Hand[d] # x
        /\ \A i \in Slots : InUse(i) => taskQueue[i] # x
    BY <1>1, <2>3
  <2>5. NoTask \notin executed'
    BY <1>2, <2>1, <2>3
  <2> HIDE DEF x
  <2>6. \A d \in bees : Hand'[d] # x /\ (d # b => Hand'[d] = Hand[d]) /\ Hand'[b] = NoTask
    BY <2>3, <2>4
  <2>7. \A d \in bees : Hand'[d] \notin executed'
    BY <1>1, <2>1, <2>5, <2>6
  <2>8. \A i \in Slots : InUse(i)' => taskQueue'[i] \notin executed'
    BY <1>1, <2>1, <2>2, <2>4
  <2>9. \A i \in Slots, d \in bees : InUse(i)' => taskQueue'[i] # Hand'[d]
    BY <1>1, <1>2, <2>2, <2>6
  <2> QED BY <1>1, <2>2, <2>6, <2>7, <2>8, <2>9
<1> QED BY <1>3, <1>4, <1>5, <1>6, StepKinds


THEOREM HandOffStep ==
    ASSUME IInv, HInv, [Next]_vars
    PROVE  HInv'
<1>1. Hands' /\ NoneToCome' /\ Apart'
  BY HandsStep, NoneToComeStep, ApartStep DEF HInv
<1>2. LoopInv'
  BY LoopStep DEF HInv, IInv
<1> QED BY <1>1, <1>2 DEF HInv
-----------------------------------------------------------------------------
(* The ring as a line of tasks.                                            *)

(* The k-th task from the head is in a slot in use.                        *)
LEMMA RingIndex ==
    ASSUME TypeOK, NEW k \in Nat, 1 <= k, k <= InQueue + 1
    PROVE  /\ (queueHead + k - 1) % (QUEUE_SIZE + 1) \in Slots
           /\ k <= InQueue => InUse((queueHead + k - 1) % (QUEUE_SIZE + 1))
           /\ k = InQueue + 1 => (queueHead + k - 1) % (QUEUE_SIZE + 1) = queueTail
<1> DEFINE N == QUEUE_SIZE + 1
           x == queueHead + k - 1
<1>1. /\ N \in Nat \ {0} /\ queueHead \in 0 .. N - 1 /\ queueTail \in 0 .. N - 1
      /\ InQueue = IF queueHead <= queueTail THEN queueTail - queueHead
                                                ELSE queueTail - queueHead + N
  BY PoolAssumption DEF TypeOK, Slots, InQueue
<1>2. x \in Nat /\ x < N + N
  BY <1>1
<1> HIDE DEF x, N
<1>3. x % N = (IF x < N THEN x ELSE x - N)
  BY <1>1, <1>2, ModOnce
<1> USE DEF x
<1>4. /\ x % N \in 0 .. N - 1
      /\ k <= InQueue => InUse(x % N)
      /\ k = InQueue + 1 => x % N = queueTail
  BY <1>1, <1>3 DEF InUse
<1> QED BY <1>4, PoolAssumption DEF N, Slots

LEMMA ContentsIsWindow ==
    QueueContents = Window(taskQueue, queueHead, InQueue, QUEUE_SIZE + 1)
  BY DEF QueueContents, Window

(* It holds the tasks in the slots in use, and no others.                  *)
LEMMA ContentsType ==
    ASSUME IInv
    PROVE  /\ Cells(taskQueue, queueHead, InQueue, QUEUE_SIZE + 1, Tasks)
           /\ InQueue \in Nat
           /\ QueueContents \in Seq(Tasks) /\ Len(QueueContents) = InQueue
           /\ \A k \in 1 .. InQueue : \E i \in Slots : InUse(i) /\ QueueContents[k] = taskQueue[i]
<1>1. TypeOK /\ Filled /\ InQueue \in Nat
  BY InQueueRange DEF IInv
<1>2. ASSUME NEW k \in 1 .. InQueue
      PROVE  \E i \in Slots : InUse(i) /\ Cell(taskQueue, queueHead, k, QUEUE_SIZE + 1) = taskQueue[i]
  <2>1. k \in Nat /\ 1 <= k /\ k <= InQueue /\ k <= InQueue + 1
    BY <1>1
  <2>2. /\ (queueHead + k - 1) % (QUEUE_SIZE + 1) \in Slots
        /\ InUse((queueHead + k - 1) % (QUEUE_SIZE + 1))
    BY <1>1, <2>1, RingIndex
  <2> QED BY <2>2 DEF Cell
<1>3. Cells(taskQueue, queueHead, InQueue, QUEUE_SIZE + 1, Tasks)
  BY <1>1, <1>2 DEF Cells, Filled
<1>4. /\ QueueContents \in Seq(Tasks) /\ Len(QueueContents) = InQueue
      /\ \A k \in 1 .. InQueue :
             QueueContents[k] = Cell(taskQueue, queueHead, k, QUEUE_SIZE + 1)
  BY <1>1, <1>3, WindowSeq, ContentsIsWindow
<1> QED BY <1>1, <1>2, <1>3, <1>4

(* As long as the slots in use hold what they held, it is the same line.   *)
LEMMA ContentsKept ==
    ASSUME IInv, queueHead' = queueHead, queueTail' = queueTail,
           \A i \in Slots : InUse(i) => taskQueue'[i] = taskQueue[i]
    PROVE  QueueContents' = QueueContents
<1>1. InQueue' = InQueue /\ InQueue \in Nat /\ TypeOK
  BY InQueueRange DEF InQueue, IInv
<1>2. ASSUME NEW k \in 1 .. InQueue
      PROVE  taskQueue'[(queueHead + k - 1) % (QUEUE_SIZE + 1)]
                 = taskQueue[(queueHead + k - 1) % (QUEUE_SIZE + 1)]
  <2>1. k \in Nat /\ 1 <= k /\ k <= InQueue /\ k <= InQueue + 1
    BY <1>1
  <2>2. /\ (queueHead + k - 1) % (QUEUE_SIZE + 1) \in Slots
        /\ InUse((queueHead + k - 1) % (QUEUE_SIZE + 1))
    BY <1>1, <2>1, RingIndex
  <2> QED BY <2>2
<1> HIDE DEF InQueue
<1> QED BY <1>1, <1>2 DEF QueueContents

(* enqueue appends, dequeue takes the first.                               *)
LEMMA ContentsAppend ==
    ASSUME IInv, NEW s \in Submitters, EnqueueAdvance(s)
    PROVE  QueueContents' = Append(QueueContents, taskQueue[queueTail])
<1> DEFINE N == QUEUE_SIZE + 1
<1>1. InQueue' = InQueue + 1 /\ taskQueue' = taskQueue /\ queueHead' = queueHead
  BY InUseGrows DEF EnqueueAdvance
<1>2. TypeOK /\ InQueue \in Nat /\ taskQueue[queueTail] \in Tasks
  BY InQueueRange DEF IInv, Room, EnqueueAdvance
<1>3. Cell(taskQueue, queueHead, InQueue + 1, N) = taskQueue[queueTail]
  <2> DEFINE k == InQueue + 1
  <2>1. k \in Nat /\ 1 <= k /\ k <= InQueue + 1 /\ k = InQueue + 1
    BY <1>2
  <2> HIDE DEF k
  <2>2. (queueHead + k - 1) % N = queueTail
    BY <1>2, <2>1, RingIndex
  <2> QED BY <2>2 DEF Cell, k
<1>4. Cells(taskQueue, queueHead, InQueue + 1, N, Tasks)
  <2>1. Cells(taskQueue, queueHead, InQueue, N, Tasks)
    BY ContentsType
  <2>2. \A k \in 1 .. InQueue + 1 : k \in 1 .. InQueue \/ k = InQueue + 1
    BY <1>2
  <2> HIDE DEF N
  <2> QED BY <1>2, <1>3, <2>1, <2>2 DEF Cells
<1> HIDE DEF N
<1>5. Window(taskQueue, queueHead, InQueue + 1, N)
          = Append(Window(taskQueue, queueHead, InQueue, N), Cell(taskQueue, queueHead, InQueue + 1, N))
  BY <1>2, <1>4, WindowGrows
<1>6. QueueContents' = Window(taskQueue, queueHead, InQueue + 1, N)
  BY <1>1 DEF QueueContents, Window, N
<1> QED BY <1>3, <1>5, <1>6, ContentsIsWindow DEF N

LEMMA ContentsTail ==
    ASSUME IInv, NEW b \in bees, DequeueAdvance(b)
    PROVE  /\ QueueContents # <<>> /\ Head(QueueContents) = taskQueue[queueHead]
           /\ QueueContents' = Tail(QueueContents)
<1> DEFINE N == QUEUE_SIZE + 1
           i == (queueHead + 1) % N
           m == InQueue - 1
<1>1. InQueue' = m /\ taskQueue' = taskQueue /\ queueHead' = i
  BY InUseShrinks DEF DequeueAdvance, Succ
<1>2. N \in Nat \ {0} /\ queueHead \in 0 .. N - 1 /\ InQueue \in 1 .. N
  BY InQueueRange, TokenNonEmpty, PoolAssumption DEF IInv, TypeOK, Slots, DequeueAdvance, Claiming
<1>3. Cells(taskQueue, queueHead, InQueue, N, Tasks)
  BY ContentsType
<1>4. QueueContents' = Window(taskQueue, i, m, N)
  BY <1>1 DEF QueueContents, Window
<1>5. QueueContents = Window(taskQueue, queueHead, InQueue, N)
  BY ContentsIsWindow
<1>6. i = (queueHead + 1) % N /\ m = InQueue - 1
  OBVIOUS
<1> HIDE DEF N, i, m
<1>7. /\ Window(taskQueue, queueHead, InQueue, N) # <<>>
      /\ Head(Window(taskQueue, queueHead, InQueue, N)) = taskQueue[queueHead]
  BY <1>2, <1>3, WindowHead
<1>8. Window(taskQueue, i, m, N) = Tail(Window(taskQueue, queueHead, InQueue, N))
  BY <1>2, <1>3, <1>6, WindowTail
<1> QED BY <1>4, <1>5, <1>7, <1>8
-----------------------------------------------------------------------------
(* The pool implements the line of HandOff.                                *)

LEMMA InitialHandOff ==
    ASSUME Init
    PROVE  HInv /\ Line!Init
<1> USE PoolAssumption DEF Init
<1>1. Hands
  BY DEF Hands, Threads
<1>2. Hand = [b \in bees |-> NoTask]
  BY DEF Hand, Has, Threads
<1>3. \A i \in Slots : ~InUse(i)
  BY DEF InUse, Slots
<1>4. NoneToCome /\ Apart
  BY <1>2, <1>3 DEF NoneToCome, Apart
<1>5. LoopInv /\ ShuttingDown = FALSE
  BY ThreadsApart DEF LoopInv, ShuttingDown, Threads
<1>6. QueueContents = <<>>
  <2>1. InQueue = 0
    BY DEF InQueue
  <2> QED BY <2>1 DEF QueueContents
<1>7. Line!Init
  BY <1>2, <1>5, <1>6 DEF Line!Init, Hand, Has
<1> QED BY <1>1, <1>4, <1>5, <1>7 DEF HInv

LEMMA PutStep ==
    ASSUME IInv, HInv, NEW s \in Submitters, EnqueueAdvance(s)
    PROVE  Line!Next
<1> DEFINE x == taskQueue[queueTail]
<1>1. /\ Hand' = Hand /\ executed' = executed /\ x \notin Past
  BY EnqueueMoves DEF HInv
<1>2. QueueContents' = Append(QueueContents, x)
  BY ContentsAppend
<1>3. x \in Tasks
  BY DEF IInv, Room, EnqueueAdvance
<1>4. Len(QueueContents) < QUEUE_SIZE
  <2>1. InQueue \in 0 .. QUEUE_SIZE /\ InQueue # QUEUE_SIZE
    BY InQueueRange DEF EnqueueAdvance, IInv, Room
  <2>2. Len(QueueContents) = InQueue /\ QUEUE_SIZE \in Nat
    BY ContentsType, PoolAssumption
  <2> QED BY <2>1, <2>2
<1>5. x \notin executed /\ \A b \in bees : Hand[b] # x
  BY <1>1, <1>3, ThreadAssumption DEF HInv, NoneToCome
<1>6. \A i \in 1 .. Len(QueueContents) : QueueContents[i] # x
  <2>1. \A i \in Slots : InUse(i) => taskQueue[i] # x
    BY <1>1 DEF HInv, NoneToCome
  <2> HIDE DEF x
  <2> QED BY <2>1, ContentsType
<1>7. ~ShuttingDown /\ ShuttingDown' = ShuttingDown
  BY DEF EnqueueAdvance, HInv, LoopInv, ShuttingDown, mainVars
<1> HIDE DEF x
<1>8. Line!Put(x)
  BY <1>1, <1>2, <1>4, <1>5, <1>6, <1>7 DEF Line!Put, Hand, Has
<1> QED BY <1>3, <1>8 DEF Line!Next

LEMMA TakeStep ==
    ASSUME IInv, HInv, NEW b \in bees, DequeueAdvance(b)
    PROVE  Line!Next
<1>1. /\ executed' = executed /\ Hand[b] = NoTask
      /\ Hand' = [Hand EXCEPT ![b] = Head(QueueContents)]
  BY DequeueMoves, ContentsTail DEF HInv
<1>2. QueueContents # <<>> /\ QueueContents' = Tail(QueueContents)
  BY ContentsTail
<1>3. ShuttingDown' = ShuttingDown
  BY DEF DequeueAdvance, mainVars, ShuttingDown
<1>4. Line!Take(b)
  BY <1>1, <1>2, <1>3 DEF Line!Take, Hand, Has
<1> QED BY <1>4 DEF Line!Next

LEMMA ExecuteStep ==
    ASSUME IInv, HInv, NEW b \in bees, Execute(b) \/ Drops(b)
    PROVE  Line!Next
<1>1. /\ UNCHANGED queueVars /\ Hand[b] \in Tasks /\ Hand' = [Hand EXCEPT ![b] = NoTask]
      /\ Execute(b) => executed' = executed \cup {Hand[b]}
      /\ Drops(b) => executed' = executed
  BY ExecuteMoves
<1>2. QueueContents' = QueueContents
  BY <1>1, ContentsKept DEF queueVars
<1>3. ShuttingDown' = ShuttingDown
  BY DEF Execute, Drops, Cancelled, mainVars, ShuttingDown
<1>4. CASE Execute(b)
  <2>1. Hand[b] \notin executed
    BY DEF HInv, Apart
  <2>2. Line!Finish(b)
    BY <1>1, <1>2, <1>3, <1>4, <2>1 DEF Line!Finish, Hand, Has
  <2> QED BY <2>2 DEF Line!Next
<1>5. CASE Drops(b)
  <2>1. ShuttingDown
    BY <1>5 DEF HInv, LoopInv, ShuttingDown, Drops, Cancelled, IInv, TypeOK
  <2>2. Hand[b] # NoTask
    BY <1>1, ThreadAssumption
  <2>3. Line!Abandon(b)
    BY <1>1, <1>2, <1>3, <1>5, <2>1, <2>2 DEF Line!Abandon, Hand, Has
  <2> QED BY <2>3 DEF Line!Next
<1> QED BY <1>4, <1>5

(* pool_shutdown is entered once.                                          *)
LEMMA ShuttingDownStep ==
    ASSUME IInv, [Next]_vars
    PROVE  \/ ShuttingDown' = ShuttingDown
           \/ ShuttingDown' = TRUE /\ ShuttingDown = FALSE
<1> USE DEF ShuttingDown
<1>1. CASE UNCHANGED mainVars
  BY <1>1 DEF mainVars
<1>2. CASE CreateBee
  BY <1>2 DEF CreateBee, LoopBees
<1>3. CASE Shutdown
  BY <1>3 DEF Shutdown
<1>4. CASE CancelBee \/ JoinBee \/ Destroy
  BY <1>4 DEF CancelBee, JoinBee, Destroy, LoopBees
<1>5. ASSUME NEW s \in Submitters, submit(s) PROVE UNCHANGED mainVars
  BY <1>5 DEF submit, EnqueueLock, EnqueueFull, EnqueueStore, EnqueueAdvance, EnqueueUnlock, Post
<1>6. ASSUME NEW b \in bees, worker(b) PROVE UNCHANGED mainVars
  BY <1>6 DEF worker, SemWait, DequeueLock, DequeueRead, DequeueAdvance, DequeueUnlock, Execute,
              Cancelled
<1>7. UNCHANGED vars => UNCHANGED mainVars
  BY DEF vars
<1> QED BY <1>1, <1>2, <1>3, <1>4, <1>5, <1>6, <1>7 DEF Next, mainThread, Exited

LEMMA QuietStep ==
    ASSUME IInv, [Next]_vars, Quiet
    PROVE  [Line!Next]_(Line!vars)
<1>1. QueueContents' = QueueContents /\ Hand' = Hand /\ executed' = executed
  BY ContentsKept DEF Quiet
<1>2. CASE ShuttingDown' = ShuttingDown
  BY <1>1, <1>2 DEF Line!vars, Hand, Has
<1>3. CASE ShuttingDown' = TRUE /\ ShuttingDown = FALSE
  <2>1. Line!Close
    BY <1>1, <1>3 DEF Line!Close, Hand, Has
  <2> QED BY <2>1 DEF Line!Next
<1> QED BY <1>2, <1>3, ShuttingDownStep

(* Whatever submitters, bees and main do, and whenever bees are cancelled: *)
(* the ring, the mutex and the semaphore are a first-in first-out line of  *)
(* at most QUEUE_SIZE tasks from which each task is taken once, by one     *)
(* bee, and run at most once; only during pool_shutdown may one get lost.  *)
THEOREM HandsOff == Spec => ImplementsHandOff
<1>1. Init => HInv /\ Line!Init
  BY InitialHandOff
<1>2. IInv /\ HInv /\ [Next]_vars => HInv'
  BY HandOffStep
<1>3. IInv /\ HInv /\ [Next]_vars => [Line!Next]_(Line!vars)
  BY StepKinds, QuietStep, PutStep, TakeStep, ExecuteStep
<1> QED BY <1>1, <1>2, <1>3, Invariance, PTL DEF Spec, ImplementsHandOff, Line!Spec
=============================================================================
