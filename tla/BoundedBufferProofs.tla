------------------------- MODULE BoundedBufferProofs -------------------------
(***************************************************************************)
(* Theorems about BoundedBuffer, for any number of producers, consumers    *)
(* and items and any size of the buffer.                                   *)
(*                                                                         *)
(* insert_item and remove_item test nothing.  That the ring has a free     *)
(* slot when a producer moves the tail follows from the unit of empty it   *)
(* has taken, that it is not empty when a consumer moves the head from the *)
(* unit of full, through the two sums of Balance; that what is fetched is  *)
(* an item follows from Filled and AtHand, with one thread at a time in    *)
(* the critical section (Mutex).                                           *)
(*                                                                         *)
(* A second invariant, HInv, says where each item is: in the buffer, with  *)
(* a consumer, consumed or dropped, and in one place only.  With it each   *)
(* step is shown to be a step of HandOff or to leave that unchanged.       *)
(***************************************************************************)
EXTENDS BoundedBuffer, Counting

Claiming  == {"lock", "access", "advance"}
Critical  == {"access", "advance", "unlock"}
Releasing == {"unlock", "sem_post"}

(* The slots from the head up to the tail.                                 *)
InUse(x) == IF bufferHead <= bufferTail
            THEN bufferHead <= x /\ x < bufferTail
            ELSE bufferHead <= x \/ x < bufferTail

Balance ==
    /\ InBuffer = full + Cardinality(At(Consumers, Claiming))
                       + Cardinality(At(Producers, Releasing))
    /\ BUFFER_SIZE - InBuffer = empty + Cardinality(At(Producers, Claiming))
                                      + Cardinality(At(Consumers, Releasing))

(* The thread in a critical section is the one that holds the mutex.       *)
Mutex == /\ \A t \in Threads : pc[t] \in Critical => lock = t
         /\ lock # NoOne => pc[lock] \in Critical

Filled == \A x \in Slots : InUse(x) => buffer[x] \in Items

(* Between its start and its end a thread has an item in its local; a      *)
(* producer about to move the tail has stored it.                          *)
AtHand ==
    /\ \A p \in Producers : pc[p] \notin {"none", "sleep", "exited"} => item[p] \in Items
    /\ \A p \in Producers : pc[p] = "advance" => buffer[bufferTail] \in Items
    /\ \A c \in Consumers :
           pc[c] \in {"advance", "unlock", "sem_post", "print"} => item[c] \in Items

(* The main thread's loops: threads not created yet, and those joined.     *)
Loops ==
    /\ main = "create" => \A t \in Threads : cur <= t => pc[t] = "none"
    /\ main = "sleep" => cur = 1
    /\ main \in {"cancel", "join", "sleep3"} =>
           \A t \in Threads : t < cur => pc[t] = "exited"
    /\ main \in {"destroy", "exit"} => \A t \in Threads : pc[t] = "exited"

IInv == TypeOK /\ Balance /\ Mutex /\ Filled /\ AtHand /\ Loops
-----------------------------------------------------------------------------
(* Facts about threads and the ring's indices.                             *)

(* Producers and consumers are different threads, finitely many of each.   *)
LEMMA ThreadsApart ==
    /\ NoOne \notin Threads /\ NoItem \notin Items
    /\ \A p \in Producers, c \in Consumers : p # c
    /\ IsFiniteSet(Producers) /\ IsFiniteSet(Consumers)
    /\ Threads = 1 .. Last /\ Last \in Nat
<1>1. IsFiniteSet(Producers) /\ IsFiniteSet(Consumers)
  BY FS_Interval, BufferAssumption DEF Producers, Consumers
<1>2. \A p \in Producers, c \in Consumers : p # c
  BY BufferAssumption DEF Producers, Consumers
<1>3. Threads = 1 .. Last /\ Last \in Nat
  BY BufferAssumption DEF Threads, Producers, Consumers, Last
<1> QED BY <1>1, <1>2, <1>3, BufferValues

(* The step to the next slot, without the modulus.                         *)
LEMMA SuccValue ==
    ASSUME NEW x \in Slots
    PROVE  Succ(x) = IF x = BUFFER_SIZE THEN 0 ELSE x + 1
<1>1. CASE x = BUFFER_SIZE
  BY <1>1, BufferAssumption DEF Succ, Slots
<1>2. CASE x # BUFFER_SIZE
  BY <1>2, BufferAssumption DEF Succ, Slots
<1> QED BY <1>1, <1>2

(* The number of items in the ring is at most BUFFER_SIZE.                 *)
LEMMA InBufferRange ==
    ASSUME TypeOK
    PROVE  InBuffer \in 0 .. BUFFER_SIZE /\ (InBuffer = 0 <=> bufferHead = bufferTail)
  BY BufferAssumption DEF TypeOK, InBuffer, Slots

(* The number of threads at a label is a number.                           *)
LEMMA Counts ==
    ASSUME NEW S \in {Producers, Consumers}, NEW L
    PROVE  Cardinality(At(S, L)) \in Nat
<1>1. IsFiniteSet(At(S, L))
  BY ThreadsApart, FS_Subset, At(S, L) \in SUBSET S DEF At
<1> QED BY <1>1, FS_CardinalityType

(* A consumer that has passed sem_wait finds an item in the ring.          *)
LEMMA ItemForConsumer ==
    ASSUME IInv, NEW c \in Consumers, pc[c] \in Claiming
    PROVE  InBuffer > 0 /\ bufferHead # bufferTail
<1>1. Cardinality(At(Consumers, Claiming)) > 0
  BY ThreadsApart, CountPositive DEF At
<1>2. InBuffer > 0
  BY <1>1, Counts DEF IInv, TypeOK, Balance
<1> QED BY <1>2, InBufferRange DEF IInv

(* A producer that has passed sem_wait finds room in it.                   *)
LEMMA RoomForProducer ==
    ASSUME IInv, NEW p \in Producers, pc[p] \in Claiming
    PROVE  InBuffer < BUFFER_SIZE
<1>1. Cardinality(At(Producers, Claiming)) > 0
  BY ThreadsApart, CountPositive DEF At
<1>2. BUFFER_SIZE - InBuffer > 0
  BY <1>1, Counts DEF IInv, TypeOK, Balance
<1> QED BY <1>2, InBufferRange, BufferAssumption DEF IInv

(* insert_item fills one slot more, remove_item frees one.                 *)
LEMMA InBufferGrows ==
    ASSUME IInv, NEW p \in Producers, InsertAdvance(p)
    PROVE  InBuffer' = InBuffer + 1
<1>1. InBuffer < BUFFER_SIZE
  BY RoomForProducer DEF InsertAdvance, Claiming
<1> QED BY <1>1, SuccValue, BufferAssumption DEF IInv, TypeOK, InsertAdvance, InBuffer, Slots

LEMMA InBufferShrinks ==
    ASSUME IInv, NEW c \in Consumers, RemoveAdvance(c)
    PROVE  InBuffer' = InBuffer - 1
<1>1. bufferHead # bufferTail
  BY ItemForConsumer DEF RemoveAdvance, Claiming
<1>2. bufferHead' = (IF bufferHead = BUFFER_SIZE THEN 0 ELSE bufferHead + 1)
  BY SuccValue DEF IInv, TypeOK, RemoveAdvance
<1>3. bufferTail' = bufferTail /\ bufferHead \in Slots /\ bufferTail \in Slots
  BY DEF IInv, TypeOK, RemoveAdvance
<1> QED BY <1>1, <1>2, <1>3, BufferAssumption DEF InBuffer, Slots

(* How the counts change when thread t moves to label l.                   *)
LEMMA CountsAfterMove ==
    ASSUME TypeOK, NEW t \in Threads, NEW l, Goto(t, l),
           NEW S \in {Producers, Consumers}, NEW L
    PROVE  Cardinality(At(S, L))' = Cardinality(At(S, L)) +
               (IF t \in S /\ pc[t] \notin L /\ l \in L THEN 1
                ELSE IF t \in S /\ pc[t] \in L /\ l \notin L THEN -1
                ELSE 0)
<1>1. DOMAIN pc = Threads /\ pc' = [pc EXCEPT ![t] = l]
  BY DEF TypeOK, Goto
<1>2. S \subseteq Threads /\ IsFiniteSet(S)
  BY ThreadsApart DEF Threads
<1>3. Cardinality({x \in S : pc'[x] \in L}) = Cardinality({x \in S : pc[x] \in L}) +
               (IF t \in S /\ pc[t] \notin L /\ l \in L THEN 1
                ELSE IF t \in S /\ pc[t] \in L /\ l \notin L THEN -1
                ELSE 0)
  BY <1>1, <1>2, CountAfterMove
<1> QED BY <1>3 DEF At
-----------------------------------------------------------------------------
(* Every step keeps each part of the invariant.                            *)

(* The variables keep their types.                                         *)
LEMMA TypeStep ==
    ASSUME IInv, [Next]_vars
    PROVE  TypeOK'
<1> USE DEF IInv, TypeOK, Goto, ringVars, semVars, mainVars, Threads
<1>1. ASSUME NEW p \in Producers, WakeProducer(p) PROVE TypeOK'
  <2>1. made[p] + 1 \in 1 .. MaxItems
    BY <1>1, BufferAssumption DEF WakeProducer
  <2>2. <<p, made[p] + 1>> \in Items
    BY <2>1 DEF Items
  <2> QED BY <1>1, <2>1, <2>2 DEF WakeProducer
<1>2. ASSUME NEW c \in Consumers, WakeConsumer(c) PROVE TypeOK'
  BY <1>2 DEF WakeConsumer
<1>3. ASSUME NEW t \in Threads, Lock(t) PROVE TypeOK'
  BY <1>3 DEF Lock
<1>4. ASSUME NEW t \in Threads, Unlock(t) PROVE TypeOK'
  BY <1>4 DEF Unlock
<1>5. ASSUME NEW p \in Producers, WaitEmpty(p) \/ PostFull(p) PROVE TypeOK'
  BY <1>5 DEF WaitEmpty, PostFull
<1>6. ASSUME NEW c \in Consumers, WaitFull(c) \/ PostEmpty(c) PROVE TypeOK'
  BY <1>6 DEF WaitFull, PostEmpty
<1>7. ASSUME NEW p \in Producers, InsertStore(p) PROVE TypeOK'
  BY <1>7 DEF InsertStore
<1>8. ASSUME NEW p \in Producers, InsertAdvance(p) PROVE TypeOK'
  BY <1>8, SuccValue, BufferAssumption DEF InsertAdvance, Slots
<1>9. ASSUME NEW c \in Consumers, RemoveFetch(c) PROVE TypeOK'
  BY <1>9 DEF RemoveFetch
<1>10. ASSUME NEW c \in Consumers, RemoveAdvance(c) PROVE TypeOK'
  BY <1>10, SuccValue, BufferAssumption DEF RemoveAdvance, Slots
<1>11. ASSUME NEW p \in Producers, PrintProduced(p) PROVE TypeOK'
  BY <1>11 DEF PrintProduced
<1>12. ASSUME NEW c \in Consumers, PrintConsumed(c) PROVE TypeOK'
  BY <1>12 DEF PrintConsumed, AtHand
<1>13. ASSUME NEW t \in Threads, Cancelled(t) PROVE TypeOK'
  BY <1>13 DEF Cancelled
<1>14. ASSUME CreateThread PROVE TypeOK'
  <2>1. cur' \in Threads
    BY <1>14, ThreadsApart DEF CreateThread
  <2> QED BY <1>14, <2>1 DEF CreateThread
<1>15. ASSUME Join PROVE TypeOK'
  <2>1. cur' \in Threads
    BY <1>15, ThreadsApart DEF Join, AfterJoin
  <2> QED BY <1>15, <2>1 DEF Join, AfterJoin
<1>16. ASSUME SleepOver \/ Cancel \/ Sleep3Over \/ Destroy PROVE TypeOK'
  BY <1>16 DEF SleepOver, Cancel, Sleep3Over, Destroy
<1>17. CASE UNCHANGED vars
  BY <1>17 DEF vars
<1> QED
  BY <1>1, <1>2, <1>3, <1>4, <1>5, <1>6, <1>7, <1>8, <1>9, <1>10, <1>11, <1>12, <1>13,
     <1>14, <1>15, <1>16, <1>17
     DEF Next, producer, consumer, mainThread, Exited

(* A step of a thread moves that thread, unless it does not exist or has   *)
(* ended, and leaves the main thread where it is.                          *)
LEMMA ThreadMoves ==
    ASSUME NEW t \in Threads,
           (t \in Producers /\ producer(t)) \/ (t \in Consumers /\ consumer(t))
    PROVE  \E l : Goto(t, l) /\ pc[t] \notin {"exited", "none"} /\ UNCHANGED <<main, cur>>
<1>1. CASE producer(t)
  BY <1>1 DEF producer, WakeProducer, WaitEmpty, Lock, InsertStore, InsertAdvance, Unlock,
              PostFull, PrintProduced, Cancelled, CancellationPoint, mainVars
<1>2. CASE consumer(t)
  BY <1>2 DEF consumer, WakeConsumer, WaitFull, Lock, RemoveFetch, RemoveAdvance, Unlock,
              PostEmpty, PrintConsumed, Cancelled, CancellationPoint, mainVars
<1> QED BY <1>1, <1>2

(* The mutex lets one thread at a time into a critical section.            *)
LEMMA MutexStep ==
    ASSUME IInv, [Next]_vars
    PROVE  Mutex'
<1> USE DEF IInv, TypeOK, Mutex, Critical, Goto, semVars, ringVars, mainVars
<1>1. ASSUME NEW t \in Threads, Lock(t) PROVE Mutex'
  BY <1>1, ThreadsApart DEF Lock
<1>2. ASSUME NEW t \in Threads, Unlock(t) PROVE Mutex'
  BY <1>2, ThreadsApart DEF Unlock
<1>3. ASSUME NEW p \in Producers, WakeProducer(p) \/ WaitEmpty(p) \/ PostFull(p) \/ PrintProduced(p)
      PROVE  Mutex'
  BY <1>3 DEF WakeProducer, WaitEmpty, PostFull, PrintProduced, Threads
<1>4. ASSUME NEW c \in Consumers, WakeConsumer(c) \/ WaitFull(c) \/ PostEmpty(c) \/ PrintConsumed(c)
      PROVE  Mutex'
  BY <1>4 DEF WakeConsumer, WaitFull, PostEmpty, PrintConsumed, Threads
<1>5. ASSUME NEW p \in Producers, InsertStore(p) \/ InsertAdvance(p) PROVE Mutex'
  BY <1>5 DEF InsertStore, InsertAdvance, Threads
<1>6. ASSUME NEW c \in Consumers, RemoveFetch(c) \/ RemoveAdvance(c) PROVE Mutex'
  BY <1>6 DEF RemoveFetch, RemoveAdvance, Threads
<1>7. ASSUME NEW t \in Threads, Cancelled(t) PROVE Mutex'
  BY <1>7 DEF Cancelled, CancellationPoint
<1>8. ASSUME CreateThread PROVE Mutex'
  <2>1. pc[cur] = "none" /\ UNCHANGED lock /\ pc' = [pc EXCEPT ![cur] = "sleep"]
    BY <1>8, ThreadsApart DEF CreateThread, Loops
  <2> QED BY <2>1
<1>9. ASSUME UNCHANGED <<lock, pc>> PROVE Mutex'
  BY <1>9
<1> QED
  BY <1>1, <1>2, <1>3, <1>4, <1>5, <1>6, <1>7, <1>8, <1>9
     DEF Next, producer, consumer, mainThread, SleepOver, Cancel, Join, Sleep3Over, Destroy,
         Exited, vars, Threads

(* The slots from the head to the tail hold items: a producer has stored   *)
(* one before it moves the tail, and a consumer only gives one up.         *)
LEMMA FilledStep ==
    ASSUME IInv, [Next]_vars
    PROVE  Filled'
<1> USE DEF IInv, TypeOK, Filled
<1>1. ASSUME NEW p \in Producers, InsertStore(p) PROVE Filled'
  <2>1. item[p] \in Items
    BY <1>1 DEF AtHand, InsertStore
  <2> QED BY <1>1, <2>1 DEF InsertStore, InUse, Slots
<1>2. ASSUME NEW p \in Producers, InsertAdvance(p) PROVE Filled'
  <2>1. buffer[bufferTail] \in Items
    BY <1>2 DEF AtHand, InsertAdvance
  <2>2. \A x \in Slots : InUse(x)' => InUse(x) \/ x = bufferTail
    BY <1>2, SuccValue, BufferAssumption DEF InsertAdvance, InUse, Slots
  <2> QED BY <1>2, <2>1, <2>2 DEF InsertAdvance
<1>3. ASSUME NEW c \in Consumers, RemoveAdvance(c) PROVE Filled'
  <2>1. bufferHead # bufferTail
    BY <1>3, ItemForConsumer DEF RemoveAdvance, Claiming
  <2>2. \A x \in Slots : InUse(x)' => InUse(x)
    BY <1>3, <2>1, SuccValue, BufferAssumption DEF RemoveAdvance, InUse, Slots
  <2> QED BY <1>3, <2>2 DEF RemoveAdvance
<1>4. ASSUME UNCHANGED ringVars PROVE Filled'
  BY <1>4 DEF ringVars, InUse
<1> QED
  BY <1>1, <1>2, <1>3, <1>4
     DEF Next, producer, consumer, mainThread, WakeProducer, WaitEmpty, Lock, Unlock, PostFull,
         PrintProduced, Cancelled, WakeConsumer, WaitFull, RemoveFetch, PostEmpty, PrintConsumed,
         CreateThread, SleepOver, Cancel, Join, Sleep3Over, Destroy, Exited, vars

(* Items are where they should be: while a producer is about to move the   *)
(* tail, nobody else writes to the slot or moves it.                       *)
LEMMA AtHandStep ==
    ASSUME IInv, [Next]_vars
    PROVE  AtHand'
<1> USE DEF IInv, TypeOK, AtHand, Goto, semVars, ringVars, mainVars, Threads
<1>1. ASSUME NEW p \in Producers, WakeProducer(p) PROVE AtHand'
  <2>1. <<p, made[p] + 1>> \in Items
    BY <1>1, BufferAssumption DEF WakeProducer, Items
  <2> QED BY <1>1, <2>1, ThreadsApart DEF WakeProducer
<1>2. ASSUME NEW p \in Producers, WaitEmpty(p) \/ PostFull(p) \/ PrintProduced(p) PROVE AtHand'
  BY <1>2, ThreadsApart DEF WaitEmpty, PostFull, PrintProduced
<1>3. ASSUME NEW p \in Producers, InsertStore(p) PROVE AtHand'
  <2>1. item[p] \in Items
    BY <1>3 DEF InsertStore
  <2>2. buffer'[bufferTail] \in Items
    BY <1>3, <2>1 DEF InsertStore
  <2> QED BY <1>3, <2>1, <2>2, ThreadsApart DEF InsertStore
<1>4. ASSUME NEW p \in Producers, InsertAdvance(p) PROVE AtHand'
  <2>1. \A q \in Producers : pc'[q] # "advance"
    BY <1>4 DEF InsertAdvance, Mutex, Critical
  <2> QED BY <1>4, <2>1, ThreadsApart DEF InsertAdvance
<1>5. ASSUME NEW c \in Consumers, WakeConsumer(c) \/ WaitFull(c) \/ PostEmpty(c) \/ PrintConsumed(c)
      PROVE  AtHand'
  BY <1>5, ThreadsApart DEF WakeConsumer, WaitFull, PostEmpty, PrintConsumed
<1>6. ASSUME NEW c \in Consumers, RemoveFetch(c) PROVE AtHand'
  <2>1. bufferHead # bufferTail
    BY <1>6, ItemForConsumer DEF RemoveFetch, Claiming
  <2>2. buffer[bufferHead] \in Items
    BY <2>1 DEF Filled, InUse, Slots
  <2> QED BY <1>6, <2>2, ThreadsApart DEF RemoveFetch
<1>7. ASSUME NEW c \in Consumers, RemoveAdvance(c) PROVE AtHand'
  BY <1>7, ThreadsApart DEF RemoveAdvance
<1>8. ASSUME NEW t \in Threads, Lock(t) \/ Unlock(t) PROVE AtHand'
  BY <1>8, ThreadsApart DEF Lock, Unlock
<1>9. ASSUME NEW t \in Threads, Cancelled(t) PROVE AtHand'
  BY <1>9, ThreadsApart DEF Cancelled
<1>10. ASSUME CreateThread PROVE AtHand'
  BY <1>10, ThreadsApart DEF CreateThread, Loops
<1>11. ASSUME UNCHANGED <<buffer, bufferTail, item, pc>> PROVE AtHand'
  BY <1>11
<1> QED
  BY <1>1, <1>2, <1>3, <1>4, <1>5, <1>6, <1>7, <1>8, <1>9, <1>10, <1>11
     DEF Next, producer, consumer, mainThread, SleepOver, Cancel, Join, Sleep3Over, Destroy,
         Exited, vars

(* A move that neither enters nor leaves a group of labels keeps both sums *)
(* if it leaves the semaphores and the indices alone.                      *)
LEMMA BalanceKept ==
    ASSUME IInv, NEW t \in Threads, NEW l, Goto(t, l),
           UNCHANGED <<semVars, bufferHead, bufferTail>>,
           pc[t] \in Claiming <=> l \in Claiming,
           pc[t] \in Releasing <=> l \in Releasing
    PROVE  Balance'
<1>1. \A S \in {Producers, Consumers} :
          /\ Cardinality(At(S, Claiming))' = Cardinality(At(S, Claiming))
          /\ Cardinality(At(S, Releasing))' = Cardinality(At(S, Releasing))
  BY CountsAfterMove, Counts DEF IInv
<1>2. InBuffer' = InBuffer
  BY DEF InBuffer
<1> QED BY <1>1, <1>2 DEF IInv, Balance, semVars

(* What a producer's move does to the four counts, and a consumer's.       *)
LEMMA ProducerMoves ==
    ASSUME IInv, NEW p \in Producers, NEW l, Goto(p, l)
    PROVE  /\ \A L : Cardinality(At(Consumers, L))' = Cardinality(At(Consumers, L))
           /\ \A L : /\ Cardinality(At(Producers, L)) \in Nat
                     /\ Cardinality(At(Producers, L))' = Cardinality(At(Producers, L))
                           + (IF pc[p] \notin L /\ l \in L THEN 1
                              ELSE IF pc[p] \in L /\ l \notin L THEN -1 ELSE 0)
  BY CountsAfterMove, Counts, ThreadsApart DEF IInv, Threads

LEMMA ConsumerMoves ==
    ASSUME IInv, NEW c \in Consumers, NEW l, Goto(c, l)
    PROVE  /\ \A L : Cardinality(At(Producers, L))' = Cardinality(At(Producers, L))
           /\ \A L : /\ Cardinality(At(Consumers, L)) \in Nat
                     /\ Cardinality(At(Consumers, L))' = Cardinality(At(Consumers, L))
                           + (IF pc[c] \notin L /\ l \in L THEN 1
                              ELSE IF pc[c] \in L /\ l \notin L THEN -1 ELSE 0)
  BY CountsAfterMove, Counts, ThreadsApart DEF IInv, Threads

(* The sums: a semaphore gives a thread its right to claim a slot or an    *)
(* item before, and takes the other one back after its critical section.   *)
LEMMA BalanceStep ==
    ASSUME IInv, [Next]_vars
    PROVE  Balance'
<1> USE DEF Claiming, Releasing
<1>0. /\ full \in Nat /\ empty \in Nat /\ BUFFER_SIZE \in Nat /\ InBuffer \in Nat
      /\ \A S \in {Producers, Consumers}, L \in {Claiming, Releasing} :
             Cardinality(At(S, L)) \in Nat
      /\ Balance
  BY InBufferRange, Counts, BufferAssumption DEF IInv, TypeOK
<1>1. ASSUME NEW p \in Producers, WaitEmpty(p) PROVE Balance'
  <2>1. Goto(p, "lock") /\ InBuffer' = InBuffer
    BY <1>1 DEF WaitEmpty, ringVars, InBuffer
  <2>2. /\ Cardinality(At(Producers, Claiming))' = Cardinality(At(Producers, Claiming)) + 1
        /\ Cardinality(At(Producers, Releasing))' = Cardinality(At(Producers, Releasing))
    BY <1>1, <2>1, ProducerMoves DEF WaitEmpty
  <2> QED BY <1>0, <1>1, <2>1, <2>2, ProducerMoves DEF Balance, WaitEmpty
<1>2. ASSUME NEW p \in Producers, InsertAdvance(p) PROVE Balance'
  <2>1. InBuffer' = InBuffer + 1
    BY <1>2, InBufferGrows
  <2>2. Goto(p, "unlock") /\ pc[p] = "advance" /\ UNCHANGED semVars
    BY <1>2 DEF InsertAdvance
  <2>3. /\ Cardinality(At(Producers, Claiming))' = Cardinality(At(Producers, Claiming)) - 1
        /\ Cardinality(At(Producers, Releasing))' = Cardinality(At(Producers, Releasing)) + 1
    BY <2>2, ProducerMoves
  <2> QED BY <1>0, <2>1, <2>2, <2>3, ProducerMoves DEF Balance, semVars
<1>3. ASSUME NEW p \in Producers, PostFull(p) PROVE Balance'
  <2>1. Goto(p, "print") /\ InBuffer' = InBuffer
    BY <1>3 DEF PostFull, ringVars, InBuffer
  <2>2. /\ Cardinality(At(Producers, Claiming))' = Cardinality(At(Producers, Claiming))
        /\ Cardinality(At(Producers, Releasing))' = Cardinality(At(Producers, Releasing)) - 1
    BY <1>3, <2>1, ProducerMoves DEF PostFull
  <2> QED BY <1>0, <1>3, <2>1, <2>2, ProducerMoves DEF Balance, PostFull
<1>4. ASSUME NEW c \in Consumers, WaitFull(c) PROVE Balance'
  <2>1. Goto(c, "lock") /\ InBuffer' = InBuffer
    BY <1>4 DEF WaitFull, ringVars, InBuffer
  <2>2. /\ Cardinality(At(Consumers, Claiming))' = Cardinality(At(Consumers, Claiming)) + 1
        /\ Cardinality(At(Consumers, Releasing))' = Cardinality(At(Consumers, Releasing))
    BY <1>4, <2>1, ConsumerMoves DEF WaitFull
  <2> QED BY <1>0, <1>4, <2>1, <2>2, ConsumerMoves DEF Balance, WaitFull
<1>5. ASSUME NEW c \in Consumers, RemoveAdvance(c) PROVE Balance'
  <2>1. InBuffer' = InBuffer - 1
    BY <1>5, InBufferShrinks
  <2>2. Goto(c, "unlock") /\ pc[c] = "advance" /\ UNCHANGED semVars
    BY <1>5 DEF RemoveAdvance
  <2>3. /\ Cardinality(At(Consumers, Claiming))' = Cardinality(At(Consumers, Claiming)) - 1
        /\ Cardinality(At(Consumers, Releasing))' = Cardinality(At(Consumers, Releasing)) + 1
    BY <2>2, ConsumerMoves
  <2> QED BY <1>0, <2>1, <2>2, <2>3, ConsumerMoves DEF Balance, semVars
<1>6. ASSUME NEW c \in Consumers, PostEmpty(c) PROVE Balance'
  <2>1. Goto(c, "print") /\ InBuffer' = InBuffer
    BY <1>6 DEF PostEmpty, ringVars, InBuffer
  <2>2. /\ Cardinality(At(Consumers, Claiming))' = Cardinality(At(Consumers, Claiming))
        /\ Cardinality(At(Consumers, Releasing))' = Cardinality(At(Consumers, Releasing)) - 1
    BY <1>6, <2>1, ConsumerMoves DEF PostEmpty
  <2> QED BY <1>0, <1>6, <2>1, <2>2, ConsumerMoves DEF Balance, PostEmpty
<1>7. ASSUME NEW t \in Threads, Lock(t) \/ Unlock(t) \/ Cancelled(t) PROVE Balance'
  <2>1. CASE Lock(t)
    <3>1. Goto(t, "access") /\ pc[t] = "lock"
      BY <2>1 DEF Lock
    <3> QED BY <2>1, <3>1, BalanceKept DEF Lock, ringVars
  <2>2. CASE Unlock(t)
    <3>1. Goto(t, "sem_post") /\ pc[t] = "unlock"
      BY <2>2 DEF Unlock
    <3> QED BY <2>2, <3>1, BalanceKept DEF Unlock, ringVars
  <2>3. CASE Cancelled(t)
    <3>1. Goto(t, "exited") /\ pc[t] \in {"sleep", "sem_wait", "print"}
      BY <2>3 DEF Cancelled, CancellationPoint
    <3> QED BY <2>3, <3>1, BalanceKept DEF Cancelled, ringVars
  <2> QED BY <1>7, <2>1, <2>2, <2>3
<1>8. ASSUME NEW p \in Producers, WakeProducer(p) \/ InsertStore(p) \/ PrintProduced(p)
      PROVE  Balance'
  <2>1. CASE WakeProducer(p)
    <3>1. Goto(p, "sem_wait") /\ pc[p] = "sleep"
      BY <2>1 DEF WakeProducer
    <3> QED BY <2>1, <3>1, BalanceKept DEF WakeProducer, ringVars, Threads
  <2>2. CASE InsertStore(p)
    <3>1. Goto(p, "advance") /\ pc[p] = "access"
      BY <2>2 DEF InsertStore
    <3> QED BY <2>2, <3>1, BalanceKept DEF InsertStore, Threads
  <2>3. CASE PrintProduced(p)
    <3>1. Goto(p, "sleep") /\ pc[p] = "print"
      BY <2>3 DEF PrintProduced
    <3> QED BY <2>3, <3>1, BalanceKept DEF PrintProduced, ringVars, Threads
  <2> QED BY <1>8, <2>1, <2>2, <2>3
<1>9. ASSUME NEW c \in Consumers, WakeConsumer(c) \/ RemoveFetch(c) \/ PrintConsumed(c)
      PROVE  Balance'
  <2>1. CASE WakeConsumer(c)
    <3>1. Goto(c, "sem_wait") /\ pc[c] = "sleep"
      BY <2>1 DEF WakeConsumer
    <3> QED BY <2>1, <3>1, BalanceKept DEF WakeConsumer, ringVars, Threads
  <2>2. CASE RemoveFetch(c)
    <3>1. Goto(c, "advance") /\ pc[c] = "access"
      BY <2>2 DEF RemoveFetch
    <3> QED BY <2>2, <3>1, BalanceKept DEF RemoveFetch, ringVars, Threads
  <2>3. CASE PrintConsumed(c)
    <3>1. Goto(c, "sleep") /\ pc[c] = "print"
      BY <2>3 DEF PrintConsumed
    <3> QED BY <2>3, <3>1, BalanceKept DEF PrintConsumed, ringVars, Threads
  <2> QED BY <1>9, <2>1, <2>2, <2>3
<1>10. ASSUME CreateThread PROVE Balance'
  <2>1. cur \in Threads /\ pc[cur] = "none" /\ Goto(cur, "sleep")
    BY <1>10, ThreadsApart DEF CreateThread, IInv, TypeOK, Loops
  <2> QED BY <1>10, <2>1, BalanceKept DEF CreateThread, ringVars
<1>11. ASSUME UNCHANGED <<ringVars, semVars, pc>> PROVE Balance'
  BY <1>0, <1>11 DEF Balance, InBuffer, At, ringVars, semVars
<1> QED
  BY <1>1, <1>2, <1>3, <1>4, <1>5, <1>6, <1>7, <1>8, <1>9, <1>10, <1>11
     DEF Next, producer, consumer, mainThread, SleepOver, Cancel, Join, Sleep3Over, Destroy,
         Exited, vars, Threads

(* The main thread's loops do what they say: a thread joined has ended.    *)
LEMMA LoopStep ==
    ASSUME IInv, [Next]_vars
    PROVE  Loops'
<1> USE ThreadsApart DEF IInv, TypeOK, Loops, Goto
<1>1. CASE UNCHANGED <<main, cur, pc>>
  BY <1>1
<1>2. CASE \E t \in Threads : \E l : /\ Goto(t, l) /\ pc[t] \notin {"exited", "none"}
                                     /\ UNCHANGED <<main, cur>>
  BY <1>2
<1>3. CASE CreateThread
  BY <1>3 DEF CreateThread
<1>4. CASE Join
  BY <1>4 DEF Join, AfterJoin
<1>5. CASE SleepOver \/ Cancel \/ Sleep3Over \/ Destroy
  BY <1>5 DEF SleepOver, Cancel, Sleep3Over, Destroy
<1> QED
  <2>1. ASSUME NEW t \in Threads,
               (t \in Producers /\ producer(t)) \/ (t \in Consumers /\ consumer(t))
        PROVE  Loops'
    BY <1>2, <2>1, ThreadMoves
  <2> QED BY <1>1, <1>3, <1>4, <1>5, <2>1 DEF Next, mainThread, mainVars, Exited, vars, Threads
-----------------------------------------------------------------------------
(* Every step of every thread preserves the inductive invariant.           *)
THEOREM InductiveStep == IInv /\ [Next]_vars => IInv'
<1> QED BY TypeStep, BalanceStep, MutexStep, FilledStep, AtHandStep, LoopStep DEF IInv

(* The initial state satisfies it: the ring is empty, no thread exists.    *)
THEOREM InitialState == Init => IInv
<1> SUFFICES ASSUME Init PROVE IInv
  OBVIOUS
<1> USE ThreadsApart, BufferAssumption DEF Init
<1>1. TypeOK
  BY DEF TypeOK, Slots, Threads, Producers
<1>2. Balance
  <2>1. \A S \in {Producers, Consumers}, L \in {Claiming, Releasing} :
            Cardinality(At(S, L)) = 0
    BY CountZero DEF At, Claiming, Releasing, Threads
  <2>2. InBuffer = 0
    BY DEF InBuffer
  <2> QED BY <2>1, <2>2 DEF Balance
<1>3. Mutex /\ Loops
  BY DEF Mutex, Loops, Critical
<1>4. Filled /\ AtHand
  BY DEF Filled, InUse, Slots, AtHand, Threads
<1> QED BY <1>1, <1>2, <1>3, <1>4 DEF IInv

(* The inductive invariant holds in every reachable state.                 *)
THEOREM Invariance == Spec => []IInv
<1> QED BY InitialState, InductiveStep, PTL DEF Spec

(* full and empty count the items and the free slots of the ring that no   *)
(* thread has claimed yet: insert_item never overwrites an item and        *)
(* remove_item never fetches from an empty ring.  Every variable keeps its *)
(* type; in particular only items that were produced are consumed.         *)
THEOREM SemaphoresCorrect == Spec => []SemaphoresMatchBuffer
<1>1. IInv => SemaphoresMatchBuffer
  BY DEF IInv, Balance, SemaphoresMatchBuffer, Claiming, Releasing
<1> QED BY <1>1, Invariance, PTL

(* When destroy_buffer runs, every thread has ended and none of them was   *)
(* cancelled inside a critical section.                                    *)
THEOREM DestroySafe == Spec => []DestroyIsSafe
<1>1. IInv => DestroyIsSafe
  BY DEF IInv, TypeOK, Mutex, Loops, DestroyIsSafe, Critical
<1> QED BY <1>1, Invariance, PTL
-----------------------------------------------------------------------------
(* The hand-off.  Each item is in one place, and it takes the way HandOff  *)
(* describes.                                                              *)

(* A producer at these labels has an item that it has not inserted yet, a  *)
(* consumer at those has one that it has taken out of the ring.            *)
Drawn == {"sem_wait", "lock", "access", "advance"}
Has   == {"unlock", "sem_post", "print"}

Hand == [c \in Consumers |-> IF pc[c] \in Has THEN item[c] ELSE NoItem]

(* What a producer is about to insert is the item it has made last; what   *)
(* it has stored is at the tail, what a consumer fetched at the head.      *)
Hands ==
    /\ \A p \in Producers : pc[p] \in Drawn => item[p] = <<p, made[p]>>
    /\ \A p \in Producers : pc[p] = "advance" => buffer[bufferTail] = item[p]
    /\ \A c \in Consumers : pc[c] = "advance" => item[c] = buffer[bufferHead]

(* The items that are not to be inserted any more.                         *)
Past == {x \in Items : \/ x[2] < made[x[1]]
                       \/ x[2] = made[x[1]] /\ pc[x[1]] \notin Drawn}

(* Only such items are in the ring, with a consumer or consumed.           *)
NoneToCome ==
    /\ \A i \in Slots : InUse(i) => buffer[i] \in Past
    /\ \A c \in Consumers : Hand[c] # NoItem => Hand[c] \in Past
    /\ consumed \subseteq Past

(* No item is in two places.                                               *)
Apart ==
    /\ \A i, j \in Slots : InUse(i) /\ InUse(j) /\ buffer[i] = buffer[j] => i = j
    /\ \A i \in Slots, c \in Consumers : InUse(i) => buffer[i] # Hand[c]
    /\ \A c, d \in Consumers : Hand[c] # NoItem /\ Hand[c] = Hand[d] => c = d
    /\ \A i \in Slots : InUse(i) => buffer[i] \notin consumed
    /\ \A c \in Consumers : Hand[c] \notin consumed

(* A consumer is cancelled only when main is in its last loop.             *)
Stopping ==
    /\ main = "sleep3" => cur = NumProducer + 1
    /\ \A c \in Consumers : c \in cancelled => StoppingConsumers

HInv == Hands /\ NoneToCome /\ Apart /\ Stopping

(* In a step of these kinds an item moves: into the ring, out of it, to    *)
(* the output, or nowhere when its consumer is cancelled.  In all others   *)
(* the items stay where they are.                                          *)
Quiet ==
    /\ bufferHead' = bufferHead /\ bufferTail' = bufferTail
    /\ \A i \in Slots : InUse(i) => buffer'[i] = buffer[i]
    /\ Hand' = Hand /\ consumed' = consumed

Drops(c) == Cancelled(c) /\ pc[c] \in Has

LEMMA HandTypes ==
    ASSUME IInv
    PROVE  /\ ~InUse(bufferTail)
           /\ DOMAIN Hand = Consumers
           /\ \A c \in Consumers : Hand[c] = IF pc[c] \in Has THEN item[c] ELSE NoItem
           /\ \A c \in Consumers : pc[c] \in Has => item[c] \in Items
           /\ \A c \in Consumers : Hand[c] # NoItem => Hand[c] \in Items
<1>1. \A c \in Consumers : pc[c] \in Has => item[c] \in Items
  BY DEF IInv, AtHand, Has
<1>2. ~InUse(bufferTail)
  BY BufferAssumption DEF IInv, TypeOK, InUse, Slots
<1> QED BY <1>1, <1>2, ThreadsApart DEF Hand

LEMMA StepKinds ==
    ASSUME IInv, [Next]_vars
    PROVE  \/ Quiet
           \/ \E p \in Producers : InsertAdvance(p)
           \/ \E c \in Consumers : RemoveAdvance(c) \/ PrintConsumed(c) \/ Drops(c)
<1> USE DEF IInv, TypeOK, Goto, semVars, ringVars, mainVars, Threads, InUse
<1>1. ASSUME NEW p \in Producers,
             WakeProducer(p) \/ WaitEmpty(p) \/ Lock(p) \/ Unlock(p) \/ PostFull(p) \/ PrintProduced(p)
      PROVE  Quiet
  <2>1. \A c \in Consumers : pc'[c] = pc[c] /\ item'[c] = item[c]
    BY <1>1, ThreadsApart DEF WakeProducer, WaitEmpty, Lock, Unlock, PostFull, PrintProduced
  <2>2. UNCHANGED <<ringVars, consumed>>
    BY <1>1 DEF WakeProducer, WaitEmpty, Lock, Unlock, PostFull, PrintProduced
  <2>3. Hand' = Hand
    BY <2>1 DEF Hand
  <2> QED BY <2>2, <2>3 DEF Quiet
<1>2. ASSUME NEW p \in Producers, InsertStore(p) PROVE Quiet
  <2>1. \A c \in Consumers : pc'[c] = pc[c] /\ item'[c] = item[c]
    BY <1>2, ThreadsApart DEF InsertStore
  <2>2. ~InUse(bufferTail)
    BY HandTypes
  <2>3. Hand' = Hand
    BY <2>1 DEF Hand
  <2> QED BY <1>2, <2>2, <2>3 DEF InsertStore, Quiet
<1>3. ASSUME NEW c \in Consumers,
             WakeConsumer(c) \/ WaitFull(c) \/ Lock(c) \/ RemoveFetch(c) \/ Unlock(c) \/ PostEmpty(c)
      PROVE  Quiet
  <2>1. \A d \in Consumers : d # c => pc'[d] = pc[d] /\ item'[d] = item[d]
    BY <1>3 DEF WakeConsumer, WaitFull, Lock, RemoveFetch, Unlock, PostEmpty
  <2>2. \/ pc[c] \notin Has /\ pc'[c] \notin Has
        \/ pc[c] \in Has /\ pc'[c] \in Has /\ item'[c] = item[c]
    BY <1>3 DEF WakeConsumer, WaitFull, Lock, RemoveFetch, Unlock, PostEmpty, Has
  <2>3. UNCHANGED <<ringVars, consumed>>
    BY <1>3 DEF WakeConsumer, WaitFull, Lock, RemoveFetch, Unlock, PostEmpty
  <2>4. Hand' = Hand
    BY <2>1, <2>2 DEF Hand
  <2> QED BY <2>3, <2>4 DEF Quiet
<1>4. ASSUME NEW t \in Threads, Cancelled(t), t \in Consumers => ~Drops(t) PROVE Quiet
  <2>1. \A d \in Consumers : d # t => pc'[d] = pc[d] /\ item'[d] = item[d]
    BY <1>4 DEF Cancelled
  <2>2. t \in Consumers => pc[t] \notin Has /\ pc'[t] \notin Has
    BY <1>4 DEF Cancelled, Drops, Has
  <2>3. UNCHANGED <<ringVars, consumed>>
    BY <1>4 DEF Cancelled
  <2>4. Hand' = Hand
    BY <2>1, <2>2 DEF Hand
  <2> QED BY <2>3, <2>4 DEF Quiet
<1>5. ASSUME CreateThread PROVE Quiet
  <2>1. pc[cur] = "none" /\ pc' = [pc EXCEPT ![cur] = "sleep"]
    BY <1>5, ThreadsApart DEF CreateThread, Loops
  <2>2. \A c \in Consumers : pc'[c] \in Has <=> pc[c] \in Has
    BY <2>1 DEF Has
  <2>3. UNCHANGED <<ringVars, consumed, item>>
    BY <1>5 DEF CreateThread
  <2>4. Hand' = Hand
    BY <2>2, <2>3 DEF Hand
  <2> QED BY <2>3, <2>4 DEF Quiet
<1>6. ASSUME UNCHANGED <<ringVars, consumed, item, pc>> PROVE Quiet
  BY <1>6 DEF Quiet, Hand
<1> QED
  BY <1>1, <1>2, <1>3, <1>4, <1>5, <1>6
     DEF Next, producer, consumer, mainThread, SleepOver, Cancel, Join, Sleep3Over, Destroy,
         Exited, vars

(* The slots in use after a move of the tail, and of the head.             *)
LEMMA InUseGrows ==
    ASSUME IInv, NEW p \in Producers, InsertAdvance(p)
    PROVE  \A i \in Slots : InUse(i)' <=> InUse(i) \/ i = bufferTail
<1>1. bufferTail' = (IF bufferTail = BUFFER_SIZE THEN 0 ELSE bufferTail + 1) /\ bufferHead' = bufferHead
  BY SuccValue DEF IInv, TypeOK, InsertAdvance
<1>2. InBuffer < BUFFER_SIZE
  BY RoomForProducer DEF InsertAdvance, Claiming
<1> QED BY <1>1, <1>2, BufferAssumption DEF IInv, TypeOK, InUse, InBuffer, Slots

LEMMA InUseShrinks ==
    ASSUME IInv, NEW c \in Consumers, RemoveAdvance(c)
    PROVE  /\ InUse(bufferHead)
           /\ \A i \in Slots : InUse(i)' <=> InUse(i) /\ i # bufferHead
<1>1. bufferHead' = (IF bufferHead = BUFFER_SIZE THEN 0 ELSE bufferHead + 1) /\ bufferTail' = bufferTail
  BY SuccValue DEF IInv, TypeOK, RemoveAdvance
<1>2. bufferHead # bufferTail
  BY ItemForConsumer DEF RemoveAdvance, Claiming
<1> QED BY <1>1, <1>2, BufferAssumption DEF IInv, TypeOK, InUse, Slots

(* What moves in each kind of step.                                        *)
LEMMA InsertMoves ==
    ASSUME IInv, Hands, NEW p \in Producers, InsertAdvance(p)
    PROVE  /\ buffer' = buffer /\ bufferHead' = bufferHead /\ Hand' = Hand /\ consumed' = consumed
           /\ buffer[bufferTail] \in Past' \ Past
           /\ bufferTail \in Slots /\ \A i \in Slots : InUse(i)' <=> InUse(i) \/ i = bufferTail
<1>1. /\ buffer' = buffer /\ item' = item /\ consumed' = consumed /\ made' = made
      /\ bufferHead' = bufferHead /\ pc' = [pc EXCEPT ![p] = "unlock"] /\ pc[p] = "advance"
  BY DEF InsertAdvance, Goto
<1>2. Hand' = Hand
  <2>1. \A c \in Consumers : pc'[c] = pc[c]
    BY <1>1, ThreadsApart
  <2> QED BY <1>1, <2>1 DEF Hand
<1>3. buffer[bufferTail] = <<p, made[p]>> /\ buffer[bufferTail] \in Items
  BY <1>1 DEF Hands, Drawn, IInv, AtHand
<1>4. pc'[p] \notin Drawn /\ pc[p] \in Drawn /\ made[p] \in Nat
  BY <1>1 DEF IInv, TypeOK, Threads, Drawn
<1> DEFINE x == buffer[bufferTail]
<1>5. x[1] = p /\ x[2] = made[p] /\ x \in Items
  BY <1>3
<1> HIDE DEF x
<1>6. x \in Past' \ Past
  BY <1>1, <1>4, <1>5 DEF Past
<1> QED BY <1>1, <1>2, <1>6, InUseGrows DEF x, IInv, TypeOK

LEMMA RemoveMoves ==
    ASSUME IInv, Hands, NEW c \in Consumers, RemoveAdvance(c)
    PROVE  /\ buffer' = buffer /\ bufferTail' = bufferTail /\ consumed' = consumed
           /\ Hand[c] = NoItem /\ Hand' = [Hand EXCEPT ![c] = buffer[bufferHead]]
           /\ bufferHead \in Slots /\ InUse(bufferHead)
           /\ \A i \in Slots : InUse(i)' <=> InUse(i) /\ i # bufferHead
<1>1. /\ buffer' = buffer /\ item' = item /\ consumed' = consumed /\ bufferTail' = bufferTail
      /\ pc' = [pc EXCEPT ![c] = "unlock"] /\ pc[c] = "advance"
  BY DEF RemoveAdvance, Goto
<1>2. Hand[c] = NoItem
  BY <1>1, HandTypes DEF Has
<1>3. Hand' = [Hand EXCEPT ![c] = buffer[bufferHead]]
  <2>1. item[c] = buffer[bufferHead] /\ pc'[c] = "unlock"
    BY <1>1 DEF Hands, IInv, TypeOK, Threads
  <2>2. \A d \in Consumers : d # c => pc'[d] = pc[d]
    BY <1>1 DEF IInv, TypeOK, Threads
  <2> QED BY <1>1, <2>1, <2>2 DEF Hand, Has
<1> QED BY <1>1, <1>2, <1>3, InUseShrinks DEF IInv, TypeOK

LEMMA ReportMoves ==
    ASSUME IInv, NEW c \in Consumers, PrintConsumed(c) \/ Drops(c)
    PROVE  /\ UNCHANGED ringVars /\ Hand[c] \in Items /\ Hand' = [Hand EXCEPT ![c] = NoItem]
           /\ PrintConsumed(c) => consumed' = consumed \cup {Hand[c]}
           /\ Drops(c) => consumed' = consumed
<1>1. /\ UNCHANGED ringVars /\ item' = [item EXCEPT ![c] = NoItem]
      /\ (Goto(c, "sleep") \/ Goto(c, "exited")) /\ pc[c] \in Has
      /\ PrintConsumed(c) => consumed' = consumed \cup {item[c]}
      /\ Drops(c) => consumed' = consumed
  BY DEF PrintConsumed, Drops, Cancelled, Has
<1>2. Hand[c] = item[c] /\ Hand[c] \in Items
  BY <1>1, HandTypes
<1>3. Hand' = [Hand EXCEPT ![c] = NoItem]
  <2>1. pc'[c] \notin Has
    BY <1>1 DEF Goto, Has, IInv, TypeOK, Threads
  <2>2. \A d \in Consumers : d # c => pc'[d] = pc[d] /\ item'[d] = item[d]
    BY <1>1 DEF Goto, IInv, TypeOK, Threads
  <2> QED BY <2>1, <2>2 DEF Hand
<1> QED BY <1>1, <1>2, <1>3

(* What is at hand stays right: a producer's drawing ends with "unlock",   *)
(* and the mutex keeps the two indices still in a critical section.        *)
LEMMA HandsStep ==
    ASSUME IInv, Hands, [Next]_vars
    PROVE  Hands'
<1> USE DEF IInv, TypeOK, Hands, Goto, semVars, ringVars, mainVars, Threads, Drawn
<1>1. ASSUME NEW p \in Producers, WakeProducer(p) \/ WaitEmpty(p) \/ PostFull(p) \/ PrintProduced(p)
      PROVE  Hands'
  BY <1>1, ThreadsApart DEF WakeProducer, WaitEmpty, PostFull, PrintProduced
<1>2. ASSUME NEW p \in Producers, InsertStore(p) PROVE Hands'
  <2>1. \A t \in Threads : pc[t] = "advance" => t = p
    BY <1>2 DEF InsertStore, Mutex, Critical
  <2>2. pc[p] = "access"
    BY <1>2 DEF InsertStore
  <2>3. \A t \in Threads : pc[t] # "advance"
    BY <2>1, <2>2
  <2> QED BY <1>2, <2>3, ThreadsApart DEF InsertStore
<1>3. ASSUME NEW p \in Producers, InsertAdvance(p) PROVE Hands'
  <2>1. \A t \in Threads : pc'[t] # "advance"
    BY <1>3 DEF InsertAdvance, Mutex, Critical
  <2> QED BY <1>3, <2>1, ThreadsApart DEF InsertAdvance
<1>4. ASSUME NEW c \in Consumers, WakeConsumer(c) \/ WaitFull(c) \/ PostEmpty(c) \/ PrintConsumed(c)
      PROVE  Hands'
  BY <1>4, ThreadsApart DEF WakeConsumer, WaitFull, PostEmpty, PrintConsumed
<1>5. ASSUME NEW c \in Consumers, RemoveFetch(c) PROVE Hands'
  BY <1>5, ThreadsApart DEF RemoveFetch
<1>6. ASSUME NEW c \in Consumers, RemoveAdvance(c) PROVE Hands'
  <2>1. \A t \in Threads : pc'[t] # "advance"
    BY <1>6 DEF RemoveAdvance, Mutex, Critical
  <2> QED BY <1>6, <2>1, ThreadsApart DEF RemoveAdvance
<1>7. ASSUME NEW t \in Threads, Lock(t) \/ Unlock(t) PROVE Hands'
  BY <1>7, ThreadsApart DEF Lock, Unlock
<1>8. ASSUME NEW t \in Threads, Cancelled(t) PROVE Hands'
  BY <1>8, ThreadsApart DEF Cancelled
<1>9. ASSUME CreateThread PROVE Hands'
  <2>1. pc[cur] = "none" /\ pc' = [pc EXCEPT ![cur] = "sleep"]
    BY <1>9, ThreadsApart DEF CreateThread, Loops
  <2>2. UNCHANGED <<ringVars, item, made>>
    BY <1>9 DEF CreateThread
  <2> QED BY <2>1, <2>2
<1>10. ASSUME UNCHANGED <<ringVars, item, made, pc>> PROVE Hands'
  BY <1>10
<1> QED
  BY <1>1, <1>2, <1>3, <1>4, <1>5, <1>6, <1>7, <1>8, <1>9, <1>10
     DEF Next, producer, consumer, mainThread, SleepOver, Cancel, Join, Sleep3Over, Destroy,
         Exited, vars

(* An item that is past stays so: its producer makes another one next.     *)
LEMMA PastKept ==
    ASSUME IInv, [Next]_vars
    PROVE  Past \subseteq Past'
<1> SUFFICES ASSUME NEW x \in Past PROVE x \in Past'
  OBVIOUS
<1> DEFINE q == x[1]
<1>1. q \in Producers /\ x[2] \in Nat /\ made[q] \in Nat /\ x \in Items
  BY DEF Past, Items, IInv, TypeOK
<1> USE DEF Goto, Threads
<1>2. /\ \/ made'[q] = made[q]
         \/ made'[q] = made[q] + 1
      /\ pc[q] \notin Drawn /\ pc'[q] \in Drawn => made'[q] = made[q] + 1
  <2> USE DEF IInv, TypeOK, mainVars
  <2>1. ASSUME NEW p \in Producers, producer(p) PROVE <1>2
    <3>1. CASE p # q
      BY <1>1, <2>1, <3>1 DEF producer, WakeProducer, WaitEmpty, Lock, InsertStore, InsertAdvance,
                              Unlock, PostFull, PrintProduced, Cancelled
    <3>2. CASE p = q
      <4>1. CASE WakeProducer(q)
        BY <1>1, <4>1 DEF WakeProducer
      <4>2. CASE made' = made /\ \E l : Goto(q, l) /\ (l \in Drawn => pc[q] \in Drawn)
        BY <1>1, <4>2
      <4>3. CASE WaitEmpty(q) \/ Lock(q) \/ InsertStore(q)
        BY <4>2, <4>3 DEF WaitEmpty, Lock, InsertStore, Drawn
      <4>4. CASE InsertAdvance(q) \/ Unlock(q) \/ PostFull(q) \/ PrintProduced(q) \/ Cancelled(q)
        BY <4>2, <4>4 DEF InsertAdvance, Unlock, PostFull, PrintProduced, Cancelled, Drawn
      <4> QED BY <2>1, <3>2, <4>1, <4>3, <4>4 DEF producer
    <3> QED BY <3>1, <3>2
  <2>2. ASSUME NEW c \in Consumers, consumer(c) PROVE <1>2
    <3>1. made' = made /\ \E l : Goto(c, l)
      BY <2>2 DEF consumer, WakeConsumer, WaitFull, Lock, RemoveFetch, RemoveAdvance,
                  Unlock, PostEmpty, PrintConsumed, Cancelled
    <3> QED BY <1>1, <3>1, ThreadsApart
  <2>3. CASE CreateThread
    <3>1. pc' = [pc EXCEPT ![cur] = "sleep"] /\ made' = made
      BY <2>3 DEF CreateThread
    <3> QED BY <1>1, <3>1 DEF Drawn
  <2>4. CASE UNCHANGED <<made, pc>>
    BY <2>4
  <2> QED BY <2>1, <2>2, <2>3, <2>4
          DEF Next, mainThread, SleepOver, Cancel, Join, Sleep3Over, Destroy, Exited, vars
<1>3. x[2] < made[q] \/ (x[2] = made[q] /\ pc[q] \notin Drawn)
  BY DEF Past
<1>4. made'[q] \in Nat
  BY <1>1, <1>2
<1>5. x[2] < made'[q] \/ (x[2] = made'[q] /\ pc'[q] \notin Drawn)
  BY <1>1, <1>2, <1>3, <1>4
<1> QED BY <1>1, <1>5 DEF Past

LEMMA NoneToComeStep ==
    ASSUME IInv, HInv, [Next]_vars
    PROVE  NoneToCome'
<1>1. Past \subseteq Past' /\ NoneToCome /\ Hands
  BY PastKept DEF HInv
<1>2. DOMAIN Hand = Consumers
  BY HandTypes
<1> USE DEF NoneToCome
<1>3. CASE Quiet
  <2>1. \A i \in Slots : InUse(i)' <=> InUse(i)
    BY <1>3 DEF Quiet, InUse
  <2> QED BY <1>1, <1>3, <2>1 DEF Quiet
<1>4. ASSUME NEW p \in Producers, InsertAdvance(p) PROVE NoneToCome'
  BY <1>1, <1>4, InsertMoves
<1>5. ASSUME NEW c \in Consumers, RemoveAdvance(c) PROVE NoneToCome'
  BY <1>1, <1>2, <1>5, RemoveMoves
<1>6. ASSUME NEW c \in Consumers, PrintConsumed(c) \/ Drops(c) PROVE NoneToCome'
  <2>1. /\ UNCHANGED ringVars /\ Hand[c] \in Items /\ Hand' = [Hand EXCEPT ![c] = NoItem]
        /\ consumed' = consumed \/ consumed' = consumed \cup {Hand[c]}
    BY <1>6, ReportMoves
  <2>2. \A i \in Slots : InUse(i)' <=> InUse(i)
    BY <2>1 DEF ringVars, InUse
  <2> QED BY <1>1, <1>2, <2>1, <2>2, ThreadsApart DEF ringVars
<1> QED BY <1>3, <1>4, <1>5, <1>6, StepKinds

LEMMA ApartStep ==
    ASSUME IInv, HInv, [Next]_vars
    PROVE  Apart'
<1>1. NoneToCome /\ Apart /\ Hands
  BY DEF HInv
<1>2. /\ DOMAIN Hand = Consumers
      /\ NoItem \notin consumed
      /\ \A i \in Slots : InUse(i) => buffer[i] # NoItem
  BY HandTypes, ThreadsApart DEF IInv, TypeOK, Filled
<1> USE DEF Apart
<1>3. CASE Quiet
  <2>1. \A i \in Slots : InUse(i)' <=> InUse(i)
    BY <1>3 DEF Quiet, InUse
  <2> QED BY <1>1, <1>3, <2>1 DEF Quiet
<1>4. ASSUME NEW p \in Producers, InsertAdvance(p) PROVE Apart'
  <2> DEFINE x == buffer[bufferTail]
  <2>1. /\ buffer' = buffer /\ Hand' = Hand /\ consumed' = consumed
        /\ x \notin Past /\ bufferTail \in Slots
        /\ \A i \in Slots : InUse(i)' <=> InUse(i) \/ i = bufferTail
    BY <1>1, <1>4, InsertMoves
  <2>2. x # NoItem
    BY <1>1, <1>4, ThreadsApart DEF IInv, AtHand, InsertAdvance
  <2>3. \A i \in Slots : InUse(i) => buffer[i] # x
    BY <1>1, <2>1 DEF NoneToCome
  <2>4. \A c \in Consumers : Hand[c] # x
    BY <1>1, <2>1, <2>2 DEF NoneToCome
  <2>5. x \notin consumed
    BY <1>1, <2>1 DEF NoneToCome
  <2> HIDE DEF x
  <2>6. \A i \in Slots : InUse(i)' => \/ InUse(i) /\ buffer'[i] = buffer[i]
                                      \/ i = bufferTail /\ buffer'[i] = x
    BY <2>1 DEF x
  <2> QED BY <1>1, <2>1, <2>3, <2>4, <2>5, <2>6
<1>5. ASSUME NEW c \in Consumers, RemoveAdvance(c) PROVE Apart'
  <2> DEFINE x == buffer[bufferHead]
  <2>1. /\ buffer' = buffer /\ consumed' = consumed
        /\ Hand[c] = NoItem /\ Hand' = [Hand EXCEPT ![c] = x]
        /\ bufferHead \in Slots /\ InUse(bufferHead)
        /\ \A i \in Slots : InUse(i)' <=> InUse(i) /\ i # bufferHead
    BY <1>1, <1>5, RemoveMoves
  <2>2. /\ x # NoItem /\ x \notin consumed /\ \A d \in Consumers : Hand[d] # x
        /\ \A i \in Slots : InUse(i)' => buffer[i] # x
    BY <1>1, <1>2, <2>1
  <2> HIDE DEF x
  <2>3. Hand'[c] = x /\ \A d \in Consumers : d # c => Hand'[d] = Hand[d]
    BY <1>2, <2>1
  <2> QED BY <1>1, <2>1, <2>2, <2>3
<1>6. ASSUME NEW c \in Consumers, PrintConsumed(c) \/ Drops(c) PROVE Apart'
  <2> DEFINE x == Hand[c]
  <2>1. /\ UNCHANGED ringVars /\ x \in Items /\ Hand' = [Hand EXCEPT ![c] = NoItem]
        /\ consumed' = consumed \/ consumed' = consumed \cup {x}
    BY <1>6, ReportMoves
  <2>2. \A i \in Slots : (InUse(i)' <=> InUse(i)) /\ buffer'[i] = buffer[i]
    BY <2>1 DEF ringVars, InUse
  <2>3. x # NoItem /\ Hand'[c] = NoItem /\ \A d \in Consumers : d # c => Hand'[d] = Hand[d]
    BY <1>2, <2>1, ThreadsApart
  <2>4. /\ \A d \in Consumers : d # c => Hand[d] # x
        /\ \A i \in Slots : InUse(i) => buffer[i] # x
    BY <1>1, <2>3
  <2>5. NoItem \notin consumed'
    BY <1>2, <2>1, <2>3
  <2> HIDE DEF x
  <2>6. \A d \in Consumers : Hand'[d] # x /\ (d # c => Hand'[d] = Hand[d]) /\ Hand'[c] = NoItem
    BY <2>3, <2>4
  <2>7. \A d \in Consumers : Hand'[d] \notin consumed'
    BY <1>1, <2>1, <2>5, <2>6
  <2>8. \A i \in Slots : InUse(i)' => buffer'[i] \notin consumed'
    BY <1>1, <2>1, <2>2, <2>4
  <2>9. \A i \in Slots, d \in Consumers : InUse(i)' => buffer'[i] # Hand'[d]
    BY <1>1, <1>2, <2>2, <2>6
  <2> QED BY <1>1, <2>2, <2>6, <2>7, <2>8, <2>9
<1> QED BY <1>3, <1>4, <1>5, <1>6, StepKinds

(* main's loops: the second one has to do with consumers only.             *)
LEMMA StoppingStep ==
    ASSUME IInv, Stopping, [Next]_vars
    PROVE  /\ Stopping'
           /\ \/ StoppingConsumers' = StoppingConsumers
              \/ Sleep3Over /\ StoppingConsumers' = TRUE /\ StoppingConsumers = FALSE
<1> USE BufferAssumption DEF Stopping, StoppingConsumers
<1>1. CASE UNCHANGED mainVars
  BY <1>1 DEF mainVars
<1>2. CASE CreateThread
  BY <1>2 DEF CreateThread
<1>3. CASE SleepOver
  <2>1. cur = 1 /\ cur' = 1
    BY <1>3 DEF SleepOver, IInv, Loops
  <2> QED BY <1>3, <2>1 DEF SleepOver
<1>4. CASE Cancel
  <2>1. cur \in Consumers => cur > NumProducer
    BY DEF Consumers
  <2> QED BY <1>4, <2>1 DEF Cancel
<1>5. CASE Join
  <2>1. cur \in Int /\ cur <= Last /\ cur >= 1
    BY ThreadsApart DEF IInv, TypeOK
  <2> QED BY <1>5, <2>1 DEF Join, AfterJoin, Last
<1>6. CASE Sleep3Over
  BY <1>6 DEF Sleep3Over
<1>7. CASE Destroy
  BY <1>7 DEF Destroy
<1>8. ASSUME NEW t \in Threads,
             (t \in Producers /\ producer(t)) \/ (t \in Consumers /\ consumer(t))
      PROVE  UNCHANGED mainVars
  BY <1>8 DEF producer, WakeProducer, WaitEmpty, Lock, InsertStore, InsertAdvance, Unlock, PostFull,
              PrintProduced, Cancelled, consumer, WakeConsumer, WaitFull, RemoveFetch, RemoveAdvance,
              PostEmpty, PrintConsumed, mainVars
<1> QED BY <1>1, <1>2, <1>3, <1>4, <1>5, <1>6, <1>7, <1>8 DEF Next, mainThread, Exited, vars, Threads

THEOREM HandOffStep ==
    ASSUME IInv, HInv, [Next]_vars
    PROVE  HInv'
<1>1. Hands' /\ NoneToCome' /\ Apart'
  BY HandsStep, NoneToComeStep, ApartStep DEF HInv
<1>2. Stopping'
  BY StoppingStep DEF HInv
<1> QED BY <1>1, <1>2 DEF HInv
-----------------------------------------------------------------------------
(* The ring as a line of items.                                            *)

(* The k-th item from the head is in a slot in use.                        *)
LEMMA RingIndex ==
    ASSUME TypeOK, NEW k \in Nat, 1 <= k, k <= InBuffer + 1
    PROVE  /\ (bufferHead + k - 1) % (BUFFER_SIZE + 1) \in Slots
           /\ k <= InBuffer => InUse((bufferHead + k - 1) % (BUFFER_SIZE + 1))
           /\ k = InBuffer + 1 => (bufferHead + k - 1) % (BUFFER_SIZE + 1) = bufferTail
<1> DEFINE N == BUFFER_SIZE + 1
           x == bufferHead + k - 1
<1>1. /\ N \in Nat \ {0} /\ bufferHead \in 0 .. N - 1 /\ bufferTail \in 0 .. N - 1
      /\ InBuffer = IF bufferHead <= bufferTail THEN bufferTail - bufferHead
                                                ELSE bufferTail - bufferHead + N
  BY BufferAssumption DEF TypeOK, Slots, InBuffer
<1>2. x \in Nat /\ x < N + N
  BY <1>1
<1> HIDE DEF x, N
<1>3. x % N = (IF x < N THEN x ELSE x - N)
  BY <1>1, <1>2, ModOnce
<1> USE DEF x
<1>4. /\ x % N \in 0 .. N - 1
      /\ k <= InBuffer => InUse(x % N)
      /\ k = InBuffer + 1 => x % N = bufferTail
  BY <1>1, <1>3 DEF InUse
<1> QED BY <1>4, BufferAssumption DEF N, Slots

LEMMA ContentsIsWindow ==
    BufferContents = Window(buffer, bufferHead, InBuffer, BUFFER_SIZE + 1)
  BY DEF BufferContents, Window

(* It holds the items in the slots in use, and no others.                  *)
LEMMA ContentsType ==
    ASSUME IInv
    PROVE  /\ Cells(buffer, bufferHead, InBuffer, BUFFER_SIZE + 1, Items)
           /\ InBuffer \in Nat
           /\ BufferContents \in Seq(Items) /\ Len(BufferContents) = InBuffer
           /\ \A k \in 1 .. InBuffer : \E i \in Slots : InUse(i) /\ BufferContents[k] = buffer[i]
<1>1. TypeOK /\ Filled /\ InBuffer \in Nat
  BY InBufferRange DEF IInv
<1>2. ASSUME NEW k \in 1 .. InBuffer
      PROVE  \E i \in Slots : InUse(i) /\ Cell(buffer, bufferHead, k, BUFFER_SIZE + 1) = buffer[i]
  <2>1. k \in Nat /\ 1 <= k /\ k <= InBuffer /\ k <= InBuffer + 1
    BY <1>1
  <2>2. /\ (bufferHead + k - 1) % (BUFFER_SIZE + 1) \in Slots
        /\ InUse((bufferHead + k - 1) % (BUFFER_SIZE + 1))
    BY <1>1, <2>1, RingIndex
  <2> QED BY <2>2 DEF Cell
<1>3. Cells(buffer, bufferHead, InBuffer, BUFFER_SIZE + 1, Items)
  BY <1>1, <1>2 DEF Cells, Filled
<1>4. /\ BufferContents \in Seq(Items) /\ Len(BufferContents) = InBuffer
      /\ \A k \in 1 .. InBuffer :
             BufferContents[k] = Cell(buffer, bufferHead, k, BUFFER_SIZE + 1)
  BY <1>1, <1>3, WindowSeq, ContentsIsWindow
<1> QED BY <1>1, <1>2, <1>3, <1>4

(* As long as the slots in use hold what they held, it is the same line.   *)
LEMMA ContentsKept ==
    ASSUME IInv, bufferHead' = bufferHead, bufferTail' = bufferTail,
           \A i \in Slots : InUse(i) => buffer'[i] = buffer[i]
    PROVE  BufferContents' = BufferContents
<1>1. InBuffer' = InBuffer /\ InBuffer \in Nat /\ TypeOK
  BY InBufferRange DEF InBuffer, IInv
<1>2. ASSUME NEW k \in 1 .. InBuffer
      PROVE  buffer'[(bufferHead + k - 1) % (BUFFER_SIZE + 1)]
                 = buffer[(bufferHead + k - 1) % (BUFFER_SIZE + 1)]
  <2>1. k \in Nat /\ 1 <= k /\ k <= InBuffer /\ k <= InBuffer + 1
    BY <1>1
  <2>2. /\ (bufferHead + k - 1) % (BUFFER_SIZE + 1) \in Slots
        /\ InUse((bufferHead + k - 1) % (BUFFER_SIZE + 1))
    BY <1>1, <2>1, RingIndex
  <2> QED BY <2>2
<1> HIDE DEF InBuffer
<1> QED BY <1>1, <1>2 DEF BufferContents

(* insert_item appends, remove_item takes the first.                       *)
LEMMA ContentsAppend ==
    ASSUME IInv, NEW p \in Producers, InsertAdvance(p)
    PROVE  BufferContents' = Append(BufferContents, buffer[bufferTail])
<1> DEFINE N == BUFFER_SIZE + 1
<1>1. InBuffer' = InBuffer + 1 /\ buffer' = buffer /\ bufferHead' = bufferHead
  BY InBufferGrows DEF InsertAdvance
<1>2. TypeOK /\ InBuffer \in Nat /\ buffer[bufferTail] \in Items
  BY InBufferRange DEF IInv, AtHand, InsertAdvance
<1>3. Cell(buffer, bufferHead, InBuffer + 1, N) = buffer[bufferTail]
  <2> DEFINE k == InBuffer + 1
  <2>1. k \in Nat /\ 1 <= k /\ k <= InBuffer + 1 /\ k = InBuffer + 1
    BY <1>2
  <2> HIDE DEF k
  <2>2. (bufferHead + k - 1) % N = bufferTail
    BY <1>2, <2>1, RingIndex
  <2> QED BY <2>2 DEF Cell, k
<1>4. Cells(buffer, bufferHead, InBuffer + 1, N, Items)
  <2>1. Cells(buffer, bufferHead, InBuffer, N, Items)
    BY ContentsType
  <2>2. \A k \in 1 .. InBuffer + 1 : k \in 1 .. InBuffer \/ k = InBuffer + 1
    BY <1>2
  <2> HIDE DEF N
  <2> QED BY <1>2, <1>3, <2>1, <2>2 DEF Cells
<1> HIDE DEF N
<1>5. Window(buffer, bufferHead, InBuffer + 1, N)
          = Append(Window(buffer, bufferHead, InBuffer, N), Cell(buffer, bufferHead, InBuffer + 1, N))
  BY <1>2, <1>4, WindowGrows
<1>6. BufferContents' = Window(buffer, bufferHead, InBuffer + 1, N)
  BY <1>1 DEF BufferContents, Window, N
<1> QED BY <1>3, <1>5, <1>6, ContentsIsWindow DEF N

LEMMA ContentsTail ==
    ASSUME IInv, NEW c \in Consumers, RemoveAdvance(c)
    PROVE  /\ BufferContents # <<>> /\ Head(BufferContents) = buffer[bufferHead]
           /\ BufferContents' = Tail(BufferContents)
<1> DEFINE N == BUFFER_SIZE + 1
           i == (bufferHead + 1) % N
           m == InBuffer - 1
<1>1. InBuffer' = m /\ buffer' = buffer /\ bufferHead' = i
  BY InBufferShrinks DEF RemoveAdvance, Succ
<1>2. N \in Nat \ {0} /\ bufferHead \in 0 .. N - 1 /\ InBuffer \in 1 .. N
  BY InBufferRange, ItemForConsumer, BufferAssumption DEF IInv, TypeOK, Slots, RemoveAdvance, Claiming
<1>3. Cells(buffer, bufferHead, InBuffer, N, Items)
  BY ContentsType
<1>4. BufferContents' = Window(buffer, i, m, N)
  BY <1>1 DEF BufferContents, Window
<1>5. BufferContents = Window(buffer, bufferHead, InBuffer, N)
  BY ContentsIsWindow
<1>6. i = (bufferHead + 1) % N /\ m = InBuffer - 1
  OBVIOUS
<1> HIDE DEF N, i, m
<1>7. /\ Window(buffer, bufferHead, InBuffer, N) # <<>>
      /\ Head(Window(buffer, bufferHead, InBuffer, N)) = buffer[bufferHead]
  BY <1>2, <1>3, WindowHead
<1>8. Window(buffer, i, m, N) = Tail(Window(buffer, bufferHead, InBuffer, N))
  BY <1>2, <1>3, <1>6, WindowTail
<1> QED BY <1>4, <1>5, <1>7, <1>8
-----------------------------------------------------------------------------
(* The buffer implements the line of HandOff.                              *)

LEMMA InitialHandOff ==
    ASSUME Init
    PROVE  HInv /\ Line!Init
<1> USE BufferAssumption DEF Init
<1>1. Hands
  BY DEF Hands, Drawn, Threads
<1>2. Hand = [c \in Consumers |-> NoItem]
  BY DEF Hand, Has, Threads
<1>3. \A i \in Slots : ~InUse(i)
  BY DEF InUse, Slots
<1>4. NoneToCome /\ Apart
  BY <1>2, <1>3 DEF NoneToCome, Apart
<1>5. Stopping /\ StoppingConsumers = FALSE
  BY DEF Stopping, StoppingConsumers
<1>6. BufferContents = <<>>
  <2>1. InBuffer = 0
    BY DEF InBuffer
  <2> QED BY <2>1 DEF BufferContents
<1>7. Line!Init
  BY <1>2, <1>5, <1>6 DEF Line!Init, Hand, Has
<1> QED BY <1>1, <1>4, <1>5, <1>7 DEF HInv

LEMMA PutStep ==
    ASSUME IInv, HInv, NEW p \in Producers, InsertAdvance(p)
    PROVE  Line!Next
<1> DEFINE x == buffer[bufferTail]
<1>1. /\ Hand' = Hand /\ consumed' = consumed /\ x \notin Past
  BY InsertMoves DEF HInv
<1>2. BufferContents' = Append(BufferContents, x)
  BY ContentsAppend
<1>3. x \in Items
  BY DEF IInv, AtHand, InsertAdvance
<1>4. Len(BufferContents) < BUFFER_SIZE
  BY RoomForProducer, ContentsType DEF InsertAdvance, Claiming
<1>5. x \notin consumed /\ \A c \in Consumers : Hand[c] # x
  BY <1>1, <1>3, ThreadsApart DEF HInv, NoneToCome
<1>6. \A i \in 1 .. Len(BufferContents) : BufferContents[i] # x
  <2>1. \A i \in Slots : InUse(i) => buffer[i] # x
    BY <1>1 DEF HInv, NoneToCome
  <2> HIDE DEF x
  <2> QED BY <2>1, ContentsType
<1>7. ~StoppingConsumers /\ StoppingConsumers' = StoppingConsumers
  <2>1. pc[p] # "exited" /\ p <= NumProducer /\ p \in Threads /\ UNCHANGED mainVars
    BY DEF InsertAdvance, Producers, Threads
  <2> QED BY <2>1, ThreadsApart, BufferAssumption
          DEF IInv, TypeOK, Loops, StoppingConsumers, Producers, mainVars
<1> HIDE DEF x
<1>8. Line!Put(x)
  BY <1>1, <1>2, <1>4, <1>5, <1>6, <1>7 DEF Line!Put, Hand, Has
<1> QED BY <1>3, <1>8 DEF Line!Next

LEMMA TakeStep ==
    ASSUME IInv, HInv, NEW c \in Consumers, RemoveAdvance(c)
    PROVE  Line!Next
<1>1. /\ consumed' = consumed /\ Hand[c] = NoItem
      /\ Hand' = [Hand EXCEPT ![c] = Head(BufferContents)]
  BY RemoveMoves, ContentsTail DEF HInv
<1>2. BufferContents # <<>> /\ BufferContents' = Tail(BufferContents)
  BY ContentsTail
<1>3. StoppingConsumers' = StoppingConsumers
  BY DEF RemoveAdvance, mainVars, StoppingConsumers
<1>4. Line!Take(c)
  BY <1>1, <1>2, <1>3 DEF Line!Take, Hand, Has
<1> QED BY <1>4 DEF Line!Next

LEMMA ReportStep ==
    ASSUME IInv, HInv, NEW c \in Consumers, PrintConsumed(c) \/ Drops(c)
    PROVE  Line!Next
<1>1. /\ UNCHANGED ringVars /\ Hand[c] \in Items /\ Hand' = [Hand EXCEPT ![c] = NoItem]
      /\ PrintConsumed(c) => consumed' = consumed \cup {Hand[c]}
      /\ Drops(c) => consumed' = consumed
  BY ReportMoves
<1>2. BufferContents' = BufferContents
  BY <1>1, ContentsKept DEF ringVars
<1>3. StoppingConsumers' = StoppingConsumers
  BY DEF PrintConsumed, Drops, Cancelled, mainVars, StoppingConsumers
<1>4. CASE PrintConsumed(c)
  <2>1. Hand[c] \notin consumed
    BY DEF HInv, Apart
  <2>2. Line!Finish(c)
    BY <1>1, <1>2, <1>3, <1>4, <2>1 DEF Line!Finish, Hand, Has
  <2> QED BY <2>2 DEF Line!Next
<1>5. CASE Drops(c)
  <2>1. StoppingConsumers
    BY <1>5 DEF HInv, Stopping, Drops, Cancelled
  <2>2. Hand[c] # NoItem
    BY <1>1, ThreadsApart
  <2>3. Line!Abandon(c)
    BY <1>1, <1>2, <1>3, <1>5, <2>1, <2>2 DEF Line!Abandon, Hand, Has
  <2> QED BY <2>3 DEF Line!Next
<1> QED BY <1>4, <1>5

LEMMA QuietStep ==
    ASSUME IInv, HInv, [Next]_vars, Quiet
    PROVE  [Line!Next]_(Line!vars)
<1>1. BufferContents' = BufferContents /\ Hand' = Hand /\ consumed' = consumed
  BY ContentsKept DEF Quiet
<1>2. CASE StoppingConsumers' = StoppingConsumers
  BY <1>1, <1>2 DEF Line!vars, Hand, Has
<1>3. CASE StoppingConsumers' = TRUE /\ StoppingConsumers = FALSE
  <2>1. Line!Close
    BY <1>1, <1>3 DEF Line!Close, Hand, Has
  <2> QED BY <2>1 DEF Line!Next
<1> QED BY <1>2, <1>3, StoppingStep DEF HInv

(* Whatever the threads do, and whenever main cancels them: the ring, the  *)
(* mutex and the two semaphores are a first-in first-out line of at most   *)
(* BUFFER_SIZE items from which each item is taken once, by one consumer;  *)
(* only while main stops the consumers may one that is taken get lost.     *)
THEOREM HandsOff == Spec => ImplementsHandOff
<1>1. Init => HInv /\ Line!Init
  BY InitialHandOff
<1>2. IInv /\ HInv /\ [Next]_vars => HInv'
  BY HandOffStep
<1>3. IInv /\ HInv /\ [Next]_vars => [Line!Next]_(Line!vars)
  BY StepKinds, QuietStep, PutStep, TakeStep, ReportStep
<1> QED BY <1>1, <1>2, <1>3, Invariance, PTL DEF Spec, ImplementsHandOff, Line!Spec
=============================================================================
