---------------------------- MODULE BoundedBuffer ----------------------------
(***************************************************************************)
(* The producer-consumer program of Project-5-2: buffer.c and main.c.      *)
(*                                                                         *)
(* The ring is never tested for being full or empty: a producer first      *)
(* takes a unit of the semaphore empty and gives one to full afterwards, a *)
(* consumer the other way round, and the mutex lock guards the ring.  The  *)
(* main thread creates the producers, then the consumers, sleeps, cancels  *)
(* and joins the producers one by one, sleeps again, and does the same to  *)
(* the consumers.  Threads are numbered in the order of their creation.    *)
(***************************************************************************)
EXTENDS Integers, Sequences, FiniteSets

CONSTANTS BUFFER_SIZE,     \* how many items the buffer holds
          NumProducer, NumConsumer,
          MaxItems,        \* bound: how many items each producer makes
          NoItem, NoOne    \* "no item" and "nobody holds the mutex"

ASSUME BufferAssumption ==
    /\ BUFFER_SIZE \in Nat \ {0}
    /\ NumProducer \in Nat \ {0}
    /\ NumConsumer \in Nat \ {0}
    /\ MaxItems \in Nat

Producers == 1 .. NumProducer
Consumers == NumProducer + 1 .. NumProducer + NumConsumer
Threads == Producers \cup Consumers
Slots == 0 .. BUFFER_SIZE

(* Items are told apart by who made them and when, so that a lost, doubled *)
(* or overtaken one shows.                                                 *)
Items == Producers \X (1 .. MaxItems)

ASSUME BufferValues == NoItem \notin Items /\ NoOne \notin Threads

VARIABLES buffer, bufferHead, bufferTail,
          full, empty,     \* the semaphores
          lock,            \* the thread holding the mutex, or NoOne
          item,            \* the local of each thread
          made,            \* how many items each producer has drawn
          consumed,        \* items a consumer has reported
          main, cur,       \* the main thread: phase, and the thread it is at
          cancelled,       \* threads with a pending cancellation request
          pc               \* where each thread is

ringVars == <<buffer, bufferHead, bufferTail>>
semVars  == <<full, empty>>
mainVars == <<main, cur, cancelled>>
vars == <<ringVars, semVars, lock, item, made, consumed, mainVars, pc>>

Goto(t, label) == pc' = [pc EXCEPT ![t] = label]
-----------------------------------------------------------------------------
Succ(x) == (x + 1) % (BUFFER_SIZE + 1)

(* How many items lie between the head and the tail.                       *)
InBuffer == IF bufferHead <= bufferTail
            THEN bufferTail - bufferHead
            ELSE bufferTail - bufferHead + BUFFER_SIZE + 1
-----------------------------------------------------------------------------
(* Steps producers and consumers share.                                    *)

(* sleep(rand() % MAX_SLEEP_TIME + 1) ends; a producer draws its item.     *)
WakeProducer(p) ==
    /\ pc[p] = "sleep"
    /\ made[p] < MaxItems
    /\ made' = [made EXCEPT ![p] = @ + 1]
    /\ item' = [item EXCEPT ![p] = <<p, made[p] + 1>>]
    /\ Goto(p, "sem_wait")
    /\ UNCHANGED <<ringVars, semVars, lock, consumed, mainVars>>

WakeConsumer(c) ==
    /\ pc[c] = "sleep"
    /\ Goto(c, "sem_wait")
    /\ UNCHANGED <<ringVars, semVars, lock, item, made, consumed, mainVars>>

MutexIgnored(t) ==
    /\ pc[t] = "lock"
    /\ lock' = t
    /\ Goto(t, "access")
    /\ UNCHANGED <<ringVars, semVars, item, made, consumed, mainVars>>

Lock(t) ==
    /\ pc[t] = "lock"
    /\ lock = NoOne
    /\ lock' = t
    /\ Goto(t, "access")
    /\ UNCHANGED <<ringVars, semVars, item, made, consumed, mainVars>>

Unlock(t) ==
    /\ pc[t] = "unlock"
    /\ lock = t
    /\ lock' = NoOne
    /\ Goto(t, "sem_post")
    /\ UNCHANGED <<ringVars, semVars, item, made, consumed, mainVars>>
-----------------------------------------------------------------------------
(* insert_item and the rest of producer.                                   *)

WaitEmpty(p) ==
    /\ pc[p] = "sem_wait"
    /\ empty > 0
    /\ empty' = empty - 1
    /\ Goto(p, "lock")
    /\ UNCHANGED <<ringVars, full, lock, item, made, consumed, mainVars>>

InsertStore(p) ==
    /\ pc[p] = "access"
    /\ buffer' = [buffer EXCEPT ![bufferTail] = item[p]]
    /\ Goto(p, "advance")
    /\ UNCHANGED <<bufferHead, bufferTail, semVars, lock, item, made, consumed,
                   mainVars>>

InsertAdvance(p) ==
    /\ pc[p] = "advance"
    /\ bufferTail' = Succ(bufferTail)
    /\ Goto(p, "unlock")
    /\ UNCHANGED <<buffer, bufferHead, semVars, lock, item, made, consumed,
                   mainVars>>

PostEmptyInstead(p) ==
    /\ pc[p] = "sem_post"
    /\ empty' = empty + 1
    /\ Goto(p, "print")
    /\ UNCHANGED <<ringVars, full, lock, item, made, consumed, mainVars>>

PostFull(p) ==
    /\ pc[p] = "sem_post"
    /\ full' = full + 1
    /\ Goto(p, "print")
    /\ UNCHANGED <<ringVars, empty, lock, item, made, consumed, mainVars>>

PrintProduced(p) ==
    /\ pc[p] = "print"
    /\ item' = [item EXCEPT ![p] = NoItem]
    /\ Goto(p, "sleep")
    /\ UNCHANGED <<ringVars, semVars, lock, made, consumed, mainVars>>
-----------------------------------------------------------------------------
(* remove_item and the rest of consumer.                                   *)

WaitFull(c) ==
    /\ pc[c] = "sem_wait"
    /\ full > 0
    /\ full' = full - 1
    /\ Goto(c, "lock")
    /\ UNCHANGED <<ringVars, empty, lock, item, made, consumed, mainVars>>

RemoveFetch(c) ==
    /\ pc[c] = "access"
    /\ item' = [item EXCEPT ![c] = buffer[bufferHead]]
    /\ Goto(c, "advance")
    /\ UNCHANGED <<ringVars, semVars, lock, made, consumed, mainVars>>

RemoveAdvance(c) ==
    /\ pc[c] = "advance"
    /\ bufferHead' = Succ(bufferHead)
    /\ Goto(c, "unlock")
    /\ UNCHANGED <<buffer, bufferTail, semVars, lock, item, made, consumed,
                   mainVars>>

SlotKept(c) ==
    /\ pc[c] = "sem_post"
    /\ Goto(c, "print")
    /\ UNCHANGED <<ringVars, semVars, lock, item, made, consumed, mainVars>>

PostEmpty(c) ==
    /\ pc[c] = "sem_post"
    /\ empty' = empty + 1
    /\ Goto(c, "print")
    /\ UNCHANGED <<ringVars, full, lock, item, made, consumed, mainVars>>

(* The local item is dead until the next remove_item: it is reset here.    *)
PrintConsumed(c) ==
    /\ pc[c] = "print"
    /\ consumed' = consumed \cup {item[c]}
    /\ item' = [item EXCEPT ![c] = NoItem]
    /\ Goto(c, "sleep")
    /\ UNCHANGED <<ringVars, semVars, lock, made, mainVars>>

(* A pending cancellation acts in sleep, in sem_wait and in printf, whose  *)
(* line is then lost; between sem_wait and printf the thread runs on.      *)
SleepOrPrint(t) == pc[t] \in {"sleep", "print"}
CancellationPoint(t) == pc[t] \in {"sleep", "sem_wait", "print"}

Cancelled(t) ==
    /\ t \in cancelled
    /\ CancellationPoint(t)
    /\ item' = [item EXCEPT ![t] = NoItem]
    /\ Goto(t, "exited")
    /\ UNCHANGED <<ringVars, semVars, lock, made, consumed, mainVars>>

producer(p) ==
    \/ WakeProducer(p) \/ WaitEmpty(p) \/ Lock(p) \/ InsertStore(p)
    \/ InsertAdvance(p) \/ Unlock(p) \/ PostFull(p) \/ PrintProduced(p)
    \/ Cancelled(p)

consumer(c) ==
    \/ WakeConsumer(c) \/ WaitFull(c) \/ Lock(c) \/ RemoveFetch(c)
    \/ RemoveAdvance(c) \/ Unlock(c) \/ PostEmpty(c) \/ PrintConsumed(c)
    \/ Cancelled(c)
-----------------------------------------------------------------------------
(* The main thread.                                                        *)

Last == NumProducer + NumConsumer

CreateThread ==
    /\ main = "create"
    /\ Goto(cur, "sleep")
    /\ IF cur = Last THEN main' = "sleep" /\ cur' = 1
                     ELSE cur' = cur + 1 /\ main' = main
    /\ UNCHANGED <<ringVars, semVars, lock, item, made, consumed, cancelled>>

SleepOver ==
    /\ main = "sleep"
    /\ main' = "cancel"
    /\ UNCHANGED <<ringVars, semVars, lock, item, made, consumed, cur, cancelled, pc>>

Cancel ==
    /\ main = "cancel"
    /\ cancelled' = cancelled \cup {cur}
    /\ main' = "join"
    /\ UNCHANGED <<ringVars, semVars, lock, item, made, consumed, cur, pc>>

(* After its last round the loop over the producers is followed by the     *)
(* second sleep, the loop over the consumers by the clean-up.              *)
AfterJoin ==
    IF cur = Last
    THEN main' = "destroy" /\ cur' = cur
    ELSE main' = (IF cur = NumProducer THEN "sleep3" ELSE "cancel") /\ cur' = cur + 1

JoinWithoutWaiting ==
    /\ main = "join"
    /\ AfterJoin
    /\ UNCHANGED <<ringVars, semVars, lock, item, made, consumed, cancelled, pc>>

Join ==
    /\ main = "join"
    /\ pc[cur] = "exited"
    /\ AfterJoin
    /\ UNCHANGED <<ringVars, semVars, lock, item, made, consumed, cancelled, pc>>

(* The three seconds are over, whatever the consumers have consumed.       *)
Sleep3Over ==
    /\ main = "sleep3"
    /\ main' = "cancel"
    /\ UNCHANGED <<ringVars, semVars, lock, item, made, consumed, cur, cancelled, pc>>

Destroy ==
    /\ main = "destroy"
    /\ main' = "exit"
    /\ UNCHANGED <<ringVars, semVars, lock, item, made, consumed, cur, cancelled, pc>>

Exited == main = "exit" /\ UNCHANGED vars

mainThread == CreateThread \/ Cancel \/ Join \/ Sleep3Over \/ Destroy
-----------------------------------------------------------------------------
Init ==
    /\ buffer = [x \in Slots |-> NoItem]
    /\ bufferHead = 0 /\ bufferTail = 0
    /\ full = 0 /\ empty = BUFFER_SIZE
    /\ lock = NoOne
    /\ item = [t \in Threads |-> NoItem]
    /\ made = [p \in Producers |-> 0]
    /\ consumed = {}
    /\ main = "create" /\ cur = 1
    /\ cancelled = {}
    /\ pc = [t \in Threads |-> "none"]

Next == \/ \E p \in Producers : producer(p)
        \/ \E c \in Consumers : consumer(c)
        \/ mainThread
        \/ SleepOver
        \/ Exited

(* Sleeps of the threads end, and a thread that can move is eventually     *)
(* scheduled.  The length of main's first sleep is the user's argument: it *)
(* may outlast everything.                                                 *)
Fairness ==
    /\ \A p \in Producers : WF_vars(producer(p))
    /\ \A c \in Consumers : WF_vars(consumer(c))
    /\ WF_vars(mainThread)

Spec == Init /\ [][Next]_vars /\ Fairness
-----------------------------------------------------------------------------
(* Properties.                                                             *)

TypeOK ==
    /\ buffer \in [Slots -> Items \cup {NoItem}]
    /\ bufferHead \in Slots /\ bufferTail \in Slots
    /\ full \in Nat /\ empty \in Nat
    /\ lock \in Threads \cup {NoOne}
    /\ item \in [Threads -> Items \cup {NoItem}]
    /\ made \in [Producers -> 0 .. MaxItems]
    /\ consumed \subseteq Items
    /\ main \in {"create", "sleep", "cancel", "join", "sleep3", "destroy", "exit"}
    /\ cur \in Threads
    /\ cancelled \subseteq Threads
    /\ pc \in [Threads -> {"none", "sleep", "sem_wait", "lock", "access", "advance",
                           "unlock", "sem_post", "print", "exited"}]

At(S, labels) == {t \in S : pc[t] \in labels}

(* insert_item and remove_item test nothing: they rely on the semaphores.  *)
(* full counts the items no consumer claims and every producer has posted, *)
(* empty the free slots no producer claims and every consumer has posted;  *)
(* a thread cancelled on the way takes no unit of either with it.          *)
SemaphoresMatchBuffer ==
    /\ TypeOK
    /\ InBuffer = full + Cardinality(At(Consumers, {"lock", "access", "advance"}))
                       + Cardinality(At(Producers, {"unlock", "sem_post"}))
    /\ BUFFER_SIZE - InBuffer =
           empty + Cardinality(At(Producers, {"lock", "access", "advance"}))
                 + Cardinality(At(Consumers, {"unlock", "sem_post"}))

(* destroy_buffer and the calls of free find no thread left that could     *)
(* touch the buffer, a semaphore or its parameter, and the mutex unlocked. *)
DestroyIsSafe ==
    main \in {"destroy", "exit"} =>
        lock = NoOne /\ \A t \in Threads : pc[t] = "exited"

(* The items in the ring, oldest first, as remove_item would take them.    *)
BufferContents ==
    [k \in 1 .. InBuffer |-> buffer[(bufferHead + k - 1) % (BUFFER_SIZE + 1)]]

(* The loop that cancels the consumers has begun.                          *)
StoppingConsumers ==
    \/ main \in {"cancel", "join"} /\ cur > NumProducer
    \/ main \in {"destroy", "exit"}

Line == INSTANCE HandOff WITH
    Takers <- Consumers, Capacity <- BUFFER_SIZE, Nothing <- NoItem,
    line <- BufferContents,
    held <- [c \in Consumers |-> IF pc[c] \in {"unlock", "sem_post", "print"}
                                 THEN item[c] ELSE NoItem],
    finished <- consumed,
    closing <- StoppingConsumers

(* The buffer is a first-in first-out line of at most BUFFER_SIZE items    *)
(* from which each item is taken once, by one consumer.                    *)
ImplementsHandOff == Line!Spec

Inserted(x) == \/ x[2] < made[x[1]]
               \/ x[2] = made[x[1]] /\ pc[x[1]] \in {"unlock", "sem_post", "print", "sleep"}

(* An item inserted is consumed as long as the consumers are not stopped:  *)
(* also when its producer is cancelled right after, or waited for a slot.  *)
InsertedItemConsumed ==
    \A x \in Items : Inserted(x) ~> (x \in consumed \/ StoppingConsumers)

(* main.c:35-49: main, once awake, joins every thread and returns, though  *)
(* it joins producers that may be waiting for a slot or for the mutex.     *)
MainReturns == (main = "cancel") ~> (main = "exit")
=============================================================================
