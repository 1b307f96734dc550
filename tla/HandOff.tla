------------------------------ MODULE HandOff ------------------------------
(***************************************************************************)
(* What the thread pool of Project-5-1 and the buffer of Project-5-2 both  *)
(* promise, without their locks, semaphores and rings: items put by some   *)
(* threads wait in one first-in first-out line of bounded length, another  *)
(* thread takes the oldest one, and every item is finished at most once.   *)
(* Only once the takers are being shut down may one abandon what it took.  *)
(***************************************************************************)
EXTENDS Naturals, Sequences

CONSTANTS Items,      \* what may be put
          Takers,     \* the threads that take
          Capacity,   \* how many items may wait
          Nothing     \* "this taker holds no item"

VARIABLES line,       \* items nobody has taken, oldest first
          held,       \* the item each taker holds, or Nothing
          finished,   \* the items that were dealt with
          closing     \* are the takers being shut down?

vars == <<line, held, finished, closing>>

Init == /\ line = <<>>
        /\ held = [w \in Takers |-> Nothing]
        /\ finished = {}
        /\ closing = FALSE

Put(t) == /\ ~closing
          /\ Len(line) < Capacity
          /\ t \notin finished
          /\ \A i \in 1 .. Len(line) : line[i] # t
          /\ \A w \in Takers : held[w] # t
          /\ line' = Append(line, t)
          /\ UNCHANGED <<held, finished, closing>>

Take(w) == /\ held[w] = Nothing
           /\ line # <<>>
           /\ held' = [held EXCEPT ![w] = Head(line)]
           /\ line' = Tail(line)
           /\ UNCHANGED <<finished, closing>>

Finish(w) == /\ held[w] \in Items \ finished
             /\ finished' = finished \cup {held[w]}
             /\ held' = [held EXCEPT ![w] = Nothing]
             /\ UNCHANGED <<line, closing>>

Close == /\ ~closing
         /\ closing' = TRUE
         /\ UNCHANGED <<line, held, finished>>

Abandon(w) == /\ closing
              /\ held[w] # Nothing
              /\ held' = [held EXCEPT ![w] = Nothing]
              /\ UNCHANGED <<line, finished, closing>>

Next == \/ \E t \in Items : Put(t)
        \/ \E w \in Takers : Take(w) \/ Finish(w) \/ Abandon(w)
        \/ Close

Spec == Init /\ [][Next]_vars
=============================================================================
