---------------------------- MODULE ForkJoinSort ----------------------------
(***************************************************************************)
(* The sorts of Project-3: sort.go (selection sort, merge sort and quick   *)
(* sort) and multithreaded_sort.c.  A call of merge_sort or quick_sort     *)
(* starts two goroutines that sort parts of its slice in place, and waits  *)
(* for both; so does main of the C program with two threads.               *)
(*                                                                         *)
(* A call is named by its path: <<>> is that of main, <<1>> and <<2>> are  *)
(* those it starts, <<1, 2>> is the second that <<1>> starts.  Its record  *)
(* task[t] has the slice, from low to high - 1, and the local variables.   *)
(***************************************************************************)
EXTENDS Integers, FiniteSets, SequencesExt

CONSTANTS Sorts,       \* the programs, with the inputs each is given
          THRESHOLD,
          INT_MOD      \* 2^32, the range of int

ASSUME SortAssumption ==
    /\ \A sort \in Sorts : sort.program \in {"selection", "merge", "quick", "threads"}
    /\ \A sort \in Sorts : sort.input \in Seq(Int)
    /\ THRESHOLD \in Nat \ {0}
    /\ INT_MOD \in Nat \ {0}

VARIABLES program, arr, task

vars == <<program, arr, task>>

main == <<>>
Size(t) == task[t].high - task[t].low
Slice(t) == task[t].low .. task[t].high - 1
Swapped(a, b) == [arr EXCEPT ![a] = arr[b], ![b] = arr[a]]
Contents(t) == [k \in 1 .. Size(t) |-> arr[task[t].low + k - 1]]

Call(low, high) ==
    [pc |-> "start", low |-> low, high |-> high, wg |-> 0, i |-> low, j |-> low,
     cut |-> <<low, low>>, out |-> <<>>,
     before |-> [k \in 1 .. high - low |-> arr[low + k - 1]]]    \* history

DoneForgotten(t) == [task EXCEPT ![t].pc = "done"]
(* The call returns; a goroutine tells its WaitGroup, a thread its joiner. *)
Done(t) == [u \in DOMAIN task |->
    CASE u = t -> [task[t] EXCEPT !.pc = "done"]
      [] u # t /\ t # main /\ u = Front(t) -> [task[u] EXCEPT !.wg = @ - 1]
      [] OTHER -> task[u]]
-----------------------------------------------------------------------------
(* ordinary_sort, for short slices, puts one minimum in its place a step.  *)

Short(t) == program = "selection" \/ (program # "threads" /\ Size(t) <= THRESHOLD)

SortShort(t) ==
    /\ task[t].pc = "start" /\ Short(t)
    /\ task' = [task EXCEPT ![t].pc = "sort"]
    /\ UNCHANGED <<program, arr>>

SelectMinimum(t) ==
    LET i == task[t].i
        rest == i .. task[t].high - 1
        min_pos == CHOOSE p \in rest : \A q \in rest : arr[p] < arr[q] \/ (arr[p] = arr[q] /\ p <= q)
    IN /\ task[t].pc = "sort"
       /\ IF rest = {} THEN task' = Done(t) /\ UNCHANGED arr
          ELSE arr' = Swapped(i, min_pos) /\ task' = [task EXCEPT ![t].i = i + 1]
       /\ UNCHANGED program

(* runner of the C program: qsort, with a difference for a comparison.  If *)
(* that overflows for two elements qsort may leave them in any order.      *)
cmp(a, b) == LET d == (a - b) % INT_MOD IN IF 2 * d < INT_MOD THEN d ELSE d - INT_MOD
Overflows(S) == \E a, b \in S : cmp(a, b) # a - b

runner(t) ==
    /\ program = "threads" /\ t # main /\ task[t].pc = "start"
    /\ \E order \in [Slice(t) -> Slice(t)] :
          LET sorted == [k \in DOMAIN arr |-> arr[IF k \in Slice(t) THEN order[k] ELSE k]]
          IN /\ \A p, q \in Slice(t) : p # q => order[p] # order[q]
             /\ \A p, q \in Slice(t) : p < q =>
                    Overflows({arr[k] : k \in Slice(t)}) \/ cmp(sorted[p], sorted[q]) <= 0
             /\ arr' = sorted
    /\ task' = Done(t)
    /\ UNCHANGED program
-----------------------------------------------------------------------------
(* Calls that start others.                                                *)

Halve(t) ==
    LET middle == task[t].low + Size(t) \div 2 IN
    /\ task[t].pc = "start"
    /\ \/ program = "merge" /\ ~Short(t)
       \/ program = "threads" /\ t = main
    /\ task' = [task EXCEPT ![t].cut = <<middle, middle>>, ![t].wg = 2, ![t].pc = "go"]
    /\ UNCHANGED <<program, arr>>

ChoosePivot(t) ==
    /\ program = "quick" /\ task[t].pc = "start" /\ ~Short(t)
    /\ \E pivot \in Slice(t) : arr' = Swapped(task[t].high - 1, pivot)
    /\ task' = [task EXCEPT ![t].pc = "partition"]
    /\ UNCHANGED program

Partition(t) ==
    LET i == task[t].i
        lo == task[t].j
        hi == task[t].high - 1
        smaller == arr[i] < arr[hi]
    IN /\ task[t].pc = "partition"
       /\ IF i <= hi
          THEN /\ arr' = IF smaller THEN Swapped(lo, i) ELSE arr
               /\ task' = [task EXCEPT ![t].i = i + 1, ![t].j = IF smaller THEN lo + 1 ELSE lo]
          ELSE /\ arr' = Swapped(lo, hi)
               /\ task' = [task EXCEPT ![t].cut = <<lo, lo + 1>>, ![t].wg = 2, ![t].pc = "go"]
       /\ UNCHANGED program

(* The go statements, or pthread_create, one after the other.              *)
PartWithoutFirst(t, k) ==
    IF k = 1 THEN Call(task[t].low, task[t].cut[1]) ELSE Call(task[t].cut[2] + 1, task[t].high)
Part(t, k) == IF k = 1 THEN Call(task[t].low, task[t].cut[1]) ELSE Call(task[t].cut[2], task[t].high)
Go(t) ==
    LET k == IF t \o <<1>> \in DOMAIN task THEN 2 ELSE 1 IN
    /\ task[t].pc = "go"
    /\ task' = [u \in DOMAIN task \cup {t \o <<k>>} |->
                    CASE u = t \o <<k>> -> Part(t, k)
                      [] u = t /\ k = 2 -> [task[t] EXCEPT !.pc = "wait"]
                      [] OTHER -> task[u]]
    /\ UNCHANGED <<program, arr>>

(* wg.Wait(), or pthread_join of both threads.                             *)
OneJoined(t) == task[t].wg < 2
Joined(t) == task[t].wg = 0
Wait(t) ==
    /\ task[t].pc = "wait" /\ Joined(t)
    /\ task' = IF program = "quick" THEN Done(t)
               ELSE [task EXCEPT ![t].pc = "merge", ![t].i = task[t].low, ![t].j = task[t].cut[1]]
    /\ UNCHANGED <<program, arr>>

(* Append to result the smaller of the next two, or what one half has left.*)
Merge(t) ==
    LET lo1 == task[t].i
        hi1 == task[t].cut[1]
        lo2 == task[t].j
        hi2 == task[t].high
        Append1 == [task EXCEPT ![t].out = Append(@, arr[lo1]), ![t].i = lo1 + 1]
        Append2 == [task EXCEPT ![t].out = Append(@, arr[lo2]), ![t].j = lo2 + 1]
    IN /\ task[t].pc = "merge"
       /\ task' = CASE lo1 < hi1 /\ lo2 < hi2 -> IF arr[lo1] < arr[lo2] THEN Append1 ELSE Append2
                    [] lo1 < hi1 /\ lo2 >= hi2 -> Append1
                    [] lo1 >= hi1 /\ lo2 < hi2 -> Append2
                    [] OTHER -> IF program = "threads" THEN Done(t)
                                ELSE [task EXCEPT ![t].pc = "copy", ![t].i = task[t].low]
       /\ UNCHANGED <<program, arr>>

CopyBack(t) ==
    LET i == task[t].i IN
    /\ task[t].pc = "copy"
    /\ IF i < task[t].high
       THEN /\ arr' = [arr EXCEPT ![i] = task[t].out[i - task[t].low + 1]]
            /\ task' = [task EXCEPT ![t].i = i + 1]
       ELSE task' = Done(t) /\ UNCHANGED arr
    /\ UNCHANGED program
-----------------------------------------------------------------------------
Init ==
    \E sort \in Sorts :
        /\ program = sort.program
        /\ arr = [k \in 0 .. Len(sort.input) - 1 |-> sort.input[k + 1]]
        /\ task = [t \in {main} |-> Call(0, Len(sort.input))]

Step(t) == \/ SortShort(t) \/ SelectMinimum(t) \/ runner(t)
           \/ Halve(t) \/ ChoosePivot(t) \/ Partition(t) \/ Go(t)
           \/ Wait(t) \/ Merge(t) \/ CopyBack(t)

Exited == task[main].pc = "done" /\ UNCHANGED vars

Next == Exited \/ \E t \in DOMAIN task : Step(t)

(* Every thread or goroutine is scheduled now and then: whichever can go   *)
(* on, some one of them does.                                              *)
Spec == Init /\ [][Next]_vars /\ WF_vars(\E t \in DOMAIN task : Step(t))
-----------------------------------------------------------------------------
(* Properties.                                                             *)

IsPermutation(s, u) ==
    Len(s) = Len(u) /\ \A x \in Range(s) \cup Range(u) :
        Cardinality({k \in DOMAIN s : s[k] = x}) = Cardinality({k \in DOMAIN u : u[k] = x})

(* When a call has returned, and its caller still waits for the other one, *)
(* its slice is sorted and has the elements it began with, whatever the    *)
(* calls beside it did meanwhile.  The C program leaves the order open if  *)
(* its comparison overflows within a half.  (sort.go:40-79, 81-108)        *)
Output(t) == IF program = "threads" /\ t = main THEN task[t].out ELSE Contents(t)
MayBeUnsorted(t) ==
    program = "threads" /\ \E u \in DOMAIN task \ {main} :
                               IsPrefix(t, u) /\ Overflows(Range(task[u].before))
CallsSort ==
    \A t \in DOMAIN task :
        task[t].pc = "done" /\ (t # main => task[Front(t)].pc \in {"go", "wait"}) =>
            /\ IsPermutation(Output(t), task[t].before)
            /\ IsSorted(Output(t), LAMBDA a, b : a <= b) \/ MayBeUnsorted(t)

(* The elements that the next step of a call reads or writes.  No two      *)
(* calls touch the same one: there is no data race, although the slices of *)
(* a call and its parts are the same memory.  (sort.go:49-56)              *)
Touched(t) ==
    IF task[t].pc \in {"start", "sort", "partition", "merge", "copy"} THEN Slice(t) ELSE {}
NoSharedElements ==
    \A t, u \in DOMAIN task : t # u => Touched(t) \cap Touched(u) = {}

(* Every call comes to an end; none waits for a Done that never comes.     *)
Returns == <>(task[main].pc = "done")
=============================================================================
