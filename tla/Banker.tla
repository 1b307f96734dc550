------------------------------- MODULE Banker -------------------------------
(***************************************************************************)
(* The banker of Project-6: banker.c.  The program is sequential: it reads *)
(* a command, RQ or RL with a customer and an amount of each resource, and *)
(* answers with the return value of request_resources or                   *)
(* release_resources.  One action is one command.                          *)
(*                                                                         *)
(* Both functions work resource by resource and undo what they did when a  *)
(* later resource fails; release_resources undoes it wrongly.              *)
(***************************************************************************)
EXTENDS Integers, FiniteSetsExt

CONSTANTS NUMBER_OF_CUSTOMERS, NUMBER_OF_RESOURCES,
          Supplies,       \* what the arguments may make available at first
          Demands,        \* what resources.txt may hold
          Amounts,        \* the amounts a command may name
          Garbage,        \* what the memory before a command's amounts may hold
          Neighbours,     \* what the linker may have put right before allocation
          MaxSpoils       \* bound: the input ends after so many releases were
                          \* undone wrongly

Customers == 0 .. NUMBER_OF_CUSTOMERS - 1
Resources == 0 .. NUMBER_OF_RESOURCES - 1

ASSUME BankerAssumption ==
    /\ NUMBER_OF_CUSTOMERS \in Nat \ {0} /\ NUMBER_OF_RESOURCES \in Nat \ {0}
    /\ Supplies \subseteq [Resources -> Nat]
    /\ Demands \subseteq [Customers -> [Resources -> Nat]]
    /\ Amounts \subseteq Int /\ Garbage \subseteq Int
    /\ MaxSpoils \in Nat \ {0}

ASSUME NeighboursAssumption ==
    Neighbours \subseteq {"available", "maximum", "need", "nothing"}

VARIABLES available, maximum, allocation, need,
          answer,         \* return value of the last command
          total,          \* history: available as it was at first
          returned,       \* history: what each customer has released
          spoils          \* history: releases undone wrongly

vars == <<available, maximum, allocation, need, answer, total, returned, spoils>>

(* The three arrays a command changes.                                     *)
Bank == [available |-> available, allocation |-> allocation, need |-> need]
Become(bank) == /\ available' = bank.available
                /\ allocation' = bank.allocation
                /\ need' = bank.need

Plus(v, a, S) == [r \in Resources |-> IF r \in S THEN v[r] + a[r] ELSE v[r]]
Minus(v, a, S) == [r \in Resources |-> IF r \in S THEN v[r] - a[r] ELSE v[r]]

(* The indices a loop has gone through when it is at index i.              *)
Before(i) == 0 .. i - 1
-----------------------------------------------------------------------------
is_leq(a, b) == \A r \in Resources : a[r] <= b[r]

(* is_safe: in each round the first customer whose need can be met gives   *)
(* back its allocation; no such customer before the last round: unsafe.    *)
ReadyAgain(bank, work, finish) ==
    {i \in Customers : is_leq(bank.need[i], work)}

Ready(bank, work, finish) ==
    {i \in Customers \ finish : is_leq(bank.need[i], work)}

SafeAfterOneRound(bank) == Ready(bank, bank.available, {}) # {}

is_safe(bank) ==
    LET round[n \in 0 .. NUMBER_OF_CUSTOMERS] ==
            IF n = 0
            THEN [work |-> bank.available, finish |-> {}]
            ELSE LET last == round[n - 1]
                     ready == Ready(bank, last.work, last.finish)
                 IN IF ready = {} THEN last
                    ELSE [work   |-> Plus(last.work, bank.allocation[Min(ready)], Resources),
                          finish |-> last.finish \cup {Min(ready)}]
    IN round[NUMBER_OF_CUSTOMERS].finish = Customers
-----------------------------------------------------------------------------
(* request_resources.                                                      *)

RequestError(c, request, i) ==
    CASE request[i] > available[i] -> -2
      [] request[i] <= available[i] /\ (request[i] < 0 \/ request[i] > need[c][i]) -> -1
      [] OTHER -> 0

(* Allocate amounts of the resources in S to customer c, and the rollback. *)
Allocate(bank, c, request, S) ==
    [available  |-> Minus(bank.available, request, S),
     allocation |-> [bank.allocation EXCEPT ![c] = Plus(@, request, S)],
     need       |-> [bank.need EXCEPT ![c] = Minus(@, request, S)]]

NeedNotRestored(bank, c, request, S) ==
    [available  |-> Plus(bank.available, request, S),
     allocation |-> [bank.allocation EXCEPT ![c] = Minus(@, request, S)],
     need       |-> bank.need]

TakeBack(bank, c, request, S) ==
    [available  |-> Plus(bank.available, request, S),
     allocation |-> [bank.allocation EXCEPT ![c] = Minus(@, request, S)],
     need       |-> [bank.need EXCEPT ![c] = Plus(@, request, S)]]

(* The loop over the resources stops at resource i with an error.          *)
RequestDenied(c, request) ==
    \E i \in Resources :
        /\ RequestError(c, request, i) # 0
        /\ \A j \in Before(i) : RequestError(c, request, j) = 0
        /\ Become(TakeBack(Allocate(Bank, c, request, Before(i)), c, request, Before(i)))
        /\ answer' = RequestError(c, request, i)

RequestDecided(c, request) ==
    LET granted == Allocate(Bank, c, request, Resources) IN
    /\ \A i \in Resources : RequestError(c, request, i) = 0
    /\ IF is_safe(granted)
       THEN Become(granted) /\ answer' = 0
       ELSE Become(TakeBack(granted, c, request, Resources)) /\ answer' = -3

InvalidCustomer(c) ==
    /\ c \notin Customers
    /\ answer' = -1
    /\ UNCHANGED <<available, allocation, need>>

request_resources(c, request) ==
    /\ \/ InvalidCustomer(c)
       \/ c \in Customers /\ (RequestDenied(c, request) \/ RequestDecided(c, request))
    /\ UNCHANGED <<maximum, total, returned, spoils>>
-----------------------------------------------------------------------------
(* release_resources.  It does not give the customer its need back.        *)

ReleaseError(c, release, i) == release[i] < 0 \/ release[i] > allocation[c][i]

NotReturned(bank, c, release, S) ==
    [bank EXCEPT !.allocation[c] = Minus(@, release, S)]

Return(bank, c, release, S) ==
    [bank EXCEPT !.available  = Plus(@, release, S),
                 !.allocation[c] = Minus(@, release, S)]

(* The rollback from resource i: available is restored below i, allocation *)
(* below i - 1 only, and allocation[c][-1] is changed by release[-1].      *)
Undo(bank, c, release, i) ==
    [bank EXCEPT !.available  = Minus(@, release, Before(i)),
                 !.allocation[c] = Plus(@, release, Before(i - 1))]

(* allocation[c][-1] is the last cell of the row above; for customer 0 it  *)
(* is the last cell of the array that the linker put before allocation, or *)
(* belongs to nothing of the bank's.                                       *)
LastRow == NUMBER_OF_CUSTOMERS - 1
LastCell == NUMBER_OF_RESOURCES - 1

StrayWrite(bank, c, g) ==
    \/ /\ c > 0
       /\ Become([bank EXCEPT !.allocation[c - 1][LastCell] = @ + g])
       /\ UNCHANGED maximum
    \/ /\ c = 0 /\ "available" \in Neighbours
       /\ Become([bank EXCEPT !.available[LastCell] = @ + g])
       /\ UNCHANGED maximum
    \/ /\ c = 0 /\ "need" \in Neighbours
       /\ Become([bank EXCEPT !.need[LastRow][LastCell] = @ + g])
       /\ UNCHANGED maximum
    \/ /\ c = 0 /\ "maximum" \in Neighbours
       /\ Become(bank)
       /\ maximum' = [maximum EXCEPT ![LastRow][LastCell] = @ + g]
    \/ /\ c = 0 /\ "nothing" \in Neighbours
       /\ Become(bank)
       /\ UNCHANGED maximum

ReleaseDenied(c, release) ==
    \E i \in Resources :
        /\ ReleaseError(c, release, i)
        /\ \A j \in Before(i) : ~ReleaseError(c, release, j)
        /\ answer' = -1
        /\ UNCHANGED returned
        /\ LET undone == Undo(Return(Bank, c, release, Before(i)), c, release, i) IN
           IF i = 0
           THEN Become(undone) /\ UNCHANGED <<maximum, spoils>>
           ELSE /\ spoils' = spoils + 1
                /\ \E g \in Garbage : StrayWrite(undone, c, g)

ReleaseDone(c, release) ==
    /\ \A i \in Resources : ~ReleaseError(c, release, i)
    /\ Become(Return(Bank, c, release, Resources))
    /\ answer' = 0
    /\ returned' = [returned EXCEPT ![c] = Plus(@, release, Resources)]
    /\ UNCHANGED <<maximum, spoils>>

release_resources(c, release) ==
    /\ \/ InvalidCustomer(c) /\ UNCHANGED <<maximum, returned, spoils>>
       \/ c \in Customers /\ (ReleaseDenied(c, release) \/ ReleaseDone(c, release))
    /\ UNCHANGED total
-----------------------------------------------------------------------------
Init ==
    /\ available \in Supplies
    /\ maximum \in Demands
    /\ allocation = [c \in Customers |-> [r \in Resources |-> 0]]
    /\ need = maximum
    /\ answer = 0
    /\ total = available
    /\ returned = allocation
    /\ spoils = 0

(* The customer number is read from the input and may be out of range.     *)
Next ==
    /\ spoils < MaxSpoils
    /\ \E c \in -1 .. NUMBER_OF_CUSTOMERS, amounts \in [Resources -> Amounts] :
           request_resources(c, amounts) \/ release_resources(c, amounts)

Spec == Init /\ [][Next]_vars
-----------------------------------------------------------------------------
(* Properties.  Those that start with "spoils = 0" hold until a release is *)
(* undone wrongly for the first time.                                      *)

(* The amounts are whole numbers, and none is negative.                    *)
TypeOK ==
    /\ answer \in {0, -1, -2, -3}
    /\ total \in Supplies
    /\ spoils \in Nat
    /\ available \in [Resources -> Int]
    /\ {maximum, allocation, need, returned} \subseteq [Customers -> [Resources -> Int]]
    /\ spoils = 0 =>
           /\ available \in [Resources -> Nat]
           /\ maximum \in Demands
           /\ {allocation, need, returned} \subseteq [Customers -> [Resources -> Nat]]

(* f[0] + ... + f[N - 1].                                                 *)
SumTo(f, N) ==
    LET sum[n \in 0 .. N] == IF n = 0 THEN 0 ELSE sum[n - 1] + f[n - 1] IN sum[N]

(* How much of resource r the customers in S hold.                         *)
Allocated(bank, r, S) ==
    SumTo([c \in Customers |-> IF c \in S THEN bank.allocation[c][r] ELSE 0],
          NUMBER_OF_CUSTOMERS)

Conserved == \A r \in Resources : available[r] + Allocated(Bank, r, Customers) = total[r]

(* Whatever was requested, denied, rolled back and released, no unit of a  *)
(* resource is lost or made up, and each customer's claim is accounted for *)
(* to the unit: what it holds, may still ask for and has released.  need   *)
(* is the rest of the claim after all requests, so nothing released can be *)
(* claimed again.                                                          *)
AccountsBalance ==
    /\ TypeOK
    /\ spoils = 0 =>
           /\ Conserved
           /\ \A c \in Customers, r \in Resources :
                  allocation[c][r] + need[c][r] + returned[c][r] = maximum[c][r]

(* Banker's definition of a safe state: among any customers that are left  *)
(* there is one whose need is met by what the others leave available.      *)
Safe(bank) ==
    \A S \in (SUBSET Customers) \ {{}} : \E c \in S : \A r \in Resources :
        bank.need[c][r] <= bank.available[r] + Allocated(bank, r, Customers \ S)

(* README.md:7: requests are granted only if they leave the system in a    *)
(* safe state: neither a granted or denied request nor a release makes a   *)
(* safe state unsafe.                                                      *)
StaysSafe == [][spoils' = 0 => (Safe(Bank) => Safe(Bank)')]_vars

(* README.md:22: is_safe decides this by picking, round after round, the   *)
(* first customer it can serve.  For every request that is within need and *)
(* available resources this greedy choice finds the right answer.          *)
GreedyChoiceDecidesSafety ==
    \A c \in Customers, request \in [Resources -> Amounts] :
        (\A i \in Resources : RequestError(c, request, i) = 0) =>
            LET granted == Allocate(Bank, c, request, Resources)
            IN spoils = 0 => (is_safe(granted) <=> Safe(granted))

(* README.md:53: a command that fails is rolled back: no array changes.    *)
FailedCommandChangesNothing ==
    [][spoils' = 0 /\ answer' # 0 => UNCHANGED <<available, allocation, need>>]_vars

(* README.md:92: a release rolls back if any error occurs, so no failed    *)
(* release makes resources vanish or appear.                               *)
ResourcesConserved == Conserved
=============================================================================
