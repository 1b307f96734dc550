---------------------------- MODULE BankerProofs ----------------------------
(***************************************************************************)
(* Theorems about Banker, for any number of customers and resources, any   *)
(* supplies, demands and amounts.                                          *)
(*                                                                         *)
(* The sums over the customers and the rounds of is_safe are recursive     *)
(* functions; what they compute is shown by induction (InductionTo,        *)
(* RecursionTo of Counting).                                               *)
(***************************************************************************)
EXTENDS Banker, Counting

-----------------------------------------------------------------------------
(* Sums.                                                                   *)

(* The partial sums of f, the last of which is SumTo.                      *)
LEMMA SumSteps ==
    ASSUME NEW N \in Nat, NEW f \in [0 .. N - 1 -> Int]
    PROVE  \E s \in [0 .. N -> Int] :
               /\ s[0] = 0 /\ \A n \in 1 .. N : s[n] = s[n - 1] + f[n - 1]
               /\ SumTo(f, N) = s[N]
<1> DEFINE Eq(g) == g = [n \in 0 .. N |-> IF n = 0 THEN 0 ELSE g[n - 1] + f[n - 1]]
           H == [n \in 1 .. N |-> [x \in Int |-> x + f[n - 1]]]
           sum == CHOOSE g : Eq(g)
           zero == 0
<1>1. SumTo(f, N) = sum[N]
  BY DEF SumTo
<1>2. H \in [1 .. N -> [Int -> Int]]
  OBVIOUS
<1>3. PICK s \in [0 .. N -> Int] : Computes(s, zero, H, N)
  <2>1. zero \in Int
    OBVIOUS
  <2> HIDE DEF H, zero
  <2> QED BY <1>2, <2>1, RecursionTo
<1>4. s[0] = 0 /\ \A n \in 1 .. N : s[n] = s[n - 1] + f[n - 1]
  <2>1. \A n \in 1 .. N : s[n - 1] \in Int /\ H[n][s[n - 1]] = s[n - 1] + f[n - 1]
    OBVIOUS
  <2> HIDE DEF H
  <2> QED BY <1>3, <2>1 DEF Computes
<1>5. Eq(s)
  BY <1>3, <1>4
<1>6. Eq(sum)
  <2> HIDE DEF Eq
  <2> QED BY <1>5
<1>7. \A n \in 0 .. N : n \in {m \in 0 .. N : sum[m] = s[m]}
  <2> HIDE DEF sum
  <2>1. sum[0] = 0 /\ \A n \in 1 .. N : sum[n] = sum[n - 1] + f[n - 1]
    BY <1>6
  <2> DEFINE S == {m \in 0 .. N : sum[m] = s[m]}
  <2>2. 0 \in S /\ \A n \in 1 .. N : n - 1 \in S => n \in S
    BY <1>3, <1>4, <2>1
  <2> HIDE DEF S
  <2>3. \A n \in 0 .. N : n \in S
    BY <2>2, InductionTo
  <2> QED BY <2>3 DEF S
<1>8. N \in 0 .. N
  OBVIOUS
<1> HIDE DEF sum
<1> QED BY <1>1, <1>4, <1>7, <1>8

(* A sum in which one term changes changes by as much.                     *)
LEMMA SumChange ==
    ASSUME NEW N \in Nat, NEW f \in [0 .. N - 1 -> Int], NEW g \in [0 .. N - 1 -> Int],
           NEW c \in 0 .. N - 1, \A i \in 0 .. N - 1 : i # c => g[i] = f[i]
    PROVE  SumTo(g, N) = SumTo(f, N) + g[c] - f[c]
<1>1. PICK s \in [0 .. N -> Int] :
          /\ s[0] = 0 /\ \A n \in 1 .. N : s[n] = s[n - 1] + f[n - 1]
          /\ SumTo(f, N) = s[N]
  BY SumSteps
<1>2. PICK t \in [0 .. N -> Int] :
          /\ t[0] = 0 /\ \A n \in 1 .. N : t[n] = t[n - 1] + g[n - 1]
          /\ SumTo(g, N) = t[N]
  BY SumSteps
<1> DEFINE S == {n \in 0 .. N : t[n] = s[n] + (IF n > c THEN g[c] - f[c] ELSE 0)}
<1>3. 0 \in S
  BY <1>1, <1>2
<1>4. \A n \in 1 .. N : n - 1 \in S => n \in S
  <2> SUFFICES ASSUME NEW n \in 1 .. N, n - 1 \in S PROVE n \in S
    OBVIOUS
  <2>1. /\ s[n] = s[n - 1] + f[n - 1] /\ t[n] = t[n - 1] + g[n - 1]
        /\ t[n - 1] = s[n - 1] + (IF n - 1 > c THEN g[c] - f[c] ELSE 0)
    BY <1>1, <1>2
  <2>2. /\ n - 1 \in 0 .. N - 1 /\ s[n - 1] \in Int /\ t[n - 1] \in Int
        /\ f[n - 1] \in Int /\ g[n - 1] \in Int /\ f[c] \in Int /\ g[c] \in Int
        /\ (n - 1 # c => g[n - 1] = f[n - 1])
    OBVIOUS
  <2>3. t[n] = s[n] + (IF n > c THEN g[c] - f[c] ELSE 0)
    <3>1. CASE n - 1 > c
      BY SMTT(30), <2>1, <2>2, <3>1
    <3>2. CASE n - 1 = c
      BY SMTT(30), <2>1, <2>2, <3>2
    <3>3. CASE n - 1 < c
      BY SMTT(30), <2>1, <2>2, <3>3
    <3> QED BY <3>1, <3>2, <3>3
  <2> QED BY <2>3
<1> HIDE DEF S
<1>5. \A n \in 0 .. N : n \in S
  BY <1>3, <1>4, InductionTo
<1>6. N \in S /\ N > c /\ s[N] \in Int /\ f[c] \in Int /\ g[c] \in Int
  BY <1>5
<1> QED BY <1>1, <1>2, <1>6 DEF S

(* A sum of larger terms is larger.                                        *)
LEMMA SumMonotone ==
    ASSUME NEW N \in Nat, NEW f \in [0 .. N - 1 -> Int], NEW g \in [0 .. N - 1 -> Int],
           \A i \in 0 .. N - 1 : f[i] <= g[i]
    PROVE  /\ SumTo(f, N) \in Int /\ SumTo(g, N) \in Int
           /\ SumTo(f, N) <= SumTo(g, N)
<1>1. PICK s \in [0 .. N -> Int] :
          /\ s[0] = 0 /\ \A n \in 1 .. N : s[n] = s[n - 1] + f[n - 1]
          /\ SumTo(f, N) = s[N]
  BY SumSteps
<1>2. PICK t \in [0 .. N -> Int] :
          /\ t[0] = 0 /\ \A n \in 1 .. N : t[n] = t[n - 1] + g[n - 1]
          /\ SumTo(g, N) = t[N]
  BY SumSteps
<1> DEFINE S == {n \in 0 .. N : s[n] <= t[n]}
<1>3. 0 \in S
  BY <1>1, <1>2
<1>4. \A n \in 1 .. N : n - 1 \in S => n \in S
  <2> SUFFICES ASSUME NEW n \in 1 .. N, n - 1 \in S PROVE n \in S
    OBVIOUS
  <2>1. /\ s[n] = s[n - 1] + f[n - 1] /\ t[n] = t[n - 1] + g[n - 1] /\ s[n - 1] <= t[n - 1]
    BY <1>1, <1>2
  <2>2. /\ n - 1 \in 0 .. N - 1 /\ s[n - 1] \in Int /\ t[n - 1] \in Int
        /\ f[n - 1] \in Int /\ g[n - 1] \in Int /\ f[n - 1] <= g[n - 1]
    OBVIOUS
  <2> QED BY <2>1, <2>2
<1> HIDE DEF S
<1>5. \A n \in 0 .. N : n \in S
  BY <1>3, <1>4, InductionTo
<1>6. N \in S /\ s[N] \in Int /\ t[N] \in Int
  BY <1>5
<1> QED BY <1>1, <1>2, <1>6 DEF S
-----------------------------------------------------------------------------
(* What customers hold.                                                    *)

Vectors == [Resources -> Int]

(* The arrays hold numbers, and nobody holds less than nothing.            *)
IsBank(bank) ==
    bank \in [available : Vectors, allocation : [Customers -> Vectors],
              need : [Customers -> Vectors]]

Owns(bank) == \A c \in Customers, r \in Resources : bank.allocation[c][r] >= 0

Term(bank, r, S) == [c \in Customers |-> IF c \in S THEN bank.allocation[c][r] ELSE 0]

LEMMA TermType ==
    ASSUME BankerAssumption, NEW bank, IsBank(bank), NEW r \in Resources, NEW S
    PROVE  /\ Term(bank, r, S) \in [0 .. NUMBER_OF_CUSTOMERS - 1 -> Int]
           /\ NUMBER_OF_CUSTOMERS \in Nat
           /\ Allocated(bank, r, S) = SumTo(Term(bank, r, S), NUMBER_OF_CUSTOMERS)
<1>1. \A c \in Customers : bank.allocation[c][r] \in Int
  BY DEF IsBank, Vectors
<1>2. Term(bank, r, S) \in [Customers -> Int]
  BY <1>1 DEF Term
<1>3. Allocated(bank, r, S) = SumTo(Term(bank, r, S), NUMBER_OF_CUSTOMERS)
  BY DEF Allocated, Term
<1> QED BY <1>2, <1>3, BankerAssumption DEF Customers

LEMMA AllocatedType ==
    ASSUME BankerAssumption, NEW bank, IsBank(bank), NEW r \in Resources, NEW S
    PROVE  Allocated(bank, r, S) \in Int
<1> DEFINE f == Term(bank, r, S)
           N == NUMBER_OF_CUSTOMERS
<1>1. f \in [0 .. N - 1 -> Int] /\ N \in Nat /\ Allocated(bank, r, S) = SumTo(f, N)
  BY TermType
<1> HIDE DEF f, N
<1>2. \A i \in 0 .. N - 1 : f[i] <= f[i]
  BY <1>1
<1> QED BY <1>1, <1>2, SumMonotone

(* One more customer.                                                      *)
LEMMA AllocatedAdd ==
    ASSUME BankerAssumption, NEW bank, IsBank(bank), NEW r \in Resources,
           NEW S, NEW c \in Customers, c \notin S
    PROVE  /\ Allocated(bank, r, S) \in Int
           /\ Allocated(bank, r, S \cup {c}) = Allocated(bank, r, S) + bank.allocation[c][r]
<1> DEFINE f == Term(bank, r, S)
           g == Term(bank, r, S \cup {c})
           N == NUMBER_OF_CUSTOMERS
<1>1. /\ f \in [0 .. N - 1 -> Int] /\ g \in [0 .. N - 1 -> Int] /\ N \in Nat
      /\ Allocated(bank, r, S) = SumTo(f, N)
      /\ Allocated(bank, r, S \cup {c}) = SumTo(g, N)
  BY TermType
<1>2. c \in 0 .. N - 1 /\ f[c] = 0 /\ g[c] = bank.allocation[c][r]
  BY DEF Customers, Term
<1>3. \A i \in 0 .. N - 1 : i # c => g[i] = f[i]
  BY DEF Customers, Term
<1>4. bank.allocation[c][r] \in Int
  BY DEF IsBank, Vectors
<1> HIDE DEF f, g, N
<1>5. SumTo(g, N) = SumTo(f, N) + g[c] - f[c]
  <2>1. /\ c \in 0 .. N - 1 /\ N \in Nat
        /\ f \in [0 .. N - 1 -> Int] /\ g \in [0 .. N - 1 -> Int]
    BY <1>1, <1>2
  <2> QED BY ONLY <1>3, <2>1, SumChange, ZenonT(60)
<1>6. SumTo(f, N) \in Int
  <2>1. \A i \in 0 .. N - 1 : f[i] <= f[i]
    BY <1>1
  <2> QED BY <1>1, <2>1, SumMonotone
<1> QED BY <1>1, <1>2, <1>4, <1>5, <1>6

(* More customers hold more.                                               *)
LEMMA AllocatedMonotone ==
    ASSUME BankerAssumption, NEW bank, IsBank(bank), Owns(bank), NEW r \in Resources,
           NEW S, NEW T, S \subseteq T
    PROVE  Allocated(bank, r, S) <= Allocated(bank, r, T)
<1> DEFINE f == Term(bank, r, S)
           g == Term(bank, r, T)
           N == NUMBER_OF_CUSTOMERS
<1>1. /\ f \in [0 .. N - 1 -> Int] /\ g \in [0 .. N - 1 -> Int] /\ N \in Nat
      /\ Allocated(bank, r, S) = SumTo(f, N)
      /\ Allocated(bank, r, T) = SumTo(g, N)
  BY TermType
<1>2. \A i \in 0 .. N - 1 : f[i] <= g[i]
  <2>1. \A i \in Customers : bank.allocation[i][r] \in Int /\ bank.allocation[i][r] >= 0
    BY DEF IsBank, Vectors, Owns
  <2> QED BY <2>1 DEF Customers, Term
<1> HIDE DEF f, g, N
<1> QED BY <1>1, <1>2, SumMonotone

(* When only what c holds of r changes, the sum changes by as much.        *)
LEMMA AllocatedChange ==
    ASSUME BankerAssumption, NEW bank, IsBank(bank), NEW new, IsBank(new),
           NEW r \in Resources, NEW c \in Customers, NEW S,
           \A i \in Customers : i # c => new.allocation[i][r] = bank.allocation[i][r]
    PROVE  /\ Allocated(bank, r, S) \in Int
           /\ Allocated(new, r, S) = Allocated(bank, r, S)
                  + (IF c \in S THEN new.allocation[c][r] - bank.allocation[c][r] ELSE 0)
<1> DEFINE f == Term(bank, r, S)
           g == Term(new, r, S)
           N == NUMBER_OF_CUSTOMERS
<1>1. /\ f \in [0 .. N - 1 -> Int] /\ g \in [0 .. N - 1 -> Int] /\ N \in Nat
      /\ Allocated(bank, r, S) = SumTo(f, N)
      /\ Allocated(new, r, S) = SumTo(g, N)
  BY TermType
<1>2. /\ c \in 0 .. N - 1
      /\ f[c] = IF c \in S THEN bank.allocation[c][r] ELSE 0
      /\ g[c] = IF c \in S THEN new.allocation[c][r] ELSE 0
  BY DEF Customers, Term
<1>3. \A i \in 0 .. N - 1 : i # c => g[i] = f[i]
  BY DEF Customers, Term
<1>4. bank.allocation[c][r] \in Int /\ new.allocation[c][r] \in Int
  BY DEF IsBank, Vectors
<1> HIDE DEF f, g, N
<1>5. SumTo(g, N) = SumTo(f, N) + g[c] - f[c]
  <2>1. /\ c \in 0 .. N - 1 /\ N \in Nat
        /\ f \in [0 .. N - 1 -> Int] /\ g \in [0 .. N - 1 -> Int]
    BY <1>1, <1>2
  <2> QED BY ONLY <1>3, <2>1, SumChange, ZenonT(60)
<1>6. SumTo(f, N) \in Int
  <2>1. \A i \in 0 .. N - 1 : f[i] <= f[i]
    BY <1>1
  <2> QED BY <1>1, <2>1, SumMonotone
<1> QED BY <1>1, <1>2, <1>4, <1>5, <1>6

(* Nobody holds nothing.                                                   *)
LEMMA AllocatedNobody ==
    ASSUME BankerAssumption, NEW bank, IsBank(bank), NEW r \in Resources
    PROVE  Allocated(bank, r, {}) = 0
<1> DEFINE f == Term(bank, r, {})
           N == NUMBER_OF_CUSTOMERS
<1>1. f \in [0 .. N - 1 -> Int] /\ N \in Nat /\ Allocated(bank, r, {}) = SumTo(f, N)
  BY TermType
<1>2. \A i \in 0 .. N - 1 : f[i] = 0
  BY DEF Customers, Term
<1> HIDE DEF f, N
<1>3. PICK s \in [0 .. N -> Int] :
          /\ s[0] = 0 /\ \A n \in 1 .. N : s[n] = s[n - 1] + f[n - 1]
          /\ SumTo(f, N) = s[N]
  BY <1>1, SumSteps
<1> DEFINE S == {n \in 0 .. N : s[n] = 0}
<1>4. 0 \in S
  BY <1>1, <1>3
<1>5. \A n \in 1 .. N : n - 1 \in S => n \in S
  <2> SUFFICES ASSUME NEW n \in 1 .. N, n - 1 \in S PROVE n \in S
    OBVIOUS
  <2>1. s[n] = s[n - 1] + f[n - 1] /\ s[n - 1] = 0 /\ f[n - 1] = 0
    BY <1>1, <1>2, <1>3
  <2>2. s[n] = 0 /\ n \in 0 .. N
    BY <1>1, <2>1
  <2> QED BY <2>2
<1> HIDE DEF S
<1>6. \A n \in 0 .. N : n \in S
  BY <1>1, <1>4, <1>5, InductionTo
<1>7. N \in S
  BY <1>1, <1>6
<1> QED BY <1>1, <1>3, <1>7 DEF S
-----------------------------------------------------------------------------
(* The rounds of is_safe.                                                  *)

States == [work : Vectors, finish : SUBSET Customers]

Start(bank) == [work |-> bank.available, finish |-> {}]

Serve(bank, x) ==
    LET ready == Ready(bank, x.work, x.finish)
    IN IF ready = {} THEN x
       ELSE [work   |-> Plus(x.work, bank.allocation[Min(ready)], Resources),
             finish |-> x.finish \cup {Min(ready)}]

LEMMA FirstReady ==
    ASSUME NEW bank, NEW x, Ready(bank, x.work, x.finish) # {}
    PROVE  Min(Ready(bank, x.work, x.finish)) \in Ready(bank, x.work, x.finish)
<1> DEFINE ready == Ready(bank, x.work, x.finish)
<1>1. ready \subseteq Nat
  BY DEF Ready, Customers
<1> HIDE DEF ready
<1>2. \E i \in ready : \A j \in ready : i <= j
  BY <1>1, LeastNat DEF ready
<1> QED BY <1>2 DEF ready, Min

LEMMA ServeType ==
    ASSUME NEW bank, IsBank(bank), NEW x \in States
    PROVE  Serve(bank, x) \in States
<1> DEFINE ready == Ready(bank, x.work, x.finish)
<1>1. CASE ready = {}
  BY <1>1 DEF Serve
<1>2. CASE ready # {}
  <2>1. Min(ready) \in Customers
    BY <1>2, FirstReady DEF Ready
  <2>2. bank.allocation[Min(ready)] \in Vectors /\ x.work \in Vectors
    BY <2>1 DEF IsBank, States
  <2>3. Plus(x.work, bank.allocation[Min(ready)], Resources) \in Vectors
    <3> HIDE DEF ready
    <3> QED BY <2>2 DEF Plus, Vectors
  <2>4. x.finish \cup {Min(ready)} \in SUBSET Customers
    BY <2>1 DEF States
  <2>5. Serve(bank, x) = [work   |-> Plus(x.work, bank.allocation[Min(ready)], Resources),
                          finish |-> x.finish \cup {Min(ready)}]
    BY <1>2 DEF Serve
  <2> HIDE DEF ready
  <2> QED BY <2>3, <2>4, <2>5 DEF States
<1> QED BY <1>1, <1>2

(* What is_safe computes.                                                  *)
LEMMA Rounds ==
    ASSUME BankerAssumption, NEW bank, IsBank(bank)
    PROVE  \E x \in [0 .. NUMBER_OF_CUSTOMERS -> States] :
               /\ x[0] = Start(bank)
               /\ \A n \in 1 .. NUMBER_OF_CUSTOMERS : x[n] = Serve(bank, x[n - 1])
               /\ is_safe(bank) <=> x[NUMBER_OF_CUSTOMERS].finish = Customers
<1> DEFINE N == NUMBER_OF_CUSTOMERS
           Eq(g) == g = [n \in 0 .. N |-> IF n = 0 THEN Start(bank) ELSE Serve(bank, g[n - 1])]
           H == [n \in 1 .. N |-> [x \in States |-> Serve(bank, x)]]
           round == CHOOSE g : Eq(g)
<1>1. is_safe(bank) <=> round[N].finish = Customers
  BY DEF is_safe, Start, Serve
<1>2. N \in Nat /\ Start(bank) \in States
  BY BankerAssumption DEF Start, States, IsBank
<1> HIDE DEF N
<1>3. H \in [1 .. N -> [States -> States]]
  BY ServeType
<1>4. PICK x \in [0 .. N -> States] : Computes(x, Start(bank), H, N)
  <2> HIDE DEF H
  <2> QED BY <1>2, <1>3, RecursionTo
<1>5. x[0] = Start(bank) /\ \A n \in 1 .. N : x[n] = Serve(bank, x[n - 1])
  <2>1. \A n \in 1 .. N : x[n - 1] \in States /\ H[n][x[n - 1]] = Serve(bank, x[n - 1])
    BY <1>2
  <2> HIDE DEF H
  <2> QED BY <1>4, <2>1 DEF Computes
<1>6. Eq(x)
  BY <1>2, <1>5
<1>7. Eq(round)
  <2> HIDE DEF Eq
  <2> QED BY <1>6
<1> HIDE DEF round
<1>8. round[0] = Start(bank) /\ \A n \in 1 .. N : round[n] = Serve(bank, round[n - 1])
  BY <1>2, <1>7
<1> DEFINE S == {n \in 0 .. N : round[n] = x[n]}
<1>9. 0 \in S
  BY <1>2, <1>5, <1>8
<1>10. \A n \in 1 .. N : n - 1 \in S => n \in S
  BY <1>2, <1>5, <1>8
<1> HIDE DEF S
<1>11. \A n \in 0 .. N : n \in S
  BY <1>2, <1>9, <1>10, InductionTo
<1>12. round[N] = x[N]
  BY <1>2, <1>11 DEF S
<1> QED BY <1>1, <1>5, <1>12 DEF N

(* A round serves one more customer or finds none ready.                   *)
LEMMA ServeOne ==
    ASSUME BankerAssumption, NEW bank, IsBank(bank), NEW x \in States,
           Ready(bank, x.work, x.finish) # {}
    PROVE  \E c \in Customers \ x.finish :
               /\ \A r \in Resources : bank.need[c][r] <= x.work[r]
               /\ Serve(bank, x).finish = x.finish \cup {c}
               /\ \A r \in Resources :
                      Serve(bank, x).work[r] = x.work[r] + bank.allocation[c][r]
<1> DEFINE ready == Ready(bank, x.work, x.finish)
           c == Min(ready)
<1>1. c \in ready
  BY FirstReady
<1>2. c \in Customers \ x.finish /\ \A r \in Resources : bank.need[c][r] <= x.work[r]
  BY <1>1 DEF Ready, is_leq
<1>3. Serve(bank, x) = [work   |-> Plus(x.work, bank.allocation[c], Resources),
                        finish |-> x.finish \cup {c}]
  BY DEF Serve
<1> HIDE DEF ready, c
<1>4. \A r \in Resources : Plus(x.work, bank.allocation[c], Resources)[r] = x.work[r] + bank.allocation[c][r]
  BY DEF Plus
<1> QED BY <1>2, <1>3, <1>4

(* The balance that each round keeps: what is at hand is what was          *)
(* available and what the customers that are finished held.                *)
LEMMA ServeBalance ==
    ASSUME BankerAssumption, NEW bank, IsBank(bank), NEW x \in States,
           \A r \in Resources : x.work[r] = bank.available[r] + Allocated(bank, r, x.finish)
    PROVE  \A r \in Resources :
               Serve(bank, x).work[r] = bank.available[r] + Allocated(bank, r, Serve(bank, x).finish)
<1>1. CASE Ready(bank, x.work, x.finish) = {}
  <2>1. Serve(bank, x) = x
    BY <1>1 DEF Serve
  <2> QED BY <2>1
<1>2. CASE Ready(bank, x.work, x.finish) # {}
  <2>1. PICK c \in Customers \ x.finish :
            /\ Serve(bank, x).finish = x.finish \cup {c}
            /\ \A r \in Resources :
                   Serve(bank, x).work[r] = x.work[r] + bank.allocation[c][r]
    BY <1>2, ServeOne
  <2> SUFFICES ASSUME NEW r \in Resources
               PROVE  Serve(bank, x).work[r]
                          = bank.available[r] + Allocated(bank, r, Serve(bank, x).finish)
    OBVIOUS
  <2> DEFINE F == x.finish
  <2>2. /\ Allocated(bank, r, F) \in Int
        /\ Allocated(bank, r, F \cup {c}) = Allocated(bank, r, F) + bank.allocation[c][r]
    <3>1. c \in Customers /\ c \notin F
      BY <2>1
    <3> HIDE DEF F
    <3> QED BY ONLY BankerAssumption, IsBank(bank), r \in Resources, <3>1, AllocatedAdd, ZenonT(60)
  <2>3. bank.available[r] \in Int /\ bank.allocation[c][r] \in Int
    BY DEF IsBank, Vectors
  <2> QED BY <2>1, <2>2, <2>3
<1> QED BY <1>1, <1>2

(* If every set of customers has one that can be served, n rounds serve n  *)
(* customers.  If the rounds serve them all, then of any set of customers  *)
(* the first one to be served could be served when all others have been.   *)
THEOREM GreedyChoiceIsRight ==
    ASSUME BankerAssumption, NEW bank, IsBank(bank), Owns(bank)
    PROVE  is_safe(bank) <=> Safe(bank)
<1> DEFINE N == NUMBER_OF_CUSTOMERS
<1>1. PICK x \in [0 .. N -> States] :
          /\ x[0] = Start(bank)
          /\ \A n \in 1 .. N : x[n] = Serve(bank, x[n - 1])
          /\ is_safe(bank) <=> x[N].finish = Customers
  BY Rounds
<1>2. N \in Nat /\ Customers = 0 .. N - 1
  BY BankerAssumption DEF Customers
<1> HIDE DEF N
<1>6. IsFiniteSet(Customers) /\ Cardinality(Customers) = N
  BY <1>2, FS_Interval
<1> DEFINE Balanced == {n \in 0 .. N : \A r \in Resources :
                            x[n].work[r] = bank.available[r] + Allocated(bank, r, x[n].finish)}
<1>3. \A n \in 0 .. N : n \in Balanced
  <2>1. 0 \in Balanced
    <3>1. \A r \in Resources : Allocated(bank, r, {}) = 0
      BY AllocatedNobody
    <3>2. \A r \in Resources : bank.available[r] \in Int
      BY DEF IsBank, Vectors
    <3>3. x[0].work = bank.available /\ x[0].finish = {}
      BY <1>1 DEF Start
    <3>4. \A r \in Resources : x[0].work[r] = bank.available[r] + Allocated(bank, r, x[0].finish)
      BY <3>1, <3>2, <3>3
    <3>5. 0 \in 0 .. N
      BY <1>2
    <3> QED BY <3>4, <3>5
  <2>2. \A n \in 1 .. N : n - 1 \in Balanced => n \in Balanced
    <3> SUFFICES ASSUME NEW n \in 1 .. N, n - 1 \in Balanced PROVE n \in Balanced
      OBVIOUS
    <3> DEFINE y == x[n - 1]
    <3>1. \A r \in Resources : y.work[r] = bank.available[r] + Allocated(bank, r, y.finish)
      OBVIOUS
    <3> HIDE DEF Balanced
    <3>2. x[n] = Serve(bank, y) /\ y \in States /\ n \in 0 .. N
      BY <1>1, <1>2
    <3> HIDE DEF y
    <3> QED BY <3>1, <3>2, ServeBalance DEF Balanced
  <2> HIDE DEF Balanced
  <2> QED BY <1>2, <2>1, <2>2, InductionTo
<1>4. ASSUME Safe(bank)
      PROVE  is_safe(bank)
  <2> DEFINE Served == {n \in 0 .. N : \/ x[n].finish = Customers
                                       \/ Cardinality(x[n].finish) = n}
  <2>1. 0 \in Served
    BY <1>1, <1>2, FS_EmptySet DEF Start
  <2>2. \A n \in 1 .. N : n - 1 \in Served => n \in Served
    <3> SUFFICES ASSUME NEW n \in 1 .. N, n - 1 \in Served PROVE n \in Served
      OBVIOUS
    <3> DEFINE y == x[n - 1]
    <3>0. y.finish = Customers \/ Cardinality(y.finish) = n - 1
      OBVIOUS
    <3> HIDE DEF Served, Balanced
    <3>1. /\ x[n] = Serve(bank, y) /\ y \in States /\ n \in 0 .. N /\ n - 1 \in 0 .. N
      BY <1>1, <1>2
    <3>4. \A r \in Resources : y.work[r] = bank.available[r] + Allocated(bank, r, y.finish)
      BY <1>3, <3>1 DEF Balanced
    <3> HIDE DEF y
    <3>2. CASE y.finish = Customers
      <4>1. Ready(bank, y.work, y.finish) = {}
        BY <3>2 DEF Ready
      <4>2. x[n] = y
        BY <3>1, <4>1 DEF Serve
      <4> QED BY <3>1, <3>2, <4>2 DEF Served
    <3>3. CASE y.finish # Customers
      <4>1. y.finish \in SUBSET Customers
        BY <3>1 DEF States
      <4>3. Customers \ y.finish \in (SUBSET Customers) \ {{}} /\ Customers \ (Customers \ y.finish) = y.finish
        BY <3>3, <4>1
      <4>2. PICK c \in Customers \ y.finish : \A r \in Resources :
                bank.need[c][r] <= bank.available[r] + Allocated(bank, r, y.finish)
        BY <1>4, <4>3 DEF Safe
      <4>4. c \in Ready(bank, y.work, y.finish)
        BY <3>4, <4>2 DEF Ready, is_leq
      <4>5. PICK d \in Customers \ y.finish : Serve(bank, y).finish = y.finish \cup {d}
        BY <3>1, <4>4, ServeOne
      <4>6. IsFiniteSet(y.finish)
        BY <1>6, <4>1, FS_Subset
      <4>7. Cardinality(y.finish \cup {d}) = Cardinality(y.finish) + 1
        BY <4>5, <4>6, FS_AddElement
      <4>8. Cardinality(y.finish) = n - 1 /\ n \in Int
        BY <3>0, <3>3
      <4>9. Cardinality(x[n].finish) = n
        BY <3>1, <4>5, <4>7, <4>8
      <4> QED BY <3>1, <4>9 DEF Served
    <3> QED BY <3>2, <3>3
  <2> HIDE DEF Served
  <2>3. \A n \in 0 .. N : n \in Served
    BY <1>2, <2>1, <2>2, InductionTo
  <2>4. N \in Served /\ x[N].finish \in SUBSET Customers
    BY <1>2, <2>3 DEF States
  <2>6. x[N].finish = Customers
    BY <1>6, <2>4, FS_Subset DEF Served
  <2> QED BY <1>1, <2>6
<1>5. ASSUME is_safe(bank)
      PROVE  Safe(bank)
  <2> SUFFICES ASSUME NEW S \in (SUBSET Customers) \ {{}}
               PROVE  \E c \in S : \A r \in Resources :
                          bank.need[c][r] <= bank.available[r] + Allocated(bank, r, Customers \ S)
    BY DEF Safe
  <2> DEFINE Meets == {n \in 0 .. N : x[n].finish \cap S # {}}
  <2>1. Meets # {} /\ Meets \subseteq Nat
    <3>1. x[N].finish = Customers /\ Customers \cap S # {} /\ N \in 0 .. N
      BY <1>1, <1>2, <1>5
    <3> QED BY <3>1
  <2> HIDE DEF Meets
  <2>2. PICK n \in Meets : \A m \in Meets : n <= m
    BY <2>1, LeastNat
  <2>3. n \in 1 .. N
    BY <1>1, <1>2, <2>2 DEF Meets, Start
  <2> DEFINE y == x[n - 1]
  <2>4. x[n] = Serve(bank, y) /\ y \in States /\ n - 1 \in 0 .. N
    BY <1>1, <1>2, <2>3
  <2>5. n - 1 \notin Meets
    BY <2>2, <2>3
  <2>6. y.finish \cap S = {}
    BY <2>4, <2>5 DEF Meets
  <2>7. x[n].finish \cap S # {}
    BY <2>2 DEF Meets
  <2>8. Ready(bank, y.work, y.finish) # {}
    BY <2>4, <2>6, <2>7 DEF Serve
  <2> HIDE DEF y
  <2>9. PICK c \in Customers \ y.finish :
            /\ \A r \in Resources : bank.need[c][r] <= y.work[r]
            /\ Serve(bank, y).finish = y.finish \cup {c}
    BY <2>4, <2>8, ServeOne
  <2>10. c \in S
    BY <2>4, <2>6, <2>7, <2>9
  <2>11. y.finish \subseteq Customers \ S
    BY <2>4, <2>6 DEF States
  <2>12. ASSUME NEW r \in Resources
         PROVE  bank.need[c][r] <= bank.available[r] + Allocated(bank, r, Customers \ S)
    <3>1. y.work[r] = bank.available[r] + Allocated(bank, r, y.finish)
      BY <1>3, <2>4 DEF Balanced, y
    <3>2. Allocated(bank, r, y.finish) <= Allocated(bank, r, Customers \ S)
      BY <2>11, AllocatedMonotone
    <3>3. /\ Allocated(bank, r, y.finish) \in Int /\ Allocated(bank, r, Customers \ S) \in Int
          /\ bank.available[r] \in Int /\ bank.need[c][r] \in Int /\ y.work[r] \in Int
      <4>1. Allocated(bank, r, y.finish) \in Int /\ Allocated(bank, r, Customers \ S) \in Int
        BY AllocatedType
      <4>2. bank.available[r] \in Int /\ bank.need[c][r] \in Int /\ y.work[r] \in Int
        BY <2>4 DEF IsBank, Vectors, States
      <4> QED BY <4>1, <4>2
    <3> QED BY <2>9, <3>1, <3>2, <3>3
  <2> QED BY <2>10, <2>12
<1> QED BY <1>4, <1>5
-----------------------------------------------------------------------------
(* The commands.                                                           *)

Requests == [Resources -> Amounts]

LEMMA VectorType ==
    ASSUME NEW v \in Vectors, NEW a \in Vectors, NEW S
    PROVE  Plus(v, a, S) \in Vectors /\ Minus(v, a, S) \in Vectors
  BY DEF Vectors, Plus, Minus

(* What is added to some resources can be taken off again.                 *)
LEMMA VectorBack ==
    ASSUME NEW v \in Vectors, NEW a \in Vectors, NEW S
    PROVE  Plus(Minus(v, a, S), a, S) = v /\ Minus(Plus(v, a, S), a, S) = v
  BY DEF Vectors, Plus, Minus

LEMMA RequestVector ==
    ASSUME BankerAssumption, NEW request \in Requests
    PROVE  request \in Vectors
  BY DEF BankerAssumption, Requests, Vectors

LEMMA BankTypes ==
    ASSUME BankerAssumption, NEW bank, IsBank(bank), NEW c \in Customers,
           NEW request \in Vectors, NEW S
    PROVE  /\ IsBank(Allocate(bank, c, request, S))
           /\ IsBank(TakeBack(bank, c, request, S))
  BY VectorType DEF IsBank, Allocate, TakeBack

(* The rollback of a request restores all three arrays.                    *)
LEMMA TakeBackRestores ==
    ASSUME BankerAssumption, NEW bank, IsBank(bank), NEW c \in Customers,
           NEW request \in Vectors, NEW S
    PROVE  LET back == TakeBack(Allocate(bank, c, request, S), c, request, S)
           IN /\ back.available = bank.available
              /\ back.allocation = bank.allocation
              /\ back.need = bank.need
<1> DEFINE new == Allocate(bank, c, request, S)
           back == TakeBack(new, c, request, S)
<1>1. /\ new.available = Minus(bank.available, request, S)
      /\ new.allocation = [bank.allocation EXCEPT ![c] = Plus(bank.allocation[c], request, S)]
      /\ new.need = [bank.need EXCEPT ![c] = Minus(bank.need[c], request, S)]
  BY DEF Allocate
<1>2. /\ back.available = Plus(new.available, request, S)
      /\ back.allocation = [new.allocation EXCEPT ![c] = Minus(new.allocation[c], request, S)]
      /\ back.need = [new.need EXCEPT ![c] = Plus(new.need[c], request, S)]
  BY DEF TakeBack
<1>3. /\ bank.available \in Vectors
      /\ bank.allocation \in [Customers -> Vectors] /\ bank.allocation[c] \in Vectors
      /\ bank.need \in [Customers -> Vectors] /\ bank.need[c] \in Vectors
  BY DEF IsBank
<1>4. /\ Plus(Minus(bank.available, request, S), request, S) = bank.available
      /\ Minus(Plus(bank.allocation[c], request, S), request, S) = bank.allocation[c]
      /\ Plus(Minus(bank.need[c], request, S), request, S) = bank.need[c]
  BY <1>3, VectorBack
<1> HIDE DEF new, back
<1>5. back.available = bank.available
  BY <1>1, <1>2, <1>4
<1>6. back.allocation = bank.allocation
  BY <1>1, <1>2, <1>3, <1>4
<1>7. back.need = bank.need
  BY <1>1, <1>2, <1>3, <1>4
<1> QED BY <1>5, <1>6, <1>7 DEF back, new

(* An array of the program is the field of Bank with its name.             *)
LEMMA BankIs ==
    /\ Bank.available = available /\ Bank.allocation = allocation /\ Bank.need = need
    /\ (TypeOK => IsBank(Bank))
  BY DEF Bank, IsBank, TypeOK, Vectors

Unchanged == UNCHANGED <<available, allocation, need, maximum>>

Granted(c, request) ==
    /\ c \in Customers /\ \A i \in Resources : RequestError(c, request, i) = 0
    /\ is_safe(Allocate(Bank, c, request, Resources))
    /\ Become(Allocate(Bank, c, request, Resources)) /\ maximum' = maximum /\ answer' = 0

Released(c, release) ==
    /\ c \in Customers /\ \A i \in Resources : ~ReleaseError(c, release, i)
    /\ Become(Return(Bank, c, release, Resources)) /\ maximum' = maximum /\ answer' = 0
    /\ returned' = [returned EXCEPT ![c] = Plus(@, release, Resources)]

(* A request is granted, or it changes nothing.                            *)
LEMMA RequestKinds ==
    ASSUME BankerAssumption, TypeOK, NEW c, NEW request \in Requests,
           request_resources(c, request)
    PROVE  /\ total' = total /\ returned' = returned /\ spoils' = spoils
           /\ \/ Granted(c, request)
              \/ Unchanged /\ answer' \in {-1, -2, -3}
<1>1. total' = total /\ returned' = returned /\ spoils' = spoils /\ maximum' = maximum
  BY DEF request_resources
<1>2. request \in Vectors /\ IsBank(Bank)
  BY RequestVector, BankIs
<1>3. CASE InvalidCustomer(c)
  BY <1>1, <1>3 DEF InvalidCustomer, Unchanged
<1>4. ASSUME c \in Customers, NEW S,
             Become(TakeBack(Allocate(Bank, c, request, S), c, request, S))
      PROVE  Unchanged
  <2> DEFINE back == TakeBack(Allocate(Bank, c, request, S), c, request, S)
  <2>1. back.available = available /\ back.allocation = allocation /\ back.need = need
    BY <1>2, <1>4, TakeBackRestores, BankIs
  <2>2. Become(back)
    BY <1>4
  <2> HIDE DEF back
  <2> QED BY <1>1, <2>1, <2>2 DEF Become, Unchanged
<1>5. CASE c \in Customers /\ RequestDenied(c, request)
  <2>1. PICK i \in Resources :
            /\ RequestError(c, request, i) # 0
            /\ Become(TakeBack(Allocate(Bank, c, request, Before(i)), c, request, Before(i)))
            /\ answer' = RequestError(c, request, i)
    BY <1>5 DEF RequestDenied
  <2>2. RequestError(c, request, i) \in {0, -1, -2}
    BY DEF RequestError
  <2> HIDE DEF Before
  <2>3. Unchanged
    BY <1>4, <1>5, <2>1
  <2> QED BY <1>1, <2>1, <2>2, <2>3
<1>6. CASE c \in Customers /\ RequestDecided(c, request)
  <2>1. CASE is_safe(Allocate(Bank, c, request, Resources))
    BY <1>1, <1>6, <2>1 DEF RequestDecided, Granted
  <2>2. CASE ~is_safe(Allocate(Bank, c, request, Resources))
    <3>1. /\ Become(TakeBack(Allocate(Bank, c, request, Resources), c, request, Resources))
          /\ answer' = -3
      BY <1>6, <2>2 DEF RequestDecided
    <3>2. Unchanged
      BY <1>4, <1>6, <3>1
    <3> QED BY <1>1, <3>1, <3>2
  <2> QED BY <2>1, <2>2
<1> QED BY <1>1, <1>3, <1>5, <1>6 DEF request_resources

(* A release is done, or changes nothing, or is undone wrongly.            *)
LEMMA ReleaseKinds ==
    ASSUME BankerAssumption, TypeOK, NEW c, NEW release \in Requests,
           release_resources(c, release)
    PROVE  /\ total' = total
           /\ \/ spoils' = spoils /\ Released(c, release)
              \/ spoils' = spoils /\ returned' = returned /\ Unchanged /\ answer' = -1
              \/ /\ spoils' = spoils + 1 /\ returned' = returned /\ answer' = -1 /\ c \in Customers
                 /\ \E i \in Resources, g \in Garbage :
                        StrayWrite(Undo(Return(Bank, c, release, Before(i)), c, release, i), c, g)
<1>1. total' = total
  BY DEF release_resources
<1>2. release \in Vectors /\ IsBank(Bank)
  BY RequestVector, BankIs
<1>3. CASE InvalidCustomer(c) /\ UNCHANGED <<maximum, returned, spoils>>
  BY <1>1, <1>3 DEF InvalidCustomer, Unchanged
<1>4. CASE c \in Customers /\ ReleaseDone(c, release)
  BY <1>1, <1>4 DEF ReleaseDone, Released
<1>5. CASE c \in Customers /\ ReleaseDenied(c, release)
  <2> DEFINE undone(i) == Undo(Return(Bank, c, release, Before(i)), c, release, i)
  <2>1. PICK i \in Resources :
            /\ answer' = -1 /\ returned' = returned
            /\ IF i = 0
               THEN Become(undone(i)) /\ UNCHANGED <<maximum, spoils>>
               ELSE spoils' = spoils + 1 /\ \E g \in Garbage : StrayWrite(undone(i), c, g)
    BY <1>5 DEF ReleaseDenied
  <2>2. CASE i = 0
    <3> DEFINE new == Return(Bank, c, release, {})
               back == Undo(new, c, release, 0)
    <3>1. Before(0) = {} /\ Before(0 - 1) = {}
      BY DEF Before
    <3>2. \A v \in Vectors : Plus(v, release, {}) = v /\ Minus(v, release, {}) = v
      BY DEF Plus, Minus, Vectors
    <3>3. /\ available \in Vectors /\ allocation \in [Customers -> Vectors]
          /\ allocation[c] \in Vectors
      BY <1>5, <1>2, BankIs DEF IsBank
    <3>4. /\ new.available = Plus(available, release, {})
          /\ new.allocation = [allocation EXCEPT ![c] = Minus(allocation[c], release, {})]
          /\ new.need = need
      BY DEF Return, Bank
    <3>5. new.available = available /\ new.allocation = allocation /\ new.need = need
      BY <3>2, <3>3, <3>4
    <3>6. /\ back.available = Minus(new.available, release, Before(0))
          /\ back.allocation = [new.allocation EXCEPT ![c] = Plus(new.allocation[c], release, Before(0 - 1))]
          /\ back.need = new.need
      BY DEF Undo, Return, Bank
    <3>7. back.available = available /\ back.allocation = allocation /\ back.need = need
      <4> HIDE DEF new, back
      <4>1. back.available = available
        BY <3>1, <3>2, <3>3, <3>5, <3>6
      <4>2. Plus(allocation[c], release, {}) = allocation[c]
        BY <3>2, <3>3
      <4>3. back.allocation = [allocation EXCEPT ![c] = allocation[c]]
        BY <3>1, <3>5, <3>6, <4>2
      <4>4. back.allocation = allocation
        BY <3>3, <4>3
      <4> QED BY <3>5, <3>6, <4>1, <4>4
    <3>8. Become(back) /\ UNCHANGED <<maximum, spoils>>
      BY <2>1, <2>2, <3>1
    <3> HIDE DEF back
    <3> QED BY <1>1, <2>1, <3>7, <3>8 DEF Become, Unchanged
  <2>3. CASE i # 0
    BY <1>1, <1>5, <2>1, <2>3
  <2> QED BY <2>2, <2>3
<1> QED BY <1>3, <1>4, <1>5 DEF release_resources

(* The arrays of a bank that Become installs.                              *)
LEMMA BecomeBank ==
    ASSUME NEW bank, IsBank(bank), Become(bank)
    PROVE  /\ available' \in Vectors /\ allocation' \in [Customers -> Vectors]
           /\ need' \in [Customers -> Vectors]
           /\ available' = bank.available /\ allocation' = bank.allocation /\ need' = bank.need
  BY DEF Become, IsBank

(* One more for a customer and for the balance of the banker: what a       *)
(* granted request moves.                                                  *)
LEMMA GrantedMoves ==
    ASSUME BankerAssumption, TypeOK, NEW c, NEW request \in Requests, Granted(c, request)
    PROVE  /\ c \in Customers /\ request \in Vectors
           /\ available' \in Vectors /\ allocation' \in [Customers -> Vectors]
           /\ need' \in [Customers -> Vectors]
           /\ \A r \in Resources :
                  /\ 0 <= request[r] /\ request[r] <= available[r] /\ request[r] <= need[c][r]
                  /\ available'[r] = available[r] - request[r]
                  /\ allocation'[c][r] = allocation[c][r] + request[r]
                  /\ need'[c][r] = need[c][r] - request[r]
           /\ \A i \in Customers : i # c => allocation'[i] = allocation[i] /\ need'[i] = need[i]
<1>1. c \in Customers /\ request \in Vectors /\ IsBank(Bank)
  BY RequestVector, BankIs DEF Granted
<1> DEFINE new == Allocate(Bank, c, request, Resources)
<1>2. IsBank(new)
  BY <1>1, BankTypes
<1>3. /\ new.available = Minus(available, request, Resources)
      /\ new.allocation = [allocation EXCEPT ![c] = Plus(allocation[c], request, Resources)]
      /\ new.need = [need EXCEPT ![c] = Minus(need[c], request, Resources)]
  BY DEF Allocate, Bank
<1>4. Become(new) /\ \A i \in Resources : RequestError(c, request, i) = 0
  BY DEF Granted
<1> HIDE DEF new
<1>5. /\ available' \in Vectors /\ allocation' \in [Customers -> Vectors]
      /\ need' \in [Customers -> Vectors]
      /\ available' = new.available /\ allocation' = new.allocation /\ need' = new.need
  BY <1>2, <1>4, BecomeBank
<1>6. allocation \in [Customers -> Vectors] /\ need \in [Customers -> Vectors] /\ available \in Vectors
  BY DEF TypeOK, Vectors
<1>7. ASSUME NEW r \in Resources
      PROVE  /\ 0 <= request[r] /\ request[r] <= available[r] /\ request[r] <= need[c][r]
             /\ available'[r] = available[r] - request[r]
             /\ allocation'[c][r] = allocation[c][r] + request[r]
             /\ need'[c][r] = need[c][r] - request[r]
  <2>1. request[r] \in Int /\ available[r] \in Int /\ need[c][r] \in Int
    BY <1>1, <1>6 DEF Vectors
  <2>2. RequestError(c, request, r) = 0
    BY <1>4
  <2>3. 0 <= request[r] /\ request[r] <= available[r] /\ request[r] <= need[c][r]
    BY <2>1, <2>2 DEF RequestError
  <2>4. available'[r] = available[r] - request[r]
    BY <1>3, <1>5 DEF Minus
  <2>5. allocation'[c] = Plus(allocation[c], request, Resources)
        /\ need'[c] = Minus(need[c], request, Resources)
    BY <1>1, <1>3, <1>5, <1>6
  <2>6. allocation'[c][r] = allocation[c][r] + request[r] /\ need'[c][r] = need[c][r] - request[r]
    BY <2>5 DEF Plus, Minus
  <2> QED BY <2>3, <2>4, <2>6
<1>8. \A i \in Customers : i # c => allocation'[i] = allocation[i] /\ need'[i] = need[i]
  BY <1>3, <1>5, <1>6
<1> QED BY <1>1, <1>5, <1>7, <1>8

LEMMA ReturnType ==
    ASSUME NEW bank, IsBank(bank), NEW c \in Customers, NEW release \in Vectors, NEW S, NEW i
    PROVE  IsBank(Return(bank, c, release, S)) /\ IsBank(Undo(bank, c, release, i))
<1>1. /\ Plus(bank.available, release, S) \in Vectors
      /\ Minus(bank.allocation[c], release, S) \in Vectors
      /\ Minus(bank.available, release, Before(i)) \in Vectors
      /\ Plus(bank.allocation[c], release, Before(i - 1)) \in Vectors
  BY VectorType DEF IsBank
<1> QED BY <1>1 DEF IsBank, Return, Undo

(* What a release moves.                                                   *)
LEMMA ReleasedMoves ==
    ASSUME BankerAssumption, TypeOK, NEW c, NEW release \in Requests, Released(c, release)
    PROVE  /\ c \in Customers /\ release \in Vectors
           /\ available' \in Vectors /\ allocation' \in [Customers -> Vectors] /\ need' = need
           /\ returned' \in [Customers -> Vectors]
           /\ \A r \in Resources :
                  /\ 0 <= release[r] /\ release[r] <= allocation[c][r]
                  /\ available'[r] = available[r] + release[r]
                  /\ allocation'[c][r] = allocation[c][r] - release[r]
                  /\ returned'[c][r] = returned[c][r] + release[r]
           /\ \A i \in Customers :
                  i # c => allocation'[i] = allocation[i] /\ returned'[i] = returned[i]
<1>1. c \in Customers /\ release \in Vectors /\ IsBank(Bank)
  BY RequestVector, BankIs DEF Released
<1> DEFINE new == Return(Bank, c, release, Resources)
<1>2. IsBank(new)
  BY <1>1, ReturnType
<1>3. /\ new.available = Plus(available, release, Resources)
      /\ new.allocation = [allocation EXCEPT ![c] = Minus(allocation[c], release, Resources)]
      /\ new.need = need
  BY DEF Return, Bank
<1>4. Become(new) /\ \A i \in Resources : ~ReleaseError(c, release, i)
  BY DEF Released
<1> HIDE DEF new
<1>5. /\ available' \in Vectors /\ allocation' \in [Customers -> Vectors]
      /\ available' = new.available /\ allocation' = new.allocation /\ need' = need
  BY <1>2, <1>3, <1>4, BecomeBank
<1>6. allocation \in [Customers -> Vectors] /\ available \in Vectors
  BY DEF TypeOK, Vectors
<1>7. /\ returned \in [Customers -> Vectors] /\ returned' \in [Customers -> Vectors]
      /\ returned'[c] = Plus(returned[c], release, Resources)
      /\ \A i \in Customers : i # c => returned'[i] = returned[i]
  <2>1. returned \in [Customers -> Vectors]
    BY DEF TypeOK, Vectors
  <2>2. returned' = [returned EXCEPT ![c] = Plus(returned[c], release, Resources)]
    BY DEF Released
  <2>3. Plus(returned[c], release, Resources) \in Vectors
    BY <1>1, <2>1, VectorType
  <2> QED BY <1>1, <2>1, <2>2, <2>3
<1>8. ASSUME NEW r \in Resources
      PROVE  /\ 0 <= release[r] /\ release[r] <= allocation[c][r]
             /\ available'[r] = available[r] + release[r]
             /\ allocation'[c][r] = allocation[c][r] - release[r]
             /\ returned'[c][r] = returned[c][r] + release[r]
  <2>1. release[r] \in Int /\ allocation[c][r] \in Int
    BY <1>1, <1>6 DEF Vectors
  <2>2. ~ReleaseError(c, release, r)
    BY <1>4
  <2>3. 0 <= release[r] /\ release[r] <= allocation[c][r]
    BY <2>1, <2>2 DEF ReleaseError
  <2>4. available'[r] = available[r] + release[r]
    BY <1>3, <1>5 DEF Plus
  <2>5. allocation'[c] = Minus(allocation[c], release, Resources)
    BY <1>1, <1>3, <1>5, <1>6
  <2>6. allocation'[c][r] = allocation[c][r] - release[r]
    BY <2>5 DEF Minus
  <2>7. returned'[c][r] = returned[c][r] + release[r]
    BY <1>7 DEF Plus
  <2> QED BY <2>3, <2>4, <2>6, <2>7
<1>9. \A i \in Customers : i # c => allocation'[i] = allocation[i]
  BY <1>3, <1>5, <1>6
<1> QED BY <1>1, <1>5, <1>7, <1>8, <1>9

(* After a rollback that went wrong the arrays still hold numbers.         *)
LEMMA StrayWriteType ==
    ASSUME BankerAssumption, TypeOK, NEW bank, IsBank(bank), NEW c \in Customers,
           NEW g \in Garbage, StrayWrite(bank, c, g)
    PROVE  /\ available' \in Vectors /\ allocation' \in [Customers -> Vectors]
           /\ need' \in [Customers -> Vectors] /\ maximum' \in [Customers -> Vectors]
<1>1. /\ LastRow \in Customers /\ LastCell \in Resources /\ g \in Int
      /\ (c > 0 => c - 1 \in Customers)
  BY BankerAssumption DEF LastRow, LastCell, Customers, Resources
<1>2. maximum \in [Customers -> Vectors]
  BY DEF TypeOK, Vectors
<1>3. CASE Become(bank) /\ maximum' \in {maximum, [maximum EXCEPT ![LastRow][LastCell] = @ + g]}
  <2>1. CASE maximum' = maximum
    BY <1>2, <1>3, <2>1, BecomeBank
  <2>2. CASE maximum' = [maximum EXCEPT ![LastRow][LastCell] = @ + g]
    <3>1. maximum' \in [Customers -> Vectors]
      BY <1>1, <1>2, <2>2 DEF Vectors
    <3> QED BY <1>3, <3>1, BecomeBank
  <2> QED BY <1>3, <2>1, <2>2
<1>4. CASE c > 0 /\ Become([bank EXCEPT !.allocation[c - 1][LastCell] = @ + g]) /\ maximum' = maximum
  <2> DEFINE new == [bank EXCEPT !.allocation[c - 1][LastCell] = @ + g]
             row == [bank.allocation[c - 1] EXCEPT ![LastCell] = @ + g]
             table == [bank.allocation EXCEPT ![c - 1] = row]
  <2>1. IsBank(new)
    <3>1. bank.allocation[c - 1] \in Vectors
      BY <1>1, <1>4 DEF IsBank
    <3>2. row \in Vectors
      BY <1>1, <3>1 DEF Vectors
    <3>3. new = [bank EXCEPT !.allocation = table]
      OBVIOUS
    <3> HIDE DEF row, new
    <3>4. table \in [Customers -> Vectors]
      BY <3>2 DEF IsBank
    <3> HIDE DEF table
    <3> QED BY <3>3, <3>4 DEF IsBank
  <2> HIDE DEF new
  <2>2. Become(new)
    BY <1>4 DEF new
  <2> QED BY <1>2, <1>4, <2>1, <2>2, BecomeBank
<1>5. CASE Become([bank EXCEPT !.available[LastCell] = @ + g]) /\ maximum' = maximum
  <2> DEFINE new == [bank EXCEPT !.available[LastCell] = @ + g]
             row == [bank.available EXCEPT ![LastCell] = @ + g]
  <2>1. IsBank(new)
    <3>1. bank.available \in Vectors
      BY DEF IsBank
    <3>2. row \in Vectors
      BY <1>1, <3>1 DEF Vectors
    <3>3. new = [bank EXCEPT !.available = row]
      OBVIOUS
    <3> HIDE DEF row, new
    <3> QED BY <3>2, <3>3 DEF IsBank
  <2> HIDE DEF new
  <2>2. Become(new)
    BY <1>5 DEF new
  <2> QED BY <1>2, <1>5, <2>1, <2>2, BecomeBank
<1>6. CASE Become([bank EXCEPT !.need[LastRow][LastCell] = @ + g]) /\ maximum' = maximum
  <2> DEFINE new == [bank EXCEPT !.need[LastRow][LastCell] = @ + g]
             row == [bank.need[LastRow] EXCEPT ![LastCell] = @ + g]
             table == [bank.need EXCEPT ![LastRow] = row]
  <2>1. IsBank(new)
    <3>1. bank.need[LastRow] \in Vectors
      BY <1>1 DEF IsBank
    <3>2. row \in Vectors
      BY <1>1, <3>1 DEF Vectors
    <3>3. new = [bank EXCEPT !.need = table]
      OBVIOUS
    <3> HIDE DEF row, new
    <3>4. table \in [Customers -> Vectors]
      BY <3>2 DEF IsBank
    <3> HIDE DEF table
    <3> QED BY <3>3, <3>4 DEF IsBank
  <2> HIDE DEF new
  <2>2. Become(new)
    BY <1>6 DEF new
  <2> QED BY <1>2, <1>6, <2>1, <2>2, BecomeBank
<1> QED BY <1>3, <1>4, <1>5, <1>6 DEF StrayWrite
-----------------------------------------------------------------------------
(* The books.                                                              *)

(* AccountsBalance is inductive.  In the parts that are kept one by one:   *)
Typed == /\ answer \in {0, -1, -2, -3} /\ total \in Supplies /\ spoils \in Nat
         /\ available \in Vectors
         /\ {maximum, allocation, need, returned} \subseteq [Customers -> Vectors]

NoDebts == /\ \A r \in Resources : available[r] >= 0
           /\ \A c \in Customers, r \in Resources :
                  allocation[c][r] >= 0 /\ need[c][r] >= 0 /\ returned[c][r] >= 0
           /\ maximum \in Demands

ClaimsBalance ==
    \A c \in Customers, r \in Resources :
        allocation[c][r] + need[c][r] + returned[c][r] = maximum[c][r]

IInv == Typed /\ (spoils = 0 => NoDebts /\ Conserved /\ ClaimsBalance)

LEMMA IInvIsAccounts ==
    BankerAssumption => (IInv <=> AccountsBalance)
<1> SUFFICES ASSUME BankerAssumption PROVE IInv <=> AccountsBalance
  OBVIOUS
<1>1. Typed <=> /\ answer \in {0, -1, -2, -3} /\ total \in Supplies /\ spoils \in Nat
                /\ available \in [Resources -> Int]
                /\ {maximum, allocation, need, returned}
                       \subseteq [Customers -> [Resources -> Int]]
  BY DEF Typed, Vectors
<1>2. ASSUME Typed
      PROVE  NoDebts <=> /\ available \in [Resources -> Nat]
                         /\ maximum \in Demands
                         /\ {allocation, need, returned}
                                \subseteq [Customers -> [Resources -> Nat]]
  <2>1. available \in [Resources -> Nat] <=> \A r \in Resources : available[r] >= 0
    BY <1>2 DEF Typed, Vectors
  <2>2. /\ allocation \in [Customers -> Vectors] /\ need \in [Customers -> Vectors]
        /\ returned \in [Customers -> Vectors]
    BY <1>2 DEF Typed
  <2>3. allocation \in [Customers -> [Resources -> Nat]]
            <=> \A c \in Customers, r \in Resources : allocation[c][r] >= 0
    BY <2>2 DEF Vectors
  <2>4. need \in [Customers -> [Resources -> Nat]]
            <=> \A c \in Customers, r \in Resources : need[c][r] >= 0
    BY <2>2 DEF Vectors
  <2>5. returned \in [Customers -> [Resources -> Nat]]
            <=> \A c \in Customers, r \in Resources : returned[c][r] >= 0
    BY <2>2 DEF Vectors
  <2> QED BY <2>1, <2>3, <2>4, <2>5 DEF NoDebts
<1> QED BY <1>1, <1>2 DEF IInv, AccountsBalance, TypeOK, ClaimsBalance

(* The sums in the next state.                                             *)
LEMMA BalanceKept ==
    ASSUME BankerAssumption, IInv, Conserved, NEW c \in Customers, Typed', total' = total,
           \A i \in Customers : i # c => allocation'[i] = allocation[i],
           \A r \in Resources :
               available'[r] + allocation'[c][r] = available[r] + allocation[c][r]
    PROVE  Conserved'
<1> DEFINE new == [available |-> available', allocation |-> allocation', need |-> need']
<1>1. IsBank(Bank) /\ IsBank(new)
  BY DEF IInv, Typed, Bank, IsBank
<1>2. Bank' = new
  BY DEF Bank
<1>3. ASSUME NEW r \in Resources
      PROVE  available'[r] + Allocated(new, r, Customers) = total[r]
  <2>1. \A i \in Customers : i # c => new.allocation[i][r] = Bank.allocation[i][r]
    BY DEF Bank
  <2>2. new.allocation[c][r] = allocation'[c][r] /\ Bank.allocation[c][r] = allocation[c][r]
    BY DEF Bank
  <2> HIDE DEF new
  <2>3. /\ Allocated(Bank, r, Customers) \in Int
        /\ Allocated(new, r, Customers) = Allocated(Bank, r, Customers)
               + (new.allocation[c][r] - Bank.allocation[c][r])
    BY <1>1, <2>1, AllocatedChange
  <2>4. available[r] + Allocated(Bank, r, Customers) = total[r]
    BY DEF Conserved
  <2>5. /\ available[r] \in Int /\ available'[r] \in Int
        /\ allocation[c][r] \in Int /\ allocation'[c][r] \in Int
    BY DEF IInv, Typed, Vectors
  <2>6. available'[r] + allocation'[c][r] = available[r] + allocation[c][r]
    OBVIOUS
  <2> DEFINE before == Allocated(Bank, r, Customers)
             after == Allocated(new, r, Customers)
  <2>7. after = before + (allocation'[c][r] - allocation[c][r]) /\ before \in Int
    BY <2>2, <2>3
  <2>8. available[r] + before = total[r]
    BY <2>4
  <2> HIDE DEF before, after
  <2>9. available'[r] + after = available[r] + before
    BY <2>5, <2>6, <2>7
  <2> QED BY <2>8, <2>9 DEF after
<1> HIDE DEF new
<1>4. \A r \in Resources : Allocated(Bank, r, Customers)' = Allocated(new, r, Customers)
  BY <1>2
<1> QED BY <1>3, <1>4 DEF Conserved

LEMMA InitIInv ==
    ASSUME BankerAssumption, Init
    PROVE  IInv
<1>1. /\ available \in [Resources -> Nat] /\ maximum \in [Customers -> [Resources -> Nat]]
      /\ need = maximum /\ maximum \in Demands /\ total = available /\ total \in Supplies
      /\ allocation = [c \in Customers |-> [r \in Resources |-> 0]]
      /\ returned = allocation /\ answer = 0 /\ spoils = 0
  BY DEF Init, BankerAssumption
<1>2. Typed
  BY <1>1 DEF Typed, Vectors
<1>3. NoDebts
  BY <1>1 DEF NoDebts
<1>4. ClaimsBalance
  BY <1>1 DEF ClaimsBalance
<1>5. Conserved
  <2> SUFFICES ASSUME NEW r \in Resources
               PROVE  available[r] + Allocated(Bank, r, Customers) = total[r]
    BY DEF Conserved
  <2>1. IsBank(Bank)
    BY <1>2 DEF Typed, Bank, IsBank
  <2>2. Allocated(Bank, r, {}) = 0
    BY <2>1, AllocatedNobody
  <2>3. Allocated(Bank, r, Customers) = Allocated(Bank, r, {})
    <3>1. \A c \in Customers : Bank.allocation[c][r] = 0
      BY <1>1 DEF Bank
    <3>2. [c \in Customers |-> IF c \in Customers THEN Bank.allocation[c][r] ELSE 0]
              = [c \in Customers |-> IF c \in {} THEN Bank.allocation[c][r] ELSE 0]
      BY <3>1
    <3> QED BY <3>2 DEF Allocated
  <2> QED BY <1>1, <2>2, <2>3
<1> QED BY <1>2, <1>3, <1>4, <1>5 DEF IInv

(* Every command keeps the books: what a request or a release moves from   *)
(* one array it moves to another, and a denied request moves it back.      *)
THEOREM InductiveStep ==
    ASSUME BankerAssumption, IInv, [Next]_vars
    PROVE  IInv'
<1>0. TypeOK
  BY IInvIsAccounts DEF AccountsBalance
<1>1. CASE UNCHANGED vars
  <2>1. /\ Typed' = Typed /\ NoDebts' = NoDebts /\ ClaimsBalance' = ClaimsBalance
        /\ spoils' = spoils
    BY <1>1 DEF vars, Typed, NoDebts, ClaimsBalance
  <2>2. Conserved' = Conserved
    BY <1>1 DEF vars, Conserved, Bank
  <2> QED BY <2>1, <2>2 DEF IInv
<1>2. ASSUME NEW c, NEW request \in Requests, Granted(c, request),
             total' = total, returned' = returned, spoils' = spoils
      PROVE  IInv'
  <2>1. /\ c \in Customers /\ request \in Vectors
        /\ available' \in Vectors /\ allocation' \in [Customers -> Vectors]
        /\ need' \in [Customers -> Vectors]
        /\ \A r \in Resources :
               /\ 0 <= request[r] /\ request[r] <= available[r] /\ request[r] <= need[c][r]
               /\ available'[r] = available[r] - request[r]
               /\ allocation'[c][r] = allocation[c][r] + request[r]
               /\ need'[c][r] = need[c][r] - request[r]
        /\ \A i \in Customers : i # c => allocation'[i] = allocation[i] /\ need'[i] = need[i]
    BY <1>0, <1>2, GrantedMoves
  <2>2. maximum' = maximum /\ answer' = 0
    BY <1>2 DEF Granted
  <2>3. Typed'
    BY <1>2, <2>1, <2>2 DEF IInv, Typed
  <2>4. /\ \A r \in Resources : request[r] \in Int /\ available[r] \in Int
        /\ \A i \in Customers, r \in Resources :
               /\ allocation[i][r] \in Int /\ need[i][r] \in Int
               /\ maximum[i][r] \in Int /\ returned[i][r] \in Int
    BY <2>1 DEF IInv, Typed, Vectors
  <2>5. ASSUME spoils = 0
        PROVE  NoDebts' /\ Conserved' /\ ClaimsBalance'
    <3>1. NoDebts'
      <4>1. \A r \in Resources : /\ available'[r] >= 0 /\ allocation'[c][r] >= 0
                                  /\ need'[c][r] >= 0 /\ returned'[c][r] >= 0
        BY <1>2, <2>1, <2>4, <2>5 DEF IInv, NoDebts
      <4> QED BY <1>2, <2>1, <2>2, <2>5, <4>1 DEF IInv, NoDebts
    <3>2. ClaimsBalance'
      <4>1. \A r \in Resources : allocation'[c][r] + need'[c][r] + returned'[c][r] = maximum'[c][r]
        BY <1>2, <2>1, <2>2, <2>4, <2>5 DEF IInv, ClaimsBalance
      <4> QED BY <1>2, <2>1, <2>2, <2>5, <4>1 DEF IInv, ClaimsBalance
    <3>3. Conserved'
      <4>1. \A r \in Resources :
                available'[r] + allocation'[c][r] = available[r] + allocation[c][r]
        BY <2>1, <2>4
      <4> QED BY <1>2, <2>1, <2>3, <2>5, <4>1, BalanceKept DEF IInv
    <3> QED BY <3>1, <3>2, <3>3
  <2> QED BY <1>2, <2>3, <2>5 DEF IInv
<1>3. ASSUME NEW c, NEW release \in Requests, Released(c, release),
             total' = total, spoils' = spoils
      PROVE  IInv'
  <2>1. /\ c \in Customers /\ release \in Vectors
        /\ available' \in Vectors /\ allocation' \in [Customers -> Vectors] /\ need' = need
        /\ returned' \in [Customers -> Vectors]
        /\ \A r \in Resources :
               /\ 0 <= release[r] /\ release[r] <= allocation[c][r]
               /\ available'[r] = available[r] + release[r]
               /\ allocation'[c][r] = allocation[c][r] - release[r]
               /\ returned'[c][r] = returned[c][r] + release[r]
        /\ \A i \in Customers :
               i # c => allocation'[i] = allocation[i] /\ returned'[i] = returned[i]
    BY <1>0, <1>3, ReleasedMoves
  <2>2. maximum' = maximum /\ answer' = 0
    BY <1>3 DEF Released
  <2>3. Typed'
    BY <1>3, <2>1, <2>2 DEF IInv, Typed
  <2>4. /\ \A r \in Resources : release[r] \in Int /\ available[r] \in Int
        /\ \A i \in Customers, r \in Resources :
               /\ allocation[i][r] \in Int /\ need[i][r] \in Int
               /\ maximum[i][r] \in Int /\ returned[i][r] \in Int
    BY <2>1 DEF IInv, Typed, Vectors
  <2>5. ASSUME spoils = 0
        PROVE  NoDebts' /\ Conserved' /\ ClaimsBalance'
    <3>1. NoDebts'
      <4>1. \A r \in Resources : /\ available'[r] >= 0 /\ allocation'[c][r] >= 0
                                  /\ need'[c][r] >= 0 /\ returned'[c][r] >= 0
        BY <2>1, <2>4, <2>5 DEF IInv, NoDebts
      <4> QED BY <2>1, <2>2, <2>5, <4>1 DEF IInv, NoDebts
    <3>2. ClaimsBalance'
      <4>1. \A r \in Resources : allocation'[c][r] + need'[c][r] + returned'[c][r] = maximum'[c][r]
        BY <2>1, <2>2, <2>4, <2>5 DEF IInv, ClaimsBalance
      <4> QED BY <2>1, <2>2, <2>5, <4>1 DEF IInv, ClaimsBalance
    <3>3. Conserved'
      <4>1. \A r \in Resources :
                available'[r] + allocation'[c][r] = available[r] + allocation[c][r]
        BY <2>1, <2>4
      <4> QED BY <1>3, <2>1, <2>3, <2>5, <4>1, BalanceKept DEF IInv
    <3> QED BY <3>1, <3>2, <3>3
  <2> QED BY <1>3, <2>3, <2>5 DEF IInv
<1>4. ASSUME Unchanged, answer' \in {-1, -2, -3}, total' = total, returned' = returned,
             spoils' = spoils
      PROVE  IInv'
  <2>1. Typed' /\ (NoDebts => NoDebts') /\ (ClaimsBalance => ClaimsBalance')
    BY <1>4 DEF Unchanged, IInv, Typed, NoDebts, ClaimsBalance
  <2>2. Conserved => Conserved'
    <3>1. Bank' = Bank
      BY <1>4 DEF Unchanged, Bank
    <3> QED BY <1>4, <3>1 DEF Conserved, Unchanged
  <2> QED BY <1>4, <2>1, <2>2 DEF IInv
<1>5. ASSUME NEW c \in Customers, NEW release \in Requests, NEW i \in Resources, NEW g \in Garbage,
             StrayWrite(Undo(Return(Bank, c, release, Before(i)), c, release, i), c, g),
             answer' = -1, total' = total, returned' = returned, spoils' = spoils + 1
      PROVE  IInv'
  <2>1. IsBank(Undo(Return(Bank, c, release, Before(i)), c, release, i))
    BY <1>0, RequestVector, BankIs, ReturnType
  <2>2. /\ available' \in Vectors /\ allocation' \in [Customers -> Vectors]
        /\ need' \in [Customers -> Vectors] /\ maximum' \in [Customers -> Vectors]
    BY <1>0, <1>5, <2>1, StrayWriteType
  <2>3. spoils' \in Nat /\ spoils' # 0
    BY <1>5 DEF IInv, Typed
  <2>4. Typed'
    BY <1>5, <2>2, <2>3 DEF IInv, Typed
  <2> QED BY <2>3, <2>4 DEF IInv
<1>6. ASSUME NEW c, NEW amounts \in Requests, request_resources(c, amounts)
      PROVE  IInv'
  BY <1>0, <1>2, <1>4, <1>6, RequestKinds
<1>7. ASSUME NEW c, NEW amounts \in Requests, release_resources(c, amounts)
      PROVE  IInv'
  BY <1>0, <1>3, <1>4, <1>5, <1>7, ReleaseKinds
<1> QED BY <1>1, <1>6, <1>7 DEF Next, Requests

(* Whatever commands are given, the books are kept.                        *)
THEOREM Invariance == Spec => []IInv
<1>1. Init => IInv
  BY InitIInv, BankerAssumption
<1>2. IInv /\ [Next]_vars => IInv'
  BY InductiveStep, BankerAssumption
<1> QED BY <1>1, <1>2, PTL DEF Spec

(* Until a release is undone wrongly, no unit of a resource is lost or     *)
(* made up by any history of commands, nobody owes or is owed a negative   *)
(* amount, and what a customer holds, may still ask for and has released   *)
(* adds up to its claim.                                                   *)
THEOREM BooksBalance == Spec => []AccountsBalance
<1>1. IInv => AccountsBalance
  BY IInvIsAccounts, BankerAssumption
<1> QED BY <1>1, Invariance, PTL

(* Granting a request leaves nobody with less than nothing, so is_safe     *)
(* decides whether it may be granted.                                      *)
LEMMA GreedyAfterRequest ==
    ASSUME BankerAssumption, IInv, spoils = 0, NEW c \in Customers, NEW request \in Requests,
           \A i \in Resources : RequestError(c, request, i) = 0
    PROVE  is_safe(Allocate(Bank, c, request, Resources))
               <=> Safe(Allocate(Bank, c, request, Resources))
<1> DEFINE new == Allocate(Bank, c, request, Resources)
<1>1. request \in Vectors /\ IsBank(Bank)
  BY BankerAssumption, IInvIsAccounts, RequestVector, BankIs DEF AccountsBalance
<1>2. IsBank(new)
  BY <1>1, BankerAssumption, BankTypes
<1>3. new.allocation = [allocation EXCEPT ![c] = Plus(allocation[c], request, Resources)]
  BY DEF Allocate, Bank
<1>4. ASSUME NEW r \in Resources
      PROVE  request[r] >= 0
  <2>1. request[r] \in Int /\ available[r] \in Int /\ need[c][r] \in Int
    BY <1>1 DEF IInv, Typed, Vectors
  <2>2. RequestError(c, request, r) = 0
    OBVIOUS
  <2> QED BY <2>1, <2>2 DEF RequestError
<1>5. \A i \in Customers, r \in Resources : allocation[i][r] \in Int /\ allocation[i][r] >= 0
  BY DEF IInv, Typed, NoDebts, Vectors
<1>6. Owns(new)
  <2> HIDE DEF new
  <2> SUFFICES ASSUME NEW i \in Customers, NEW r \in Resources
               PROVE  new.allocation[i][r] >= 0
    BY DEF Owns
  <2>1. allocation \in [Customers -> Vectors]
    BY DEF IInv, Typed
  <2>2. CASE i = c
    <3>1. new.allocation[i][r] = allocation[c][r] + request[r]
      BY <1>3, <2>1, <2>2 DEF Plus
    <3> QED BY <1>1, <1>4, <1>5, <3>1 DEF Vectors
  <2>3. CASE i # c
    BY <1>3, <1>5, <2>1, <2>3
  <2> QED BY <2>2, <2>3
<1> HIDE DEF new
<1>7. is_safe(new) <=> Safe(new)
  BY <1>2, <1>6, BankerAssumption, GreedyChoiceIsRight
<1> QED BY <1>7 DEF new

(* Whatever was requested before: for any request within need and within   *)
(* what is available, the greedy is_safe answers as the definition of a    *)
(* safe state would.                                                       *)
THEOREM GreedyIsSafe == Spec => []GreedyChoiceDecidesSafety
<1>1. IInv => GreedyChoiceDecidesSafety
  BY BankerAssumption, GreedyAfterRequest DEF GreedyChoiceDecidesSafety, Requests
<1> QED BY <1>1, Invariance, PTL

(* What a command may do as long as no release is undone wrongly.          *)
LEMMA CommandKinds ==
    ASSUME BankerAssumption, IInv, Next, spoils' = 0
    PROVE  /\ spoils = 0
           /\ \/ Unchanged /\ answer' # 0
              \/ \E c, request : request \in Requests /\ Granted(c, request)
              \/ \E c, release : release \in Requests /\ Released(c, release)
<1>1. TypeOK /\ spoils \in Nat
  BY IInvIsAccounts DEF AccountsBalance, IInv, Typed
<1>2. PICK c, amounts : /\ amounts \in Requests
                        /\ request_resources(c, amounts) \/ release_resources(c, amounts)
  BY DEF Next, Requests
<1>3. CASE request_resources(c, amounts)
  BY <1>1, <1>2, <1>3, RequestKinds
<1>4. CASE release_resources(c, amounts)
  BY <1>1, <1>2, <1>4, ReleaseKinds
<1> QED BY <1>2, <1>3, <1>4

(* A request that is denied at its last resource or by is_safe, after any  *)
(* amounts were moved, and a release that fails at its first resource      *)
(* leave all three arrays as they were.                                    *)
THEOREM FailureRestores == Spec => FailedCommandChangesNothing
<1>1. ASSUME IInv, [Next]_vars, spoils' = 0, answer' # 0
      PROVE  UNCHANGED <<available, allocation, need>> \/ UNCHANGED vars
  <2>1. CASE Next
    BY <1>1, <2>1, CommandKinds, BankerAssumption DEF Unchanged, Granted, Released
  <2> QED BY <1>1, <2>1
<1>2. IInv /\ [Next]_vars
          => [spoils' = 0 /\ answer' # 0 => UNCHANGED <<available, allocation, need>>]_vars
  BY <1>1
<1> QED BY <1>2, Invariance, PTL DEF Spec, FailedCommandChangesNothing

(* A release gives the customers that are served later no less to work     *)
(* with than before.                                                       *)
LEMMA ReleaseStaysSafe ==
    ASSUME BankerAssumption, IInv, NEW c, NEW release \in Requests, Released(c, release),
           Safe(Bank)
    PROVE  Safe(Bank)'
<1> DEFINE new == [available |-> available', allocation |-> allocation', need |-> need']
<1>1. TypeOK /\ IsBank(Bank)
  BY IInvIsAccounts, BankIs DEF AccountsBalance
<1>2. /\ c \in Customers /\ release \in Vectors
      /\ available' \in Vectors /\ allocation' \in [Customers -> Vectors] /\ need' = need
      /\ \A r \in Resources :
             /\ 0 <= release[r] /\ release[r] <= allocation[c][r]
             /\ available'[r] = available[r] + release[r]
             /\ allocation'[c][r] = allocation[c][r] - release[r]
      /\ \A i \in Customers : i # c => allocation'[i] = allocation[i]
  BY <1>1, ReleasedMoves
<1>3. need \in [Customers -> Vectors] /\ available \in Vectors /\ allocation \in [Customers -> Vectors]
  BY DEF IInv, Typed
<1>4. Bank' = new /\ IsBank(new)
  BY <1>2, <1>3 DEF Bank, IsBank
<1>5. /\ new.available = available' /\ new.allocation = allocation' /\ new.need = need
  BY <1>2
<1> HIDE DEF new
<1>6. ASSUME NEW S, NEW r \in Resources
      PROVE  /\ available[r] + Allocated(Bank, r, S) \in Int
             /\ new.available[r] + Allocated(new, r, S) \in Int
             /\ available[r] + Allocated(Bank, r, S) <= new.available[r] + Allocated(new, r, S)
  <2>1. \A i \in Customers : i # c => new.allocation[i][r] = Bank.allocation[i][r]
    BY <1>2, <1>5, BankIs
  <2>2. new.allocation[c][r] = allocation'[c][r] /\ Bank.allocation[c][r] = allocation[c][r]
    BY <1>5, BankIs
  <2>3. /\ Allocated(Bank, r, S) \in Int
        /\ Allocated(new, r, S) = Allocated(Bank, r, S)
               + (IF c \in S THEN new.allocation[c][r] - Bank.allocation[c][r] ELSE 0)
    BY <1>1, <1>2, <1>4, <2>1, AllocatedChange
  <2>4. /\ available[r] \in Int /\ new.available[r] = available[r] + release[r]
        /\ release[r] \in Int /\ release[r] >= 0 /\ allocation[c][r] \in Int
        /\ allocation'[c][r] = allocation[c][r] - release[r]
    BY <1>2, <1>3, <1>5 DEF Vectors
  <2> DEFINE before == Allocated(Bank, r, S)
             after == Allocated(new, r, S)
             held == allocation[c][r]
             left == allocation'[c][r]
             b == available[r]
             a == new.available[r]
             x == release[r]
  <2>5. before \in Int /\ after = before + (IF c \in S THEN left - held ELSE 0)
    BY <2>2, <2>3
  <2>6. b \in Int /\ a = b + x /\ x \in Int /\ x >= 0 /\ held \in Int /\ left = held - x
    BY <2>4
  <2> HIDE DEF before, after, held, left, b, a, x
  <2>7. b + before \in Int /\ a + after \in Int /\ b + before <= a + after
    BY <2>5, <2>6
  <2> QED BY <2>7 DEF before, after, b, a
<1>7. Safe(new)
  <2> SUFFICES ASSUME NEW S \in (SUBSET Customers) \ {{}}
               PROVE  \E i \in S : \A r \in Resources :
                          new.need[i][r] <= new.available[r] + Allocated(new, r, Customers \ S)
    BY DEF Safe
  <2>1. PICK i \in S : \A r \in Resources :
            Bank.need[i][r] <= Bank.available[r] + Allocated(Bank, r, Customers \ S)
    BY DEF Safe
  <2>2. ASSUME NEW r \in Resources
        PROVE  new.need[i][r] <= new.available[r] + Allocated(new, r, Customers \ S)
    <3> DEFINE n == need[i][r]
               before == available[r] + Allocated(Bank, r, Customers \ S)
               after == new.available[r] + Allocated(new, r, Customers \ S)
    <3>1. n <= before
      BY <2>1, BankIs
    <3>2. before \in Int /\ after \in Int /\ before <= after
      BY <1>6
    <3>3. n \in Int
      BY <1>3 DEF Vectors
    <3> HIDE DEF n, before, after
    <3>4. n <= after
      BY <3>1, <3>2, <3>3
    <3> QED BY <1>5, <3>4 DEF n, after
  <2> QED BY <2>2
<1>8. Safe(Bank)' <=> Safe(new)
  BY <1>4 DEF Safe
<1> QED BY <1>7, <1>8

(* A granted request has been found safe, and is_safe decides safety.      *)
LEMMA RequestStaysSafe ==
    ASSUME BankerAssumption, IInv, spoils = 0, NEW c, NEW request \in Requests,
           Granted(c, request)
    PROVE  Safe(Bank)'
<1> DEFINE new == Allocate(Bank, c, request, Resources)
<1>1. /\ c \in Customers /\ \A i \in Resources : RequestError(c, request, i) = 0
      /\ is_safe(new) /\ Become(new)
  BY DEF Granted
<1>2. Safe(new)
  BY <1>1, GreedyAfterRequest
<1>3. Bank' = new
  BY <1>1 DEF Become, Bank, Allocate
<1> HIDE DEF new
<1>4. Safe(Bank)' <=> Safe(new)
  BY <1>3 DEF Safe
<1> QED BY <1>2, <1>4

(* No command makes a safe state unsafe, until a release is undone wrongly. *)
THEOREM RequestsStaySafe == Spec => StaysSafe
<1>1. ASSUME IInv, Next, spoils' = 0, Safe(Bank)
      PROVE  Safe(Bank)'
  <2>1. CASE Unchanged
    <3>1. Bank' = Bank
      BY <2>1 DEF Unchanged, Bank
    <3> QED BY <1>1, <3>1 DEF Safe
  <2>2. CASE \E c, request : request \in Requests /\ Granted(c, request)
    <3>1. spoils = 0
      BY <1>1, CommandKinds, BankerAssumption
    <3> QED BY <1>1, <2>2, <3>1, RequestStaysSafe, BankerAssumption
  <2>3. CASE \E c, release : release \in Requests /\ Released(c, release)
    BY <1>1, <2>3, ReleaseStaysSafe, BankerAssumption
  <2> QED BY <1>1, <2>1, <2>2, <2>3, CommandKinds, BankerAssumption
<1>2. IInv /\ [Next]_vars => [spoils' = 0 => (Safe(Bank) => Safe(Bank)')]_vars
  BY <1>1
<1> QED BY <1>2, Invariance, PTL DEF Spec, StaysSafe
=============================================================================
