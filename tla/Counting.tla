------------------------------ MODULE Counting ------------------------------
(***************************************************************************)
(* How many threads are at some labels, and how one step of one thread     *)
(* changes that number; induction over the numbers up to a bound, for what *)
(* the models compute in a loop; and the items counted from one index of a *)
(* ring to another, as a sequence.                                         *)
(*                                                                         *)
(* The theorems of NaturalsInduction take an operator as a parameter.  The *)
(* lemmas on induction here take a set and a function instead: induction   *)
(* over the numbers of which something holds is the statement that they    *)
(* form a set without a least number outside of it.                        *)
(***************************************************************************)
EXTENDS Integers, Sequences, FiniteSets, FiniteSetTheorems, SequenceTheorems,
        WellFoundedInduction, TLAPS

(* When the thread t moves to label l, the number of threads of S at the   *)
(* labels L grows by one if t enters L, shrinks by one if t leaves L, and  *)
(* stays the same otherwise.                                               *)
THEOREM CountAfterMove ==
    ASSUME NEW S, IsFiniteSet(S), NEW D, S \subseteq D, NEW L, NEW t \in D, NEW l,
           NEW f, NEW g, DOMAIN f = D, g = [f EXCEPT ![t] = l]
    PROVE  /\ Cardinality({x \in S : f[x] \in L}) \in Nat
           /\ Cardinality({x \in S : g[x] \in L}) =
                  Cardinality({x \in S : f[x] \in L})
                  + (IF t \in S /\ f[t] \notin L /\ l \in L THEN 1
                     ELSE IF t \in S /\ f[t] \in L /\ l \notin L THEN -1
                     ELSE 0)
<1> DEFINE Before == {x \in S : f[x] \in L}
           After  == {x \in S : g[x] \in L}
<1>1. IsFiniteSet(Before) /\ Cardinality(Before) \in Nat
  BY FS_Subset, FS_CardinalityType, Before \in SUBSET S
<1>2. \A x \in S : g[x] = IF x = t THEN l ELSE f[x]
  OBVIOUS
<1>3. CASE t \in S /\ f[t] \notin L /\ l \in L
  <2>1. After = Before \cup {t} /\ t \notin Before
    BY <1>2, <1>3
  <2> HIDE DEF Before, After
  <2> QED BY <1>1, <2>1, <1>3, FS_AddElement DEF Before, After
<1>4. CASE t \in S /\ f[t] \in L /\ l \notin L
  <2>1. After = Before \ {t} /\ t \in Before
    BY <1>2, <1>4
  <2> HIDE DEF Before, After
  <2> QED BY <1>1, <2>1, <1>4, FS_RemoveElement DEF Before, After
<1>5. CASE /\ ~(t \in S /\ f[t] \notin L /\ l \in L)
           /\ ~(t \in S /\ f[t] \in L /\ l \notin L)
  <2>1. After = Before
    BY <1>2, <1>5
  <2> QED BY <1>1, <2>1, <1>5
<1> QED BY <1>3, <1>4, <1>5

(* A thread at the labels L is counted.                                    *)
THEOREM CountPositive ==
    ASSUME NEW S, IsFiniteSet(S), NEW L, NEW f, NEW t \in S, f[t] \in L
    PROVE  Cardinality({x \in S : f[x] \in L}) > 0
<1> DEFINE T == {x \in S : f[x] \in L}
<1>1. IsFiniteSet(T) /\ T # {}
  BY FS_Subset, T \in SUBSET S
<1>2. Cardinality(T) \in Nat /\ Cardinality(T) # 0
  BY <1>1, FS_EmptySet, FS_CardinalityType
<1> QED BY <1>2

(* Nobody at the labels L: the count is zero.                              *)
THEOREM CountZero ==
    ASSUME NEW S, NEW L, NEW f, \A t \in S : f[t] \notin L
    PROVE  Cardinality({x \in S : f[x] \in L}) = 0
<1>1. {x \in S : f[x] \in L} = {}
  OBVIOUS
<1> QED BY <1>1, FS_EmptySet
-----------------------------------------------------------------------------
(* Every nonempty set of numbers has a least one.                          *)
LEMMA LeastNat ==
    ASSUME NEW T, T \subseteq Nat, T # {}
    PROVE  \E x \in T : \A y \in T : x <= y
<1> DEFINE R == OpToRel(<, Nat)
<1>1. IsWellFoundedOn(R, Nat)
  BY NatLessThanWellFounded
<1>2. PICK x \in T : \A y \in T : ~ (<<y, x>> \in R)
  <2> HIDE DEF R
  <2> QED BY <1>1, WFMin
<1>3. \A y \in T : x <= y
  <2> SUFFICES ASSUME NEW y \in T PROVE x <= y
    OBVIOUS
  <2>1. x \in Nat /\ y \in Nat
    OBVIOUS
  <2>2. ~ (<<y, x>> \in {ss \in Nat \X Nat : ss[1] < ss[2]})
    BY <1>2 DEF OpToRel
  <2> QED BY <2>1, <2>2
<1> QED BY <1>3

(* Induction up to N over a set.                                           *)
LEMMA InductionTo ==
    ASSUME NEW N \in Nat, NEW S, 0 \in S, \A n \in 1 .. N : n - 1 \in S => n \in S
    PROVE  \A n \in 0 .. N : n \in S
<1> DEFINE T == {n \in 0 .. N : n \notin S}
<1>1. SUFFICES ASSUME T # {} PROVE FALSE
  OBVIOUS
<1>2. T \subseteq Nat
  OBVIOUS
<1>3. PICK m \in T : \A y \in T : m <= y
  <2> HIDE DEF T
  <2> QED BY <1>1, <1>2, LeastNat
<1>4. m \in 1 .. N /\ m - 1 \in 0 .. N /\ m - 1 \notin T
  BY <1>3
<1> QED BY <1>3, <1>4

(* The values of g up to N are computed each from the one before.          *)
Computes(g, a, H, N) == g[0] = a /\ \A n \in 1 .. N : g[n] = H[n][g[n - 1]]

(* There is such a g, whatever H does with the values.                     *)
LEMMA RecursionTo ==
    ASSUME NEW N \in Nat, NEW V, NEW a \in V, NEW H \in [1 .. N -> [V -> V]]
    PROVE  \E g \in [0 .. N -> V] : Computes(g, a, H, N)
<1> DEFINE S == {m \in 0 .. N : \E g \in [0 .. m -> V] : Computes(g, a, H, m)}
<1>1. 0 \in S
  <2> DEFINE h == [x \in 0 .. 0 |-> a]
  <2>1. h \in [0 .. 0 -> V] /\ Computes(h, a, H, 0) /\ 0 \in 0 .. N
    BY DEF Computes
  <2> HIDE DEF h
  <2> QED BY <2>1
<1>2. \A m \in 1 .. N : m - 1 \in S => m \in S
  <2> SUFFICES ASSUME NEW m \in 1 .. N, m - 1 \in S PROVE m \in S
    OBVIOUS
  <2>1. PICK g \in [0 .. m - 1 -> V] : Computes(g, a, H, m - 1)
    OBVIOUS
  <2> DEFINE h == [n \in 0 .. m |-> IF n = m THEN H[m][g[m - 1]] ELSE g[n]]
  <2>2. m - 1 \in 0 .. m - 1 /\ H[m] \in [V -> V]
    OBVIOUS
  <2>3. h \in [0 .. m -> V]
    BY <2>2
  <2>4. Computes(h, a, H, m)
    BY <2>1 DEF Computes
  <2> HIDE DEF h
  <2> QED BY <2>3, <2>4
<1> HIDE DEF S
<1>3. \A m \in 0 .. N : m \in S
  BY <1>1, <1>2, InductionTo
<1> QED BY <1>3 DEF S
-----------------------------------------------------------------------------
(* Rings: a sequence kept in the slots 0 .. N - 1 of a function.           *)

(* x modulo N without the division, for an x that is less than 2 N.        *)
LEMMA ModOnce ==
    ASSUME NEW N \in Nat \ {0}, NEW x \in Nat, x < N + N
    PROVE  x % N = (IF x < N THEN x ELSE x - N)
<1>1. CASE x < N
  BY <1>1
<1>2. CASE x >= N
  <2>1. x = N + (x - N) /\ x - N \in 0 .. N - 1
    BY <1>2
  <2> QED BY <1>2, <2>1
<1> QED BY <1>1, <1>2

(* The n slots of the ring f of N slots from h on: the k-th of them, that  *)
(* each holds something of S, and what they hold, as a sequence.           *)
Cell(f, h, k, N) == f[(h + k - 1) % N]
Cells(f, h, n, N, S) == \A k \in 1 .. n : Cell(f, h, k, N) \in S
Window(f, h, n, N) == [k \in 1 .. n |-> f[(h + k - 1) % N]]

(* It is a sequence.                                                       *)
LEMMA WindowSeq ==
    ASSUME NEW S, NEW N, NEW f, NEW h, NEW n \in Nat, Cells(f, h, n, N, S)
    PROVE  /\ Window(f, h, n, N) \in Seq(S) /\ Len(Window(f, h, n, N)) = n
           /\ \A k \in 1 .. n : Window(f, h, n, N)[k] = Cell(f, h, k, N)
<1>1. Window(f, h, n, N) \in [1 .. n -> S]
  BY DEF Window, Cell, Cells
<1> QED BY <1>1 DEF Window, Cell

(* One slot more at the end.                                               *)
LEMMA WindowGrows ==
    ASSUME NEW S, NEW N, NEW f, NEW h, NEW n \in Nat, Cells(f, h, n + 1, N, S)
    PROVE  Window(f, h, n + 1, N) = Append(Window(f, h, n, N), Cell(f, h, n + 1, N))
<1> DEFINE old == Window(f, h, n, N)
           m == n + 1
           new == Window(f, h, m, N)
           e == Cell(f, h, m, N)
<1>1. e \in S
  BY DEF Cells
<1>2. /\ old \in Seq(S) /\ Len(old) = n
      /\ \A k \in 1 .. n : old[k] = Cell(f, h, k, N)
  <2>1. Cells(f, h, n, N, S)
    BY DEF Cells
  <2> QED BY <2>1, WindowSeq
<1>3. /\ new \in Seq(S) /\ Len(new) = m
      /\ \A k \in 1 .. m : new[k] = Cell(f, h, k, N)
  <2>1. Cells(f, h, m, N, S) /\ m \in Nat
    OBVIOUS
  <2> HIDE DEF m
  <2> QED BY <2>1, WindowSeq
<1> HIDE DEF old, new, e
<1>5. /\ Append(old, e) \in Seq(S) /\ Len(Append(old, e)) = m
      /\ \A k \in 1 .. m : Append(old, e)[k] = IF k = m THEN e ELSE old[k]
  BY <1>1, <1>2, AppendProperties
<1>6. ASSUME NEW k \in 1 .. m PROVE new[k] = Append(old, e)[k]
  <2>1. CASE k = m
    BY <1>3, <1>5, <2>1 DEF e
  <2>2. CASE k # m
    BY <1>2, <1>3, <1>5, <2>2
  <2> QED BY <2>1, <2>2
<1>7. new = Append(old, e)
  BY <1>3, <1>5, <1>6, SeqEqual
<1> QED BY <1>7 DEF old, new, e

(* One slot less at the beginning.                                         *)
LEMMA WindowHead ==
    ASSUME NEW S, NEW N \in Nat \ {0}, NEW f, NEW h \in 0 .. N - 1, NEW n \in 1 .. N,
           Cells(f, h, n, N, S)
    PROVE  Window(f, h, n, N) # <<>> /\ Head(Window(f, h, n, N)) = f[h]
<1> DEFINE old == Window(f, h, n, N)
<1>1. /\ old \in Seq(S) /\ Len(old) = n
      /\ \A k \in 1 .. n : old[k] = Cell(f, h, k, N)
  BY WindowSeq
<1>2. old[1] = f[h]
  <2>1. h + 1 - 1 = h /\ h % N = h
    OBVIOUS
  <2>2. Cell(f, h, 1, N) = f[h]
    BY <2>1 DEF Cell
  <2> HIDE DEF old
  <2> QED BY <1>1, <2>2
<1> HIDE DEF old
<1>3. old # <<>> /\ Head(old) = f[h]
  BY <1>1, <1>2
<1> QED BY <1>3 DEF old

LEMMA WindowTail ==
    ASSUME NEW S, NEW N \in Nat \ {0}, NEW f, NEW h \in 0 .. N - 1, NEW n \in 1 .. N,
           Cells(f, h, n, N, S),
           NEW i, i = (h + 1) % N, NEW m, m = n - 1
    PROVE  Window(f, i, m, N) = Tail(Window(f, h, n, N))
<1> DEFINE old == Window(f, h, n, N)
           new == Window(f, i, m, N)
<1>1. i = (IF h + 1 < N THEN h + 1 ELSE h + 1 - N) /\ i \in 0 .. N - 1
  <2>1. h + 1 \in Nat /\ h + 1 < N + N
    OBVIOUS
  <2> DEFINE x == h + 1
  <2> HIDE DEF x
  <2>2. x % N = (IF x < N THEN x ELSE x - N)
    BY <2>1, ModOnce DEF x
  <2> QED BY <2>1, <2>2 DEF x
<1>2. ASSUME NEW k \in 1 .. m
      PROVE  Cell(f, i, k, N) = Cell(f, h, k + 1, N) /\ k + 1 \in 1 .. n
  <2> DEFINE a == i + k - 1
             b == h + (k + 1) - 1
  <2>1. a \in Nat /\ b \in Nat /\ a < N + N /\ b < N + N /\ (a = b \/ b = a + N)
    BY <1>1
  <2> HIDE DEF a, b
  <2>2. /\ a % N = IF a < N THEN a ELSE a - N
        /\ b % N = IF b < N THEN b ELSE b - N
    BY <2>1, ModOnce
  <2>3. a % N = b % N
    BY <2>1, <2>2
  <2> QED BY <2>3 DEF a, b, Cell
<1>3. m \in Nat
  OBVIOUS
<1>4. /\ old \in Seq(S) /\ Len(old) = n
      /\ \A k \in 1 .. n : old[k] = Cell(f, h, k, N)
  BY WindowSeq
<1>5. /\ new \in Seq(S) /\ Len(new) = m
      /\ \A k \in 1 .. m : new[k] = Cell(f, i, k, N)
  <2>1. Cells(f, i, m, N, S)
    BY <1>2 DEF Cells
  <2> QED BY <1>3, <2>1, WindowSeq
<1> HIDE DEF old, new
<1>6. old # <<>>
  BY <1>4
<1>7. /\ Tail(old) \in Seq(S) /\ Len(Tail(old)) = m
      /\ \A k \in 1 .. m : Tail(old)[k] = old[k + 1]
  BY <1>4, <1>6, HeadTailProperties
<1>8. \A k \in 1 .. m : new[k] = Tail(old)[k]
  BY <1>2, <1>4, <1>5, <1>7
<1>9. new = Tail(old)
  BY <1>5, <1>7, <1>8, SeqEqual
<1> QED BY <1>9 DEF old, new
=============================================================================
