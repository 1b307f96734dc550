----------------------- MODULE MemoryAllocatorProofs -----------------------
(***************************************************************************)
(* The invariants of the contiguous memory allocator of Project-7, for     *)
(* every size of the memory, any width of size_t, any processes and any    *)
(* finite set of nodes.                                                    *)
(*                                                                         *)
(* The blocks that are allocated are written as a sequence L: Linked says  *)
(* that the pointers are those of L, Tiled that the blocks cover the       *)
(* memory one after the other, NoHoles that no two unused ones are side by *)
(* side.  The inductive invariant is that there is such an L.              *)
(*                                                                         *)
(* release_memory and compact_memory are loops that remove nodes from the  *)
(* list they walk along.  Each is proved in three parts: what one turn     *)
(* does to the list (ReleaseStep, CompactStep), that the loop is a         *)
(* sequence of such turns (ReleaseTurns, CompactTurns), and what holds     *)
(* when it ends, by induction over the blocks it has passed (ReleaseLoop,  *)
(* CompactLoop); the three loops of request_memory likewise.               *)
(*                                                                         *)
(* The names are followed through the same proofs as the owners o of the   *)
(* bytes: Owned says that every block carries the name that o gives its    *)
(* bytes, Freed and Packing what has become of o half-way through a        *)
(* release and a compaction, Granted what a request makes of it.  The      *)
(* last section reads the results as steps of AddressSpace.                *)
(***************************************************************************)
EXTENDS MemoryAllocator, Counting, FunctionTheorems

(* What a heap is, whatever its blocks hold.                               *)
Blocks == [lo : 0 .. SIZE_MAX, hi : 0 .. SIZE_MAX, name : Processes \cup {NULL},
           prev : Nodes \cup {NULL}, next : Nodes \cup {NULL}]
Heaps == [block : [Nodes -> Blocks], live : SUBSET Nodes, mem : Nodes]

(* The address after the last byte of a block, and its length.             *)
End(x) == Wrap(x.hi + 1)
Length(x) == Wrap(x.hi - x.lo + 1)

(* The blocks that are allocated are L[1], ..., L[n], linked both ways.    *)
Linked(h, L, n) ==
    /\ n \in Nat \ {0} /\ L \in [1 .. n -> Nodes]
    /\ \A i, j \in 1 .. n : L[i] = L[j] => i = j
    /\ h.live = {L[i] : i \in 1 .. n}
    /\ \A i \in 1 .. n : h.block[L[i]].next = IF i = n THEN NULL ELSE L[i + 1]
    /\ \A i \in 1 .. n : h.block[L[i]].prev = IF i = 1 THEN NULL ELSE L[i - 1]

(* Each begins where the one before it ends.                               *)
Tiled(h, L, n, size) ==
    /\ h.block[L[1]].lo = 0 /\ End(h.block[L[n]]) = size
    /\ \A i \in 1 .. n : h.block[L[i]].lo <= End(h.block[L[i]]) /\ End(h.block[L[i]]) <= size
    /\ \A i \in 1 .. n - 1 : h.block[L[i + 1]].lo = End(h.block[L[i]])

(* The list without its k-th block.                                        *)
Without(L, n, k) == [i \in 1 .. n - 1 |-> IF i < k THEN L[i] ELSE L[i + 1]]

(* A byte is in a block; each byte of the blocks of a list has the owner   *)
(* that o says.                                                            *)
Covers(x, a) == x.lo <= a /\ a < End(x)
Owned(h, L, n, o) ==
    \A i \in 1 .. n, a \in DOMAIN o :
        Covers(h.block[L[i]], a) => o[a] = h.block[L[i]].name
-----------------------------------------------------------------------------
(* Arithmetic of size_t.                                                   *)

(* x modulo SIZE_MOD for an x that wraps around at most once.              *)
LEMMA WrapValue ==
    ASSUME NEW x \in Int, 0 - SIZE_MOD <= x, x < SIZE_MOD + SIZE_MOD
    PROVE  Wrap(x) = IF x < 0 THEN x + SIZE_MOD ELSE IF x < SIZE_MOD THEN x ELSE x - SIZE_MOD
<1> DEFINE N == SIZE_MOD
<1>1. N \in Nat \ {0}
  BY AllocatorAssumption
<1>2. CASE x >= 0
  <2>1. x \in Nat /\ x < N + N
    BY <1>2
  <2> HIDE DEF N
  <2>2. x % N = IF x < N THEN x ELSE x - N
    BY <1>1, <2>1, ModOnce
  <2> QED BY <1>2, <2>2 DEF Wrap, N
<1> HIDE DEF N
<1>3. CASE x < 0
  <2>1. x + N \in 0 .. N - 1 /\ x = (-1) * N + (x + N)
    BY <1>1, <1>3 DEF N
  <2>2. x % N = x + N
    BY <1>1, <2>1
  <2> QED BY <1>3, <2>2 DEF Wrap, N
<1> QED BY <1>2, <1>3

(* A hi of a byte before address e, for an e from 0 on.                    *)
LEMMA EndOfHi ==
    ASSUME NEW e \in 0 .. SIZE_MOD - 1
    PROVE  /\ Wrap(e - 1) \in 0 .. SIZE_MAX
           /\ Wrap(Wrap(e - 1) + 1) = e
<1>1. Wrap(e - 1) = IF e = 0 THEN SIZE_MOD - 1 ELSE e - 1
  BY WrapValue, AllocatorAssumption
<1>2. Wrap(e - 1) + 1 \in Nat /\ Wrap(e - 1) + 1 < SIZE_MOD + SIZE_MOD
  BY <1>1, AllocatorAssumption
<1>3. Wrap(Wrap(e - 1) + 1)
          = IF Wrap(e - 1) + 1 < SIZE_MOD THEN Wrap(e - 1) + 1 ELSE Wrap(e - 1) + 1 - SIZE_MOD
  BY <1>2, WrapValue, AllocatorAssumption
<1> QED BY <1>1, <1>3, AllocatorAssumption DEF SIZE_MAX

(* hi and the size of a block in terms of where it ends.                   *)
LEMMA EndOfBlock ==
    ASSUME NEW x \in Blocks
    PROVE  /\ End(x) \in 0 .. SIZE_MAX
           /\ x.hi = IF End(x) = 0 THEN SIZE_MOD - 1 ELSE End(x) - 1
           /\ x.lo <= End(x) /\ End(x) <= SIZE_MOD - 2 => Length(x) = End(x) - x.lo
<1>1. x.hi \in 0 .. SIZE_MOD - 1 /\ x.lo \in 0 .. SIZE_MOD - 1
  BY DEF Blocks, SIZE_MAX
<1>2. End(x) = IF x.hi + 1 < SIZE_MOD THEN x.hi + 1 ELSE 0
  BY <1>1, WrapValue, AllocatorAssumption DEF End
<1>3. End(x) \in 0 .. SIZE_MAX /\ x.hi = IF End(x) = 0 THEN SIZE_MOD - 1 ELSE End(x) - 1
  BY <1>1, <1>2, AllocatorAssumption DEF SIZE_MAX
<1>4. ASSUME x.lo <= End(x), End(x) <= SIZE_MOD - 2
      PROVE  Length(x) = End(x) - x.lo
  <2> DEFINE y == x.hi - x.lo + 1
  <2>1. y \in Int /\ 0 - SIZE_MOD <= y /\ y < SIZE_MOD + SIZE_MOD
    BY <1>1, AllocatorAssumption
  <2> HIDE DEF y
  <2>2. Wrap(y) = IF y < 0 THEN y + SIZE_MOD ELSE IF y < SIZE_MOD THEN y ELSE y - SIZE_MOD
    BY <2>1, WrapValue
  <2> QED BY <1>1, <1>3, <1>4, <2>2, AllocatorAssumption DEF y, Length
<1> QED BY <1>3, <1>4

-----------------------------------------------------------------------------
(* Blocks and addresses.                                                   *)

(* What a heap is made of.                                                 *)
LEMMA HeapType ==
    ASSUME NEW h \in Heaps
    PROVE  /\ h.block \in [Nodes -> Blocks] /\ h.live \in SUBSET Nodes /\ h.mem \in Nodes
           /\ \A b \in Nodes : /\ h.block[b] \in Blocks
                               /\ h.block[b].lo \in 0 .. SIZE_MAX /\ h.block[b].hi \in 0 .. SIZE_MAX
                               /\ h.block[b].name \in Processes \cup {NULL}
                               /\ h.block[b].prev \in Nodes \cup {NULL}
                               /\ h.block[b].next \in Nodes \cup {NULL}
           /\ \A x \in [Nodes -> Blocks], l \in SUBSET Nodes, m \in Nodes :
                  [mem |-> m, live |-> l, block |-> x] \in Heaps
<1>1. h.block \in [Nodes -> Blocks] /\ h.live \in SUBSET Nodes /\ h.mem \in Nodes
  BY DEF Heaps
<1>2. ASSUME NEW b \in Nodes
      PROVE  /\ h.block[b] \in Blocks
             /\ h.block[b].lo \in 0 .. SIZE_MAX /\ h.block[b].hi \in 0 .. SIZE_MAX
             /\ h.block[b].name \in Processes \cup {NULL}
             /\ h.block[b].prev \in Nodes \cup {NULL}
             /\ h.block[b].next \in Nodes \cup {NULL}
  <2>1. h.block[b] \in Blocks
    BY <1>1
  <2> QED BY <2>1 DEF Blocks
<1>3. \A x \in [Nodes -> Blocks], l \in SUBSET Nodes, m \in Nodes :
          [mem |-> m, live |-> l, block |-> x] \in Heaps
  BY DEF Heaps
<1> QED BY <1>1, <1>2, <1>3

(* The sizes of blocks in a list, which are at most that of the memory.    *)
LEMMA SizeInList ==
    ASSUME NEW L, NEW n, NEW size \in 0 .. SIZE_MOD - 2, NEW h,
           h \in Heaps, Linked(h, L, n), Tiled(h, L, n, size), NEW j \in 1 .. n,
           NEW x, x = h.block[L[j]]
    PROVE  /\ x \in Blocks /\ x.lo \in Nat /\ End(x) \in Nat /\ End(x) <= size /\ x.lo <= End(x)
           /\ Length(x) = End(x) - x.lo
           /\ End(x) - x.lo \in 0 .. size
<1>1. x \in Blocks
  BY HeapType DEF Linked
<1>2. x.lo <= End(x) /\ End(x) <= size
  BY DEF Tiled
<1>3. x.lo \in Nat /\ End(x) \in 0 .. SIZE_MAX
  BY <1>1, EndOfBlock, AllocatorAssumption DEF Blocks, SIZE_MAX
<1>4. End(x) <= SIZE_MOD - 2
  BY <1>2, <1>3, AllocatorAssumption DEF SIZE_MAX
<1>5. Length(x) = End(x) - x.lo
  BY <1>1, <1>2, <1>4, EndOfBlock
<1>6. End(x) \in Nat /\ End(x) - x.lo \in 0 .. size
  BY <1>2, <1>3, AllocatorAssumption DEF SIZE_MAX
<1> QED BY <1>1, <1>2, <1>3, <1>5, <1>6

(* The blocks of a list are at growing addresses.                          *)
LEMMA ListAscends ==
    ASSUME NEW h \in Heaps, NEW L, NEW n, NEW size \in 0 .. SIZE_MOD - 2,
           Linked(h, L, n), Tiled(h, L, n, size)
    PROVE  \A j, k \in 1 .. n : j < k => End(h.block[L[j]]) <= h.block[L[k]].lo
<1> DEFINE lo(i) == h.block[L[i]].lo
           to(i) == End(h.block[L[i]])
<1>1. n \in Nat \ {0}
  BY DEF Linked
<1>2. \A i \in 1 .. n : lo(i) \in Nat /\ to(i) \in Nat /\ lo(i) <= to(i)
  <2> SUFFICES ASSUME NEW i \in 1 .. n PROVE lo(i) \in Nat /\ to(i) \in Nat /\ lo(i) <= to(i)
    OBVIOUS
  <2>1. PICK x : x = h.block[L[i]]
    OBVIOUS
  <2>2. x.lo \in Nat /\ End(x) \in Nat /\ x.lo <= End(x)
    BY <2>1, SizeInList
  <2> QED BY <2>1, <2>2
<1>3. \A i \in 1 .. n - 1 : lo(i + 1) = to(i)
  BY DEF Tiled
<1> HIDE DEF lo, to
<1>4. SUFFICES ASSUME NEW j \in 1 .. n PROVE \A k \in 1 .. n : j < k => to(j) <= lo(k)
  BY DEF lo, to
<1> DEFINE S == {k \in 0 .. n : k \in 1 .. n /\ j < k => to(j) <= lo(k)}
<1>5. 0 \in S
  BY <1>1
<1>6. ASSUME NEW k \in 1 .. n, k - 1 \in S PROVE k \in S
  <2> SUFFICES ASSUME j < k PROVE to(j) <= lo(k)
    BY <1>1
  <2> DEFINE i == k - 1
  <2>1. i \in 1 .. n - 1 /\ i \in 1 .. n /\ i + 1 = k /\ j <= i
    BY <1>1
  <2>2. j < i => to(j) <= lo(i)
    BY <1>6, <2>1
  <2> HIDE DEF i
  <2>3. lo(k) = to(i) /\ lo(i) <= to(i) /\ lo(i) \in Nat /\ to(i) \in Nat /\ to(j) \in Nat
    BY <1>2, <1>3, <2>1
  <2> QED BY <2>1, <2>2, <2>3
<1> HIDE DEF S
<1>7. \A k \in 0 .. n : k \in S
  BY <1>1, <1>5, <1>6, InductionTo
<1>8. \A k \in 1 .. n : k \in S
  BY <1>1, <1>7
<1> QED BY <1>8 DEF S

(* Every address below size is in exactly one block of the list.           *)
LEMMA OneBlockAt ==
    ASSUME NEW h \in Heaps, NEW L, NEW n, NEW size \in 0 .. SIZE_MOD - 2,
           Linked(h, L, n), Tiled(h, L, n, size)
    PROVE  /\ \A x \in 0 .. size - 1 : \E i \in 1 .. n : Covers(h.block[L[i]], x)
           /\ \A i, k \in 1 .. n, x \in Int :
                  Covers(h.block[L[i]], x) /\ Covers(h.block[L[k]], x) => i = k
<1> DEFINE lo(i) == h.block[L[i]].lo
           to(i) == End(h.block[L[i]])
<1>1. n \in Nat \ {0} /\ size \in Nat
  BY AllocatorAssumption DEF Linked
<1>2. \A i \in 1 .. n : lo(i) \in Nat /\ to(i) \in Nat
  <2> SUFFICES ASSUME NEW i \in 1 .. n PROVE lo(i) \in Nat /\ to(i) \in Nat
    OBVIOUS
  <2>1. PICK x : x = h.block[L[i]]
    OBVIOUS
  <2>2. x.lo \in Nat /\ End(x) \in Nat
    BY <2>1, SizeInList
  <2> QED BY <2>1, <2>2
<1>3. /\ \A i \in 1 .. n - 1 : lo(i + 1) = to(i)
      /\ lo(1) = 0 /\ to(n) = size
  BY DEF Tiled
<1>4. \A j, k \in 1 .. n : j < k => to(j) <= lo(k)
  BY ListAscends
<1>5. \A i \in 1 .. n : \A x : Covers(h.block[L[i]], x) <=> lo(i) <= x /\ x < to(i)
  BY DEF Covers
<1> HIDE DEF lo, to
<1>6. ASSUME NEW x \in 0 .. size - 1 PROVE \E i \in 1 .. n : Covers(h.block[L[i]], x)
  <2> DEFINE T == {i \in 1 .. n : x < to(i)}
  <2>1. n \in T /\ T \subseteq Nat
    BY <1>1, <1>3
  <2>2. PICK i \in T : \A y \in T : i <= y
    <3> HIDE DEF T
    <3> QED BY <2>1, LeastNat
  <2>3. lo(i) <= x
    <3>1. CASE i = 1
      BY <1>1, <1>3, <3>1
    <3>2. CASE i # 1
      <4> DEFINE k == i - 1
      <4>1. k \in 1 .. n - 1 /\ k \in 1 .. n /\ k + 1 = i /\ k < i
        BY <1>1, <3>2
      <4>2. k \notin T
        BY <2>2, <4>1
      <4> HIDE DEF k
      <4>3. ~(x < to(k)) /\ to(k) \in Nat /\ lo(i) = to(k)
        BY <1>2, <1>3, <4>1, <4>2
      <4> QED BY <1>1, <4>3
    <3> QED BY <3>1, <3>2
  <2> QED BY <1>5, <2>2, <2>3
<1>7. ASSUME NEW i \in 1 .. n, NEW k \in 1 .. n, NEW x \in Int,
             Covers(h.block[L[i]], x), Covers(h.block[L[k]], x)
      PROVE  i = k
  <2>1. lo(i) <= x /\ x < to(i) /\ lo(k) <= x /\ x < to(k)
    BY <1>5, <1>7
  <2>2. lo(i) \in Nat /\ to(i) \in Nat /\ lo(k) \in Nat /\ to(k) \in Nat
    BY <1>2
  <2>3. ~(i < k) /\ ~(k < i)
    BY <1>4, <2>1, <2>2
  <2> QED BY <1>1, <2>3
<1> QED BY <1>6, <1>7

(* OwnerOf, of a heap: the name of the block that covers the byte.         *)
OwnerIn(h, x) ==
    LET covers == {b \in h.live : /\ h.block[b].lo <= x /\ x <= h.block[b].hi
                                  /\ Length(h.block[b]) > 0}
    IN h.block[CHOOSE b \in covers : TRUE].name

LEMMA InBlock ==
    ASSUME NEW z \in Blocks, z.lo <= End(z), End(z) <= SIZE_MOD - 2,
           NEW x \in Nat, x <= SIZE_MOD - 2
    PROVE  z.lo <= x /\ x <= z.hi /\ Length(z) > 0 <=> Covers(z, x)
<1>1. z.lo \in Nat /\ End(z) \in Nat
  BY EndOfBlock, AllocatorAssumption DEF Blocks, SIZE_MAX
<1>2. Length(z) = End(z) - z.lo /\ z.hi = IF End(z) = 0 THEN SIZE_MOD - 1 ELSE End(z) - 1
  BY EndOfBlock
<1> QED BY <1>1, <1>2, AllocatorAssumption DEF Covers

LEMMA OwnerIsName ==
    ASSUME NEW h \in Heaps, NEW L, NEW n, NEW size \in 0 .. SIZE_MOD - 2,
           Linked(h, L, n), Tiled(h, L, n, size),
           NEW i \in 1 .. n, NEW x \in 0 .. size - 1, Covers(h.block[L[i]], x)
    PROVE  OwnerIn(h, x) = h.block[L[i]].name
<1> DEFINE In(z) == z.lo <= x /\ x <= z.hi /\ Length(z) > 0
           covers == {b \in h.live : In(h.block[b])}
<1>1. x \in Nat /\ size \in Nat
  BY AllocatorAssumption
<1>2. ASSUME NEW k \in 1 .. n PROVE In(h.block[L[k]]) <=> Covers(h.block[L[k]], x)
  <2>1. PICK z : z = h.block[L[k]]
    OBVIOUS
  <2>2. z \in Blocks
    BY <2>1, SizeInList
  <2>3. End(z) \in Nat /\ End(z) <= size /\ z.lo <= End(z)
    BY <2>1, SizeInList
  <2>4. End(z) <= SIZE_MOD - 2 /\ x <= SIZE_MOD - 2
    BY <1>1, <2>3, AllocatorAssumption
  <2>5. In(z) <=> Covers(z, x)
    BY <1>1, <2>2, <2>3, <2>4, InBlock
  <2> QED BY <2>1, <2>5
<1> HIDE DEF In
<1>3. h.live = {L[k] : k \in 1 .. n}
  BY DEF Linked
<1>4. ASSUME NEW b \in covers PROVE b = L[i]
  <2>1. PICK k \in 1 .. n : b = L[k]
    BY <1>3
  <2>2. Covers(h.block[L[k]], x)
    BY <1>2, <2>1
  <2>3. k = i
    BY <1>1, <2>2, OneBlockAt
  <2> QED BY <2>1, <2>3
<1>5. L[i] \in covers
  BY <1>2, <1>3
<1>6. OwnerIn(h, x) = h.block[CHOOSE b \in covers : TRUE].name
  BY DEF OwnerIn, In
<1> HIDE DEF covers
<1>7. (CHOOSE b \in covers : TRUE) = L[i]
  BY <1>4, <1>5
<1> QED BY <1>6, <1>7

(* So there is one way only to say who owns the bytes.                     *)
LEMMA OwnedIs ==
    ASSUME NEW h \in Heaps, NEW L, NEW n, NEW size \in 0 .. SIZE_MOD - 2,
           Linked(h, L, n), Tiled(h, L, n, size), NEW o, DOMAIN o = 0 .. size - 1
    PROVE  Owned(h, L, n, o) <=> \A x \in 0 .. size - 1 : o[x] = OwnerIn(h, x)
<1>1. ASSUME Owned(h, L, n, o), NEW x \in 0 .. size - 1 PROVE o[x] = OwnerIn(h, x)
  <2>1. PICK i \in 1 .. n : Covers(h.block[L[i]], x)
    BY OneBlockAt
  <2> QED BY <1>1, <2>1, OwnerIsName DEF Owned
<1>2. ASSUME \A x \in 0 .. size - 1 : o[x] = OwnerIn(h, x) PROVE Owned(h, L, n, o)
  <2> SUFFICES ASSUME NEW i \in 1 .. n, NEW x \in 0 .. size - 1, Covers(h.block[L[i]], x)
               PROVE  o[x] = h.block[L[i]].name
    BY DEF Owned
  <2>1. OwnerIn(h, x) = h.block[L[i]].name
    BY OwnerIsName
  <2> QED BY <1>2, <2>1
<1> QED BY <1>1, <1>2
-----------------------------------------------------------------------------
(* What Absorb, Mark and Swap do to a list.                                *)

(* Absorb takes the block before the j-th out of the list.                 *)
LEMMA AbsorbStep ==
    ASSUME NEW h \in Heaps, NEW L, NEW n, NEW size \in Nat,
           Linked(h, L, n), Tiled(h, L, n, size), NEW j \in 2 .. n, NEW g, g = Absorb(h, L[j])
    PROVE  /\ g \in Heaps /\ g.mem = h.mem
           /\ Linked(g, Without(L, n, j - 1), n - 1) /\ Tiled(g, Without(L, n, j - 1), n - 1, size)
           /\ \A i \in 1 .. n : i # j - 1 =>
                  /\ g.block[L[i]].name = h.block[L[i]].name
                  /\ End(g.block[L[i]]) = End(h.block[L[i]])
                  /\ g.block[L[i]].lo = h.block[IF i = j THEN L[j - 1] ELSE L[i]].lo
<1> DEFINE K == Without(L, n, j - 1)
           c == L[j]
           p == L[j - 1]
           before == IF j = 2 THEN NULL ELSE L[j - 2]
<1>1. /\ n \in Nat /\ n >= 2 /\ j - 1 \in 1 .. n /\ j \in 1 .. n
      /\ c \in Nodes /\ p \in Nodes /\ c # p
      /\ h.block[c].prev = p /\ h.block[p].prev = before
      /\ h.block \in [Nodes -> Blocks] /\ h.live \subseteq Nodes /\ h.mem \in Nodes
      /\ \A b \in Nodes : h.block[b] \in Blocks
  BY DEF Linked, Heaps
<1>2. /\ before = NULL <=> j = 2
      /\ before # NULL => before \in Nodes /\ before # c /\ before # p
      /\ NULL \notin Nodes
  BY <1>1, AllocatorAssumption DEF Linked
<1>3. /\ g.mem = h.mem /\ g.live = h.live \ {p}
      /\ g \in Heaps
      /\ g.block[c] = [h.block[c] EXCEPT !.prev = before, !.lo = h.block[p].lo]
      /\ \A b \in Nodes : b # c /\ b # p => g.block[b] =
             IF b = before THEN [h.block[b] EXCEPT !.next = c] ELSE h.block[b]
  <2> DEFINE F(b) == CASE b = p -> Blank
                       [] b = c -> [h.block[b] EXCEPT !.prev = before, !.lo = h.block[p].lo]
                       [] b = before /\ b \notin {p, c} -> [h.block[b] EXCEPT !.next = c]
                       [] OTHER -> h.block[b]
  <2>1. g = [mem |-> h.mem, live |-> h.live \ {p}, block |-> [b \in Nodes |-> F(b)]]
    BY <1>1 DEF Absorb
  <2>2. F(p) = Blank /\ F(c) = [h.block[c] EXCEPT !.prev = before, !.lo = h.block[p].lo]
    BY <1>1, <1>2
  <2>3. \A b \in Nodes : b # c /\ b # p => F(b) =
             IF b = before THEN [h.block[b] EXCEPT !.next = c] ELSE h.block[b]
    OBVIOUS
  <2> HIDE DEF F
  <2>4. F(p) \in Blocks
    BY <2>2, AllocatorAssumption DEF Blank, Blocks, SIZE_MAX
  <2>5. F(c) \in Blocks
    BY <1>1, <1>2, <2>2 DEF Blocks
  <2>6. \A b \in Nodes : b # c /\ b # p => F(b) \in Blocks
    BY <1>1, <1>2, <2>3 DEF Blocks
  <2>7. [b \in Nodes |-> F(b)] \in [Nodes -> Blocks]
    BY <2>4, <2>5, <2>6
  <2>8. g \in Heaps
    BY <1>1, <2>1, <2>7 DEF Heaps
  <2> QED BY <1>1, <2>1, <2>2, <2>3, <2>8
<1>4. \A i \in 1 .. n : i # j - 1 =>
          /\ g.block[L[i]].name = h.block[L[i]].name
          /\ g.block[L[i]].hi = h.block[L[i]].hi
          /\ g.block[L[i]].lo = h.block[IF i = j THEN p ELSE L[i]].lo
          /\ g.block[L[i]].prev = IF i = j THEN before ELSE h.block[L[i]].prev
          /\ g.block[L[i]].next = IF i = j - 2 THEN c ELSE h.block[L[i]].next
  <2> SUFFICES ASSUME NEW i \in 1 .. n, i # j - 1
               PROVE /\ g.block[L[i]].name = h.block[L[i]].name
                     /\ g.block[L[i]].hi = h.block[L[i]].hi
                     /\ g.block[L[i]].lo = h.block[IF i = j THEN p ELSE L[i]].lo
                     /\ g.block[L[i]].prev = IF i = j THEN before ELSE h.block[L[i]].prev
                     /\ g.block[L[i]].next = IF i = j - 2 THEN c ELSE h.block[L[i]].next
    OBVIOUS
  <2>1. L[i] \in Nodes /\ L[i] # p /\ h.block[L[i]] \in Blocks
    BY <1>1 DEF Linked
  <2>2. CASE i = j
    <3>1. /\ before \in Nodes \cup {NULL} /\ h.block[p] \in Blocks
          /\ g.block[c] = [h.block[c] EXCEPT !.prev = before, !.lo = h.block[p].lo]
          /\ h.block[c] \in Blocks /\ L[i] = c /\ i # j - 2
      BY <1>1, <1>2, <1>3, <2>2
    <3> HIDE DEF before, c, p
    <3> QED BY <2>2, <3>1 DEF Blocks
  <2>3. CASE i # j
    <3>1. L[i] # c /\ (L[i] = before <=> i = j - 2)
      BY <1>1, <1>2, <2>1, <2>3 DEF Linked
    <3> HIDE DEF before, c, p
    <3>2. g.block[L[i]] = IF i = j - 2 THEN [h.block[L[i]] EXCEPT !.next = c] ELSE h.block[L[i]]
      BY <1>3, <2>1, <3>1
    <3> QED BY <2>1, <2>3, <3>2 DEF Blocks
  <2> QED BY <2>2, <2>3
<1>5. K \in [1 .. n - 1 -> Nodes] /\ \A i \in 1 .. n - 1 : K[i] = IF i < j - 1 THEN L[i] ELSE L[i + 1]
  BY <1>1 DEF Linked, Without
<1> HIDE DEF K
<1>6. Linked(g, K, n - 1)
  <2>1. \A i, k \in 1 .. n - 1 : K[i] = K[k] => i = k
    BY <1>1, <1>5 DEF Linked
  <2>2. g.live = {K[i] : i \in 1 .. n - 1}
    <3>1. ASSUME NEW x \in g.live PROVE x \in {K[i] : i \in 1 .. n - 1}
      <4>1. PICK i \in 1 .. n : x = L[i] /\ i # j - 1
        BY <1>3 DEF Linked
      <4> DEFINE k == IF i < j - 1 THEN i ELSE i - 1
      <4>2. k \in 1 .. n - 1 /\ K[k] = x
        BY <1>1, <1>5, <4>1
      <4> QED BY <4>2
    <3>2. ASSUME NEW i \in 1 .. n - 1 PROVE K[i] \in g.live
      BY <1>1, <1>3, <1>5 DEF Linked
    <3> QED BY <3>1, <3>2
  <2>3. ASSUME NEW i \in 1 .. n - 1
        PROVE  g.block[K[i]].next = IF i = n - 1 THEN NULL ELSE K[i + 1]
    BY SMTT(30), <1>1, <1>4, <1>5 DEF Linked
  <2>4. ASSUME NEW i \in 1 .. n - 1
        PROVE  g.block[K[i]].prev = IF i = 1 THEN NULL ELSE K[i - 1]
    BY SMTT(30), <1>1, <1>4, <1>5 DEF Linked
  <2> QED BY <1>1, <1>5, <2>1, <2>2, <2>3, <2>4 DEF Linked
<1>7. Tiled(g, K, n - 1, size)
  <2>1. \A i \in 1 .. n : i # j - 1 => End(g.block[L[i]]) = End(h.block[L[i]])
    BY <1>4 DEF End
  <2>2. g.block[K[1]].lo = 0 /\ End(g.block[K[n - 1]]) = size
    BY <1>1, <1>4, <1>5, <2>1 DEF Tiled
  <2>3. \A i \in 1 .. n : /\ h.block[L[i]].lo \in Nat
                          /\ End(h.block[L[i]]) \in Nat
    <3> SUFFICES ASSUME NEW i \in 1 .. n PROVE h.block[L[i]].lo \in Nat /\ End(h.block[L[i]]) \in Nat
      OBVIOUS
    <3>1. h.block[L[i]] \in Blocks
      BY <1>1 DEF Linked
    <3> QED BY <3>1, EndOfBlock, AllocatorAssumption DEF Blocks, SIZE_MAX
  <2>4. ASSUME NEW i \in 1 .. n - 1
        PROVE  g.block[K[i]].lo <= End(g.block[K[i]]) /\ End(g.block[K[i]]) <= size
    <3>1. CASE i = j - 1
      <4>1. K[i] = c /\ g.block[c].lo = h.block[p].lo
        BY <1>1, <1>4, <1>5, <3>1
      <4>2. End(g.block[c]) = End(h.block[c])
        BY <1>1, <2>1
      <4>3. h.block[c].lo = End(h.block[p])
        BY <1>1 DEF Tiled
      <4>4. /\ h.block[p].lo <= End(h.block[p]) /\ h.block[c].lo <= End(h.block[c])
            /\ End(h.block[c]) <= size
        BY <1>1 DEF Tiled
      <4> QED BY <1>1, <2>3, <4>1, <4>2, <4>3, <4>4
    <3>2. CASE i # j - 1
      <4> DEFINE k == IF i < j - 1 THEN i ELSE i + 1
      <4>1. k \in 1 .. n /\ k # j - 1 /\ k # j /\ K[i] = L[k]
        BY <1>1, <1>5, <3>2
      <4> HIDE DEF k
      <4> QED BY <1>4, <2>1, <4>1 DEF Tiled
    <3> QED BY <3>1, <3>2
  <2>5. ASSUME NEW i \in 1 .. (n - 1) - 1
        PROVE  g.block[K[i + 1]].lo = End(g.block[K[i]])
    <3>1. CASE i + 1 < j - 1
      <4>1. /\ K[i] = L[i] /\ K[i + 1] = L[i + 1] /\ i \in 1 .. n /\ i \in 1 .. n - 1
            /\ i + 1 \in 1 .. n /\ i + 1 # j /\ i # j - 1 /\ i + 1 # j - 1
        BY <1>1, <1>5, <3>1
      <4> QED BY <1>4, <2>1, <4>1 DEF Tiled
    <3>2. CASE i + 1 = j - 1
      <4>1. /\ K[i] = L[i] /\ K[i + 1] = L[j] /\ i \in 1 .. n /\ i \in 1 .. n - 1
            /\ i # j - 1 /\ j # j - 1 /\ L[i + 1] = p
        BY <1>1, <1>5, <3>2
      <4>2. g.block[L[j]].lo = h.block[p].lo
        BY <1>1, <1>4
      <4> QED BY <2>1, <4>1, <4>2 DEF Tiled
    <3>3. CASE i + 1 > j - 1
      <4> DEFINE k == i + 1
      <4>1. /\ K[i] = L[k] /\ K[i + 1] = L[k + 1] /\ k \in 1 .. n /\ k \in 1 .. n - 1
            /\ k + 1 \in 1 .. n /\ k + 1 # j /\ k # j - 1 /\ k + 1 # j - 1
        BY <1>1, <1>5, <3>3
      <4> HIDE DEF k
      <4> QED BY <1>4, <2>1, <4>1 DEF Tiled
    <3> QED BY <1>1, <3>1, <3>2, <3>3
  <2> HIDE DEF p, c, before
  <2> QED BY <2>2, <2>4, <2>5 DEF Tiled
<1>8. \A i \in 1 .. n : i # j - 1 => End(g.block[L[i]]) = End(h.block[L[i]])
  BY <1>4 DEF End
<1> QED BY <1>3, <1>4, <1>6, <1>7, <1>8 DEF K

(* No byte changes its owner if both blocks have the same one.             *)
LEMMA AbsorbOwned ==
    ASSUME NEW h \in Heaps, NEW L, NEW n, NEW size \in 0 .. SIZE_MOD - 2,
           Linked(h, L, n), Tiled(h, L, n, size), NEW j \in 2 .. n, NEW g, g = Absorb(h, L[j]),
           h.block[L[j]].name = h.block[L[j - 1]].name,
           NEW o, DOMAIN o = 0 .. size - 1, Owned(h, L, n, o)
    PROVE  Owned(g, Without(L, n, j - 1), n - 1, o)
<1> DEFINE K == Without(L, n, j - 1)
<1>1. /\ n \in Nat /\ size \in Nat /\ j \in 1 .. n /\ j - 1 \in 1 .. n /\ j - 1 \in 1 .. n - 1
  BY AllocatorAssumption DEF Linked
<1>2. \A i \in 1 .. n : i # j - 1 =>
          /\ g.block[L[i]].name = h.block[L[i]].name
          /\ End(g.block[L[i]]) = End(h.block[L[i]])
          /\ g.block[L[i]].lo = h.block[IF i = j THEN L[j - 1] ELSE L[i]].lo
  BY <1>1, AbsorbStep
<1>3. h.block[L[j]].lo = End(h.block[L[j - 1]])
  <2>1. \A i \in 1 .. n - 1 : h.block[L[i + 1]].lo = End(h.block[L[i]])
    BY DEF Tiled
  <2> QED BY <1>1, <2>1
<1>4. h.block[L[j]].lo \in Nat /\ End(h.block[L[j]]) \in Nat
  <2>1. PICK x : x = h.block[L[j]]
    OBVIOUS
  <2>2. x.lo \in Nat /\ End(x) \in Nat
    BY <1>1, <2>1, SizeInList
  <2> QED BY <2>1, <2>2
<1>5. SUFFICES ASSUME NEW i \in 1 .. n - 1, NEW a \in DOMAIN o, Covers(g.block[K[i]], a)
               PROVE  o[a] = g.block[K[i]].name
  BY DEF Owned
<1>6. K[i] = IF i < j - 1 THEN L[i] ELSE L[i + 1]
  BY DEF Without
<1> HIDE DEF K
<1>7. CASE i = j - 1
  <2>1. K[i] = L[j] /\ a \in Int
    BY <1>1, <1>6, <1>7
  <2>2. h.block[L[j - 1]].lo <= a /\ a < End(h.block[L[j]]) /\ g.block[K[i]].name = h.block[L[j]].name
    BY <1>1, <1>2, <1>5, <2>1 DEF Covers
  <2>3. Covers(h.block[L[j - 1]], a) \/ Covers(h.block[L[j]], a)
    BY <1>3, <1>4, <2>1, <2>2 DEF Covers
  <2>4. o[a] = h.block[L[j]].name
    BY <1>1, <2>3 DEF Owned
  <2> QED BY <2>2, <2>4
<1>8. CASE i # j - 1
  <2> DEFINE k == IF i < j - 1 THEN i ELSE i + 1
  <2>1. k \in 1 .. n /\ k # j - 1 /\ k # j /\ K[i] = L[k]
    BY <1>1, <1>6, <1>8
  <2> HIDE DEF k
  <2>2. Covers(h.block[L[k]], a)
    BY <1>2, <1>5, <2>1 DEF Covers
  <2>3. o[a] = h.block[L[k]].name
    BY <2>1, <2>2 DEF Owned
  <2> QED BY <1>2, <2>1, <2>3
<1> QED BY <1>7, <1>8

(* A list stays one as long as nobody touches its pointers, and goes on    *)
(* tiling the memory as long as nobody moves a border.                     *)
LEMMA SameLinks ==
    ASSUME NEW h, NEW g, NEW L, NEW n, Linked(h, L, n), g.live = h.live,
           \A i \in 1 .. n : /\ g.block[L[i]].prev = h.block[L[i]].prev
                             /\ g.block[L[i]].next = h.block[L[i]].next
    PROVE  Linked(g, L, n)
  BY DEF Linked

LEMMA SameTiles ==
    ASSUME NEW h, NEW g, NEW L, NEW n, NEW size, Linked(h, L, n), Tiled(h, L, n, size),
           \A i \in 1 .. n : /\ g.block[L[i]].lo = h.block[L[i]].lo
                             /\ g.block[L[i]].hi = h.block[L[i]].hi
    PROVE  Tiled(g, L, n, size)
<1>1. 1 \in 1 .. n /\ n \in 1 .. n /\ \A i \in 1 .. n - 1 : i \in 1 .. n /\ i + 1 \in 1 .. n
  BY DEF Linked
<1>2. \A i \in 1 .. n : End(g.block[L[i]]) = End(h.block[L[i]])
  BY DEF End
<1>3. g.block[L[1]].lo = 0 /\ End(g.block[L[n]]) = size
  BY <1>1, <1>2 DEF Tiled
<1>4. \A i \in 1 .. n : g.block[L[i]].lo <= End(g.block[L[i]]) /\ End(g.block[L[i]]) <= size
  BY <1>2 DEF Tiled
<1>5. \A i \in 1 .. n - 1 : g.block[L[i + 1]].lo = End(g.block[L[i]])
  BY <1>1, <1>2 DEF Tiled
<1> QED BY <1>3, <1>4, <1>5 DEF Tiled

(* Mark changes no more than the name of one block.                        *)
LEMMA MarkStep ==
    ASSUME NEW h \in Heaps, NEW c \in Nodes, NEW name, NEW g, g = Mark(h, c, name)
    PROVE  /\ g \in Heaps /\ g.mem = h.mem /\ g.live = h.live
           /\ g.block[c].name = IF h.block[c].name = name THEN NULL ELSE h.block[c].name
           /\ \A b \in Nodes : /\ b # c => g.block[b] = h.block[b]
                               /\ g.block[b].prev = h.block[b].prev
                               /\ g.block[b].next = h.block[b].next
                               /\ g.block[b].lo = h.block[b].lo
                               /\ g.block[b].hi = h.block[b].hi
<1>1. h.block \in [Nodes -> Blocks] /\ h.live \in SUBSET Nodes /\ h.mem \in Nodes
  BY DEF Heaps
<1> DEFINE x == [h.block[c] EXCEPT !.name = NULL]
<1>2. x \in Blocks /\ x.prev = h.block[c].prev /\ x.next = h.block[c].next
      /\ x.lo = h.block[c].lo /\ x.hi = h.block[c].hi /\ x.name = NULL
  BY <1>1 DEF Blocks
<1>3. CASE h.block[c].name = name
  <2>1. g = WithBlock(h, c, x)
    BY <1>3 DEF Mark
  <2> HIDE DEF x
  <2>2. g.mem = h.mem /\ g.live = h.live /\ g.block = [h.block EXCEPT ![c] = x]
    BY <2>1 DEF WithBlock
  <2>3. g \in Heaps
    BY <1>1, <1>2, <2>1 DEF WithBlock, Heaps
  <2>4. g.block[c] = x /\ \A b \in Nodes : b # c => g.block[b] = h.block[b]
    BY <1>1, <2>2
  <2> QED BY <1>2, <1>3, <2>2, <2>3, <2>4
<1>4. CASE h.block[c].name # name
  BY <1>4 DEF Mark
<1> QED BY <1>3, <1>4

(* Where the border is when block y moves to the beginning x.lo.           *)
LEMMA Border ==
    ASSUME NEW x \in Blocks, NEW y \in Blocks, x.lo <= y.lo, y.lo <= End(y), End(y) <= SIZE_MOD - 2,
           NEW border, border = Wrap(x.lo + (y.hi - y.lo)),
           NEW e, e = x.lo + (End(y) - y.lo)
    PROVE  /\ border \in 0 .. SIZE_MAX /\ Wrap(border + 1) = e /\ e \in 0 .. SIZE_MAX
           /\ x.lo <= e /\ e <= End(y)
<1>1. x.lo \in 0 .. SIZE_MOD - 1 /\ y.lo \in 0 .. SIZE_MOD - 1
  BY DEF Blocks, SIZE_MAX
<1>2. End(y) \in 0 .. SIZE_MAX /\ y.hi = IF End(y) = 0 THEN SIZE_MOD - 1 ELSE End(y) - 1
  BY EndOfBlock
<1> DEFINE z == x.lo + (y.hi - y.lo)
<1>3. e \in 0 .. SIZE_MOD - 1 /\ x.lo <= e /\ e <= End(y)
  BY <1>1, <1>2, AllocatorAssumption DEF SIZE_MAX
<1>4. z = IF End(y) = 0 THEN SIZE_MOD - 1 ELSE e - 1
  BY <1>1, <1>2, AllocatorAssumption DEF SIZE_MAX
<1>5. z \in Int /\ 0 - SIZE_MOD <= z /\ z < SIZE_MOD + SIZE_MOD
  BY <1>3, <1>4, AllocatorAssumption
<1> HIDE DEF z
<1>6. Wrap(z) = IF z < 0 THEN z + SIZE_MOD ELSE IF z < SIZE_MOD THEN z ELSE z - SIZE_MOD
  BY <1>5, WrapValue
<1>7. Wrap(e - 1) = IF e = 0 THEN SIZE_MOD - 1 ELSE e - 1
  BY <1>3, WrapValue, AllocatorAssumption
<1>8. border = Wrap(e - 1)
  BY <1>3, <1>4, <1>6, <1>7, AllocatorAssumption DEF z
<1> QED BY <1>3, <1>8, EndOfHi DEF SIZE_MAX

(* Swap moves the used block c to the front of the hole before it.         *)
LEMMA SwapStep ==
    ASSUME NEW h \in Heaps, NEW L, NEW n, NEW size \in 0 .. SIZE_MOD - 2,
           Linked(h, L, n), Tiled(h, L, n, size), NEW j \in 2 .. n,
           h.block[L[j]].name # NULL, h.block[L[j - 1]].name = NULL,
           NEW g, g = Swap(h, L[j])
    PROVE  /\ g \in Heaps /\ g.mem = h.mem
           /\ Linked(g, L, n) /\ Tiled(g, L, n, size)
           /\ g.block[L[j - 1]].name = h.block[L[j]].name /\ g.block[L[j]].name = NULL
           /\ \A i \in 1 .. n : i # j /\ i # j - 1 => g.block[L[i]] = h.block[L[i]]
           /\ g.block[L[j - 1]].lo = h.block[L[j - 1]].lo
           /\ End(g.block[L[j - 1]]) = h.block[L[j - 1]].lo + (End(h.block[L[j]]) - h.block[L[j]].lo)
           /\ g.block[L[j]].lo = End(g.block[L[j - 1]])
           /\ End(g.block[L[j]]) = End(h.block[L[j]])
<1> DEFINE c == L[j]
           p == L[j - 1]
           border == Wrap(h.block[p].lo + (h.block[c].hi - h.block[c].lo))
           e == h.block[p].lo + (End(h.block[c]) - h.block[c].lo)
           x == [h.block[p] EXCEPT !.hi = border, !.name = h.block[c].name]
           y == [h.block[c] EXCEPT !.lo = Wrap(border + 1), !.name = NULL]
<1>1. /\ n \in Nat /\ n >= 2 /\ j - 1 \in 1 .. n /\ j \in 1 .. n /\ j - 1 \in 1 .. n - 1
      /\ c \in Nodes /\ p \in Nodes /\ c # p /\ h.block[c].prev = p
      /\ \A i \in 1 .. n : L[i] \in Nodes
      /\ \A i \in 1 .. n : (L[i] = c <=> i = j) /\ (L[i] = p <=> i = j - 1)
  BY SMTT(30) DEF Linked
<1>2. /\ h.block \in [Nodes -> Blocks] /\ h.live \in SUBSET Nodes /\ h.mem \in Nodes
      /\ h.block[p] \in Blocks /\ h.block[c] \in Blocks
  BY <1>1 DEF Heaps
<1>3. /\ h.block[p].lo <= End(h.block[p]) /\ End(h.block[p]) <= size
      /\ h.block[c].lo <= End(h.block[c]) /\ End(h.block[c]) <= size
  BY <1>1 DEF Tiled
<1>4. h.block[c].lo = End(h.block[p])
  <2>1. \A i \in 1 .. n - 1 : h.block[L[i + 1]].lo = End(h.block[L[i]])
    BY DEF Tiled
  <2> QED BY <1>1, <2>1
<1>5. /\ border \in 0 .. SIZE_MAX /\ Wrap(border + 1) = e /\ e \in 0 .. SIZE_MAX
      /\ h.block[p].lo <= e /\ e <= End(h.block[c])
  <2>1. End(h.block[c]) <= SIZE_MOD - 2 /\ h.block[p].lo <= h.block[c].lo
    <3>1. End(h.block[c]) \in 0 .. SIZE_MAX
      BY <1>2, EndOfBlock
    <3> QED BY <1>3, <1>4, <3>1, AllocatorAssumption DEF SIZE_MAX
  <2> HIDE DEF p, c
  <2> QED BY <1>2, <1>3, <2>1, Border
<1>6. /\ x \in Blocks /\ x.lo = h.block[p].lo /\ x.hi = border /\ x.name = h.block[c].name
      /\ x.prev = h.block[p].prev /\ x.next = h.block[p].next
  <2> HIDE DEF border, p, c
  <2> QED BY <1>2, <1>5 DEF Blocks
<1>7. /\ y \in Blocks /\ y.lo = e /\ y.hi = h.block[c].hi /\ y.name = NULL
      /\ y.prev = h.block[c].prev /\ y.next = h.block[c].next
  <2> HIDE DEF border, p, c, e
  <2> QED BY <1>2, <1>5 DEF Blocks
<1>8. g = WithBlock(WithBlock(h, p, x), c, y)
  BY <1>1, AllocatorAssumption DEF Swap, HoleBefore
<1> HIDE DEF x, y, border
<1>9. g.mem = h.mem /\ g.live = h.live /\ g.block = [[h.block EXCEPT ![p] = x] EXCEPT ![c] = y]
  BY <1>8 DEF WithBlock
<1>10. /\ g.block[p] = x /\ g.block[c] = y /\ g.block \in [Nodes -> Blocks]
       /\ \A b \in Nodes : b # p /\ b # c => g.block[b] = h.block[b]
  <2> HIDE DEF p, c
  <2> QED BY <1>1, <1>2, <1>6, <1>7, <1>9
<1>11. g \in Heaps
  <2>1. g = [mem |-> h.mem, live |-> h.live, block |-> g.block]
    BY <1>8 DEF WithBlock
  <2> QED BY <1>2, <1>10, <2>1 DEF Heaps
<1>12. \A i \in 1 .. n : i # j /\ i # j - 1 => g.block[L[i]] = h.block[L[i]]
  BY <1>1, <1>10
<1>13. Linked(g, L, n)
  <2>1. ASSUME NEW i \in 1 .. n
        PROVE  /\ g.block[L[i]].prev = h.block[L[i]].prev
               /\ g.block[L[i]].next = h.block[L[i]].next
    BY <1>1, <1>6, <1>7, <1>10, <1>12
  <2> QED BY <1>9, <2>1, SameLinks
<1>14. End(x) = e /\ End(y) = End(h.block[c])
  BY <1>5, <1>6, <1>7 DEF End
<1>15. Tiled(g, L, n, size)
  <2>1. \A i \in 1 .. n : i # j - 1 => End(g.block[L[i]]) = End(h.block[L[i]])
    BY <1>1, <1>10, <1>12, <1>14
  <2>2. \A i \in 1 .. n : i # j => g.block[L[i]].lo = h.block[L[i]].lo
    BY <1>1, <1>6, <1>10, <1>12
  <2>3. g.block[L[1]].lo = 0 /\ End(g.block[L[n]]) = size
    BY <1>1, <2>1, <2>2 DEF Tiled
  <2>4. h.block[p].lo \in Nat /\ End(h.block[c]) \in Nat
    <3>1. End(h.block[c]) \in 0 .. SIZE_MAX
      BY <1>2, EndOfBlock
    <3> QED BY <1>2, <3>1, AllocatorAssumption DEF Blocks, SIZE_MAX
  <2>5. ASSUME NEW i \in 1 .. n
        PROVE  g.block[L[i]].lo <= End(g.block[L[i]]) /\ End(g.block[L[i]]) <= size
    <3>1. CASE i = j - 1
      BY <1>3, <1>5, <1>6, <1>10, <1>14, <2>4, <3>1, AllocatorAssumption DEF SIZE_MAX
    <3>2. CASE i = j
      BY <1>3, <1>5, <1>7, <1>10, <1>14, <3>2
    <3>3. CASE i # j /\ i # j - 1
      BY <1>12, <3>3 DEF Tiled
    <3> QED BY <3>1, <3>2, <3>3
  <2>6. ASSUME NEW i \in 1 .. n - 1
        PROVE  g.block[L[i + 1]].lo = End(g.block[L[i]])
    <3>1. h.block[L[i + 1]].lo = End(h.block[L[i]]) /\ i \in 1 .. n /\ i + 1 \in 1 .. n
      BY <1>1 DEF Tiled
    <3>2. CASE i = j - 1
      <4>1. L[i] = p /\ L[i + 1] = c
        BY <1>1, <3>2
      <4> HIDE DEF p, c, e
      <4> QED BY <1>7, <1>10, <1>14, <4>1
    <3>3. CASE i # j - 1
      BY <1>1, <2>1, <2>2, <3>1, <3>3
    <3> QED BY <3>2, <3>3
  <2> QED BY <2>3, <2>5, <2>6 DEF Tiled
<1>16. /\ g.block[p].lo = h.block[p].lo /\ End(g.block[p]) = e
       /\ g.block[c].lo = e /\ End(g.block[c]) = End(h.block[c])
  BY <1>6, <1>7, <1>10, <1>14
<1> QED BY <1>6, <1>7, <1>9, <1>10, <1>11, <1>12, <1>13, <1>15, <1>16

(* What a swap does to the bytes: those from mid to end, of the block that *)
(* is moved, are now those from start on.                                  *)
Shifted(o, start, mid, end, name) ==
    [a \in DOMAIN o |-> IF start <= a /\ a < start + (end - mid) THEN name
                        ELSE IF start + (end - mid) <= a /\ a < end THEN NULL ELSE o[a]]

LEMMA SwapOwned ==
    ASSUME NEW h \in Heaps, NEW L, NEW n, NEW size \in 0 .. SIZE_MOD - 2,
           Linked(h, L, n), Tiled(h, L, n, size), NEW j \in 2 .. n,
           h.block[L[j]].name # NULL, h.block[L[j - 1]].name = NULL,
           NEW g, g = Swap(h, L[j]),
           NEW o, DOMAIN o = 0 .. size - 1, Owned(h, L, n, o),
           NEW q, q = Shifted(o, h.block[L[j - 1]].lo, h.block[L[j]].lo, End(h.block[L[j]]),
                              h.block[L[j]].name)
    PROVE  Owned(g, L, n, q)
<1> DEFINE start == h.block[L[j - 1]].lo
           mid == h.block[L[j]].lo
           end == End(h.block[L[j]])
           name == h.block[L[j]].name
           border == start + (end - mid)
<1>1. /\ n \in Nat /\ size \in Nat /\ j \in 1 .. n /\ j - 1 \in 1 .. n /\ j - 1 \in 1 .. n - 1
  BY AllocatorAssumption DEF Linked
<1>2. mid = End(h.block[L[j - 1]])
  <2>1. \A i \in 1 .. n - 1 : h.block[L[i + 1]].lo = End(h.block[L[i]])
    BY DEF Tiled
  <2> QED BY <1>1, <2>1
<1>3. start \in Nat /\ mid \in Nat /\ end \in Nat /\ start <= mid /\ mid <= end
  <2>1. PICK x : x = h.block[L[j]]
    OBVIOUS
  <2>2. PICK y : y = h.block[L[j - 1]]
    OBVIOUS
  <2>3. x.lo \in Nat /\ End(x) \in Nat /\ x.lo <= End(x)
    BY <1>1, <2>1, SizeInList
  <2>4. y.lo \in Nat /\ y.lo <= End(y)
    BY <1>1, <2>2, SizeInList
  <2> QED BY <1>2, <2>1, <2>2, <2>3, <2>4
<1>4. /\ g.block[L[j - 1]].name = name /\ g.block[L[j]].name = NULL
      /\ \A i \in 1 .. n : i # j /\ i # j - 1 => g.block[L[i]] = h.block[L[i]]
      /\ g.block[L[j - 1]].lo = start /\ End(g.block[L[j - 1]]) = border
      /\ g.block[L[j]].lo = border /\ End(g.block[L[j]]) = end
  BY SwapStep
<1>5. \A a \in DOMAIN o : q[a] = IF start <= a /\ a < border THEN name
                                 ELSE IF border <= a /\ a < end THEN NULL ELSE o[a]
  BY DEF Shifted
<1>6. DOMAIN q = DOMAIN o
  BY DEF Shifted
<1>7. \A a \in Int : start <= a /\ a < end =>
          Covers(h.block[L[j - 1]], a) \/ Covers(h.block[L[j]], a)
  BY <1>2, <1>3 DEF Covers
<1> HIDE DEF start, mid, end, name, border
<1>8. SUFFICES ASSUME NEW i \in 1 .. n, NEW a \in DOMAIN o, Covers(g.block[L[i]], a)
               PROVE  q[a] = g.block[L[i]].name
  BY <1>6 DEF Owned
<1>9. a \in Int /\ border \in Int /\ border <= end
  BY <1>1, <1>3 DEF border
<1>10. CASE i = j - 1
  BY <1>4, <1>5, <1>8, <1>10 DEF Covers
<1>11. CASE i = j
  <2>1. border <= a /\ a < end
    BY <1>4, <1>8, <1>11 DEF Covers
  <2>2. ~(a < border)
    BY <1>9, <2>1
  <2>3. q[a] = NULL /\ g.block[L[i]].name = NULL
    BY <1>4, <1>5, <1>11, <2>1, <2>2
  <2> QED BY <2>3
<1>12. CASE i # j /\ i # j - 1
  <2>1. Covers(h.block[L[i]], a) /\ g.block[L[i]].name = h.block[L[i]].name
    BY <1>4, <1>8, <1>12
  <2>2. ~(start <= a /\ a < end)
    <3>1. \A k \in 1 .. n : Covers(h.block[L[k]], a) => i = k
      BY <1>9, <2>1, OneBlockAt
    <3> QED BY <1>1, <1>7, <1>9, <1>12, <3>1
  <2>3. q[a] = o[a]
    BY <1>3, <1>5, <1>9, <2>2 DEF border
  <2> QED BY <2>1, <2>3 DEF Owned
<1> QED BY <1>10, <1>11, <1>12
-----------------------------------------------------------------------------
(* The loops.  A loop that has passed the k-th of the N blocks of chain    *)
(* has reached the j-th block of what is now the list, and the blocks      *)
(* ahead of it are those that chain has ahead.                             *)
Reached(L, n, j, chain, k, N) ==
    /\ j \in 0 .. n /\ n - j = N - k
    /\ \A d \in 1 .. N - k : L[j + d] = chain[k + d]

(* The i-th block is the k-th of chain, and so are those ahead.            *)
Facing(L, n, i, chain, k, N) ==
    /\ i \in 1 .. n /\ n - i = N - k /\ L[i] = chain[k]
    /\ \A d \in 1 .. N - k : L[i + d] = chain[k + d]

(* After its i-th block K goes on as L does after its j-th.                *)
Ahead(K, m, i, L, n, j) ==
    /\ i \in 1 .. m /\ m - i = n - j
    /\ \A d \in 1 .. n - j : K[i + d] = L[j + d]

(* Of the first j blocks no two that are side by side are unused.          *)
NoHoles(h, L, j) ==
    \A i \in 1 .. j - 1 : h.block[L[i]].name = NULL => h.block[L[i + 1]].name # NULL

(* The state of the loop of release_memory.                                *)
SoundUpTo(h, L, n, j, size) ==
    /\ h \in Heaps /\ Linked(h, L, n) /\ Tiled(h, L, n, size)
    /\ h.mem = L[1] /\ NoHoles(h, L, j)

(* No block up to the j-th has the name, and each byte has the owner it    *)
(* has in o, or none if it was name.                                       *)
Freed(h, L, n, j, name, o) ==
    /\ \A i \in 1 .. j : h.block[L[i]].name # name
    /\ \E q : /\ DOMAIN q = DOMAIN o /\ Owned(h, L, n, q)
              /\ \A a \in DOMAIN o : q[a] = o[a] \/ (o[a] = name /\ q[a] = NULL)

LEMMA MarkFreed ==
    ASSUME NEW h \in Heaps, NEW L, NEW n, NEW size \in 0 .. SIZE_MOD - 2,
           Linked(h, L, n), Tiled(h, L, n, size), NEW j \in 1 .. n,
           NEW name, name # NULL, NEW g, g = Mark(h, L[j], name),
           NEW o, DOMAIN o = 0 .. size - 1, Freed(h, L, n, j - 1, name, o)
    PROVE  Freed(g, L, n, j, name, o)
<1> DEFINE c == L[j]
<1>1. /\ n \in Nat /\ c \in Nodes /\ \A i \in 1 .. n : L[i] \in Nodes /\ (L[i] = c <=> i = j)
  BY DEF Linked
<1>2. /\ g.block[c].name = IF h.block[c].name = name THEN NULL ELSE h.block[c].name
      /\ \A i \in 1 .. n : /\ i # j => g.block[L[i]] = h.block[L[i]]
                           /\ g.block[L[i]].lo = h.block[L[i]].lo
                           /\ g.block[L[i]].hi = h.block[L[i]].hi
  <2> HIDE DEF c
  <2> QED BY <1>1, MarkStep DEF c
<1>3. \A i \in 1 .. n : \A a : Covers(g.block[L[i]], a) <=> Covers(h.block[L[i]], a)
  BY <1>2 DEF Covers, End
<1>4. PICK q : /\ DOMAIN q = DOMAIN o /\ Owned(h, L, n, q)
               /\ \A a \in DOMAIN o : q[a] = o[a] \/ (o[a] = name /\ q[a] = NULL)
  BY DEF Freed
<1>5. \A i \in 1 .. j - 1 : h.block[L[i]].name # name
  BY DEF Freed
<1>6. \A i \in 1 .. j : g.block[L[i]].name # name
  <2> SUFFICES ASSUME NEW i \in 1 .. j PROVE g.block[L[i]].name # name
    OBVIOUS
  <2>1. CASE i = j
    BY <1>2, <2>1
  <2>2. CASE i # j
    <3>1. i \in 1 .. j - 1 /\ i \in 1 .. n
      BY <1>1, <2>2
    <3> QED BY <1>2, <1>5, <2>2, <3>1
  <2> QED BY <2>1, <2>2
<1> DEFINE r == [a \in DOMAIN o |-> IF Covers(h.block[c], a) /\ h.block[c].name = name
                                    THEN NULL ELSE q[a]]
<1>7. DOMAIN r = DOMAIN o /\ \A a \in DOMAIN o : r[a] = IF Covers(h.block[c], a) /\ h.block[c].name = name
                                                        THEN NULL ELSE q[a]
  OBVIOUS
<1> HIDE DEF r
<1>8. Owned(g, L, n, r)
  <2> SUFFICES ASSUME NEW i \in 1 .. n, NEW a \in DOMAIN o, Covers(g.block[L[i]], a)
               PROVE  r[a] = g.block[L[i]].name
    BY <1>7 DEF Owned
  <2>1. Covers(h.block[L[i]], a) /\ q[a] = h.block[L[i]].name
    BY <1>3, <1>4 DEF Owned
  <2>2. CASE i = j
    BY <1>2, <1>7, <2>1, <2>2
  <2>3. CASE i # j
    <3>1. a \in Int
      BY AllocatorAssumption
    <3>2. ~Covers(h.block[c], a)
      BY <2>1, <2>3, <3>1, OneBlockAt
    <3> QED BY <1>2, <1>7, <2>1, <2>3, <3>2
  <2> QED BY <2>2, <2>3
<1>9. ASSUME NEW a \in DOMAIN o PROVE r[a] = o[a] \/ (o[a] = name /\ r[a] = NULL)
  <2>1. CASE Covers(h.block[c], a) /\ h.block[c].name = name
    <3>1. q[a] = name /\ r[a] = NULL
      BY <1>4, <1>7, <2>1 DEF Owned
    <3> QED BY <1>4, <3>1
  <2>2. CASE ~(Covers(h.block[c], a) /\ h.block[c].name = name)
    BY <1>4, <1>7, <2>2
  <2> QED BY <2>1, <2>2
<1> QED BY <1>6, <1>7, <1>8, <1>9 DEF Freed

(* One turn: a block is marked, merged with a hole before it, and becomes  *)
(* the first one if that hole was.                                         *)
ReleaseBody(h, c, name) == FirstUpdated(Merge(Mark(h, c, name), c), c)

(* Merge does nothing, or absorbs the hole before an unused block.         *)
LEMMA MergeKeeps ==
    ASSUME NEW h \in Heaps, NEW L, NEW n, NEW j \in 1 .. n, NEW size \in Nat,
           Linked(h, L, n), Tiled(h, L, n, size), NEW g, g = Merge(h, L[j])
    PROVE  \/ g = h /\ (j # 1 /\ h.block[L[j]].name = NULL => h.block[L[j - 1]].name # NULL)
           \/ /\ j # 1 /\ h.block[L[j]].name = NULL /\ h.block[L[j - 1]].name = NULL
              /\ g = Absorb(h, L[j])
<1>1. /\ n \in Nat /\ L[j] \in Nodes /\ NULL \notin Nodes
      /\ h.block[L[j]].prev = IF j = 1 THEN NULL ELSE L[j - 1]
      /\ j # 1 => L[j - 1] \in Nodes
  BY AllocatorAssumption DEF Linked
<1> QED BY <1>1 DEF Merge, HoleBefore

(* After one turn the blocks that were passed have no adjacent holes, and  *)
(* those ahead are the same.                                               *)
LEMMA ReleaseStep ==
    ASSUME NEW h, NEW L, NEW n, NEW j \in 1 .. n, NEW size \in 0 .. SIZE_MOD - 2,
           SoundUpTo(h, L, n, j - 1, size), NEW name, name # NULL,
           NEW o, DOMAIN o = 0 .. size - 1, Freed(h, L, n, j - 1, name, o),
           NEW g, g = ReleaseBody(h, L[j], name)
    PROVE  \E K, m, i : /\ SoundUpTo(g, K, m, i, size) /\ Freed(g, K, m, i, name, o)
                        /\ Ahead(K, m, i, L, n, j)
<1> DEFINE c == L[j]
           u == Mark(h, c, name)
           v == Merge(u, c)
<1>1. /\ n \in Nat \ {0} /\ c \in Nodes /\ h \in Heaps /\ NULL \notin Nodes
      /\ \A i \in 1 .. n : L[i] \in Nodes
      /\ \A i \in 1 .. n : L[i] = c <=> i = j
      /\ size \in Nat
  BY AllocatorAssumption DEF SoundUpTo, Linked
<1>2. Freed(u, L, n, j, name, o)
  <2>1. Linked(h, L, n) /\ Tiled(h, L, n, size)
    BY DEF SoundUpTo
  <2>2. u = Mark(h, L[j], name)
    OBVIOUS
  <2> HIDE DEF u, c
  <2> QED BY <1>1, <2>1, <2>2, MarkFreed
<1>3. /\ u \in Heaps /\ u.mem = h.mem /\ u.live = h.live
      /\ \A b \in Nodes : /\ b # c => u.block[b] = h.block[b]
                          /\ u.block[b].prev = h.block[b].prev
                          /\ u.block[b].next = h.block[b].next
                          /\ u.block[b].lo = h.block[b].lo
                          /\ u.block[b].hi = h.block[b].hi
  <2> HIDE DEF c
  <2> QED BY <1>1, MarkStep
<1> HIDE DEF u
<1>4. Linked(u, L, n) /\ Tiled(u, L, n, size) /\ u.mem = L[1]
  <2>1. Linked(u, L, n)
    BY <1>1, <1>3, SameLinks DEF SoundUpTo
  <2>2. Tiled(u, L, n, size)
    BY <1>1, <1>3, SameTiles DEF SoundUpTo
  <2> QED BY <1>3, <2>1, <2>2 DEF SoundUpTo
<1>5. NoHoles(u, L, j - 1)
  BY <1>1, <1>3 DEF NoHoles, SoundUpTo
<1>6. \/ v = u /\ (j # 1 /\ u.block[c].name = NULL => u.block[L[j - 1]].name # NULL)
      \/ /\ j # 1 /\ u.block[c].name = NULL /\ u.block[L[j - 1]].name = NULL
         /\ v = Absorb(u, c)
  BY <1>3, <1>4, MergeKeeps
<1>7. g = FirstUpdated(v, c)
  BY DEF ReleaseBody, u
<1> HIDE DEF v, c
<1>8. CASE v = u /\ (j # 1 /\ u.block[c].name = NULL => u.block[L[j - 1]].name # NULL)
  <2>1. v.block[c].prev = NULL => c = v.mem
    <3>1. v.block[c].prev = IF j = 1 THEN NULL ELSE L[j - 1]
      BY <1>4, <1>8 DEF Linked, c
    <3>2. j # 1 => j - 1 \in 1 .. n
      BY <1>1
    <3> QED BY <1>1, <1>4, <1>8, <3>1, <3>2 DEF c
  <2>2. v = [mem |-> v.mem, live |-> v.live, block |-> v.block]
    BY <1>3, <1>8 DEF Heaps
  <2>3. g = u
    BY <1>7, <1>8, <2>1, <2>2 DEF FirstUpdated
  <2>4. NoHoles(u, L, j)
    <3> SUFFICES ASSUME NEW i \in 1 .. j - 1, u.block[L[i]].name = NULL
                 PROVE  u.block[L[i + 1]].name # NULL
      BY DEF NoHoles
    <3>1. CASE i = j - 1
      BY <1>8, <3>1 DEF c
    <3>2. CASE i # j - 1
      BY <1>5, <3>2 DEF NoHoles
    <3> QED BY <3>1, <3>2
  <2>5. SoundUpTo(g, L, n, j, size)
    BY <1>3, <1>4, <2>3, <2>4 DEF SoundUpTo
  <2>6. Ahead(L, n, j, L, n, j)
    BY <1>1 DEF Ahead
  <2> QED BY <1>2, <2>3, <2>5, <2>6
<1>9. CASE /\ j # 1 /\ u.block[c].name = NULL /\ u.block[L[j - 1]].name = NULL
           /\ v = Absorb(u, c)
  <2> DEFINE K == Without(L, n, j - 1)
  <2>1. /\ v \in Heaps /\ v.mem = u.mem /\ Linked(v, K, n - 1) /\ Tiled(v, K, n - 1, size)
        /\ \A i \in 1 .. n : i # j - 1 => v.block[L[i]].name = u.block[L[i]].name
    <3>1. j \in 2 .. n
      BY <1>9
    <3> HIDE DEF K
    <3> QED BY <1>3, <1>4, <1>9, <3>1, AbsorbStep DEF c, K
  <2>2. \A i \in 1 .. n - 1 : K[i] = IF i < j - 1 THEN L[i] ELSE L[i + 1]
    BY DEF Without
  <2>3. j - 1 \in 1 .. n - 1 /\ K[j - 1] = c
    BY <1>1, <1>9, <2>2 DEF c
  <2> HIDE DEF K
  <2>4. /\ g \in Heaps /\ g.live = v.live /\ g.block = v.block
        /\ g.mem = K[1]
    <3>1. v.block[c].prev = IF j - 1 = 1 THEN NULL ELSE K[(j - 1) - 1]
      BY <2>1, <2>3 DEF Linked
    <3>2. CASE j = 2
      <4>1. g = [mem |-> c, live |-> v.live, block |-> v.block]
        BY <1>7, <3>1, <3>2 DEF FirstUpdated
      <4> QED BY <1>1, <2>1, <2>3, <3>2, <4>1 DEF Heaps
    <3>3. CASE j # 2
      <4>1. K[(j - 1) - 1] \in Nodes
        BY SMTT(30), <1>9, <2>1, <2>3, <3>3 DEF Linked
      <4>2. g = v
        BY <1>1, <1>7, <3>1, <3>3, <4>1 DEF FirstUpdated
      <4>3. K[1] = L[1]
        BY <1>1, <1>9, <2>2, <3>3
      <4> QED BY <1>4, <2>1, <4>2, <4>3
    <3> QED BY <3>2, <3>3
  <2>5. Linked(g, K, n - 1)
    BY <2>1, <2>4, SameLinks
  <2>6. Tiled(g, K, n - 1, size)
    BY <2>1, <2>4, SameTiles
  <2>7. NoHoles(g, K, j - 1)
    <3> SUFFICES ASSUME NEW i \in 1 .. (j - 1) - 1, g.block[K[i]].name = NULL
                 PROVE  g.block[K[i + 1]].name # NULL
      BY DEF NoHoles
    <3>1. /\ K[i] = L[i] /\ i \in 1 .. n /\ i + 1 \in 1 .. n /\ i # j - 1
          /\ K[i + 1] = IF i = j - 2 THEN L[j] ELSE L[i + 1]
      BY <1>1, <1>9, <2>2
    <3>2. u.block[L[i]].name = NULL
      BY <2>1, <2>4, <3>1
    <3>3. u.block[L[i + 1]].name # NULL
      BY <1>5, <3>2 DEF NoHoles
    <3>4. i # j - 2
      BY <1>9, <3>3
    <3> QED BY <2>1, <2>4, <3>1, <3>3, <3>4
  <2>8. SoundUpTo(g, K, n - 1, j - 1, size)
    BY <2>4, <2>5, <2>6, <2>7 DEF SoundUpTo
  <2>9. \A d \in 1 .. n - j : K[(j - 1) + d] = L[j + d]
    BY <1>1, <2>2, <2>3
  <2>10. (n - 1) - (j - 1) = n - j
    BY <1>1
  <2>11. Ahead(K, n - 1, j - 1, L, n, j)
    BY <2>3, <2>9, <2>10 DEF Ahead
  <2>12. Freed(g, K, n - 1, j - 1, name, o)
    <3>1. PICK q : /\ DOMAIN q = DOMAIN o /\ Owned(u, L, n, q)
                   /\ \A a \in DOMAIN o : q[a] = o[a] \/ (o[a] = name /\ q[a] = NULL)
      BY <1>2 DEF Freed
    <3>2. \A i \in 1 .. j : u.block[L[i]].name # name
      BY <1>2 DEF Freed
    <3>3. Owned(v, K, n - 1, q)
      <4>1. j \in 2 .. n /\ v = Absorb(u, L[j]) /\ u.block[L[j]].name = u.block[L[j - 1]].name
        BY <1>9 DEF c
      <4> QED BY <1>3, <1>4, <3>1, <4>1, AbsorbOwned DEF K
    <3>4. Owned(g, K, n - 1, q)
      BY <2>4, <3>3 DEF Owned
    <3>5. ASSUME NEW i \in 1 .. j - 1 PROVE g.block[K[i]].name # name
      <4> DEFINE k == IF i < j - 1 THEN i ELSE j
      <4>1. k \in 1 .. j /\ k \in 1 .. n /\ k # j - 1 /\ K[i] = L[k]
        BY <1>1, <1>9, <2>2
      <4> HIDE DEF k
      <4> QED BY <2>1, <2>4, <3>2, <4>1
    <3> QED BY <3>1, <3>4, <3>5 DEF Freed
  <2> QED BY <2>8, <2>11, <2>12
<1> QED BY <1>6, <1>8, <1>9

(* The state of the loop of compact_memory: all blocks before the j-th are *)
(* used, i.e. what is unused of the part that was passed is at its end.    *)
Compacting(h, L, n, j, size) ==
    /\ h \in Heaps /\ Linked(h, L, n) /\ Tiled(h, L, n, size)
    /\ h.mem = L[1] /\ \A i \in 1 .. j - 1 : h.block[L[i]].name # NULL

CompactBody(h, c) == Merge(Swap(h, c), c)

(* to says where each byte that is used in o is in q, and keeps their      *)
(* order.                                                                  *)
Used(o) == {a \in DOMAIN o : o[a] # NULL}
Moves(o, q, to) ==
    /\ DOMAIN q = DOMAIN o /\ to \in [Used(o) -> DOMAIN o]
    /\ \A a, b \in Used(o) : a < b => to[a] < to[b]
    /\ \A a \in Used(o) : q[to[a]] = o[a]
    /\ \A b \in Used(q) : \E a \in Used(o) : to[a] = b

(* The heap holds the bytes of o, in order.                                *)
Packing(h, L, n, o) == \E q, to : Owned(h, L, n, q) /\ Moves(o, q, to)

(* A shift of one block keeps the order, as what it goes over is unused.   *)
LEMMA ShiftMoves ==
    ASSUME NEW size \in Nat, NEW o, DOMAIN o = 0 .. size - 1, NEW q, NEW to, Moves(o, q, to),
           NEW start \in Nat, NEW mid \in Nat, NEW end \in Nat, start <= mid, mid <= end, end <= size,
           NEW name, name # NULL,
           \A a \in DOMAIN q : /\ start <= a /\ a < mid => q[a] = NULL
                               /\ mid <= a /\ a < end => q[a] = name,
           NEW r, r = Shifted(q, start, mid, end, name)
    PROVE  \E t : Moves(o, r, t)
<1> DEFINE border == start + (end - mid)
           S(b) == IF mid <= b /\ b < end THEN b - (mid - start) ELSE b
           t == [a \in Used(o) |-> S(to[a])]
<1>1. /\ DOMAIN q = 0 .. size - 1 /\ DOMAIN r = 0 .. size - 1
      /\ to \in [Used(o) -> 0 .. size - 1] /\ Used(o) \subseteq 0 .. size - 1
      /\ border \in Nat /\ start <= border /\ border <= end /\ mid - start \in Nat
  BY DEF Moves, Shifted, Used
<1>2. \A a \in 0 .. size - 1 : r[a] = IF start <= a /\ a < border THEN name
                                      ELSE IF border <= a /\ a < end THEN NULL ELSE q[a]
  BY <1>1 DEF Shifted
<1>3. ASSUME NEW a \in Used(o)
      PROVE  to[a] \in 0 .. size - 1 /\ q[to[a]] = o[a] /\ ~(start <= to[a] /\ to[a] < mid)
  <2>1. to[a] \in 0 .. size - 1 /\ q[to[a]] = o[a]
    BY <1>1 DEF Moves
  <2>2. q[to[a]] # NULL
    BY <2>1 DEF Used
  <2> QED BY <1>1, <2>1, <2>2
<1>4. t \in [Used(o) -> DOMAIN o]
  <2> SUFFICES ASSUME NEW a \in Used(o) PROVE S(to[a]) \in DOMAIN o
    OBVIOUS
  <2>1. to[a] \in 0 .. size - 1
    BY <1>3
  <2> QED BY <1>1, <2>1
<1>5. ASSUME NEW a \in Used(o), NEW b \in Used(o), a < b PROVE t[a] < t[b]
  <2>1. to[a] < to[b]
    BY <1>5 DEF Moves
  <2>2. to[a] \in 0 .. size - 1 /\ ~(start <= to[a] /\ to[a] < mid)
    BY <1>3
  <2>3. to[b] \in 0 .. size - 1 /\ ~(start <= to[b] /\ to[b] < mid)
    BY <1>3
  <2> QED BY <2>1, <2>2, <2>3
<1>6. ASSUME NEW a \in Used(o) PROVE r[t[a]] = o[a]
  <2>1. to[a] \in 0 .. size - 1 /\ q[to[a]] = o[a] /\ ~(start <= to[a] /\ to[a] < mid)
    BY <1>3
  <2>2. CASE mid <= to[a] /\ to[a] < end
    <3>1. t[a] = to[a] - (mid - start) /\ o[a] = name
      BY <1>1, <2>1, <2>2
    <3>2. start <= t[a] /\ t[a] < border /\ t[a] \in 0 .. size - 1
      BY <1>1, <2>1, <2>2, <3>1
    <3> QED BY <1>2, <3>1, <3>2
  <2>3. CASE ~(mid <= to[a] /\ to[a] < end)
    <3>1. t[a] = to[a]
      BY <2>3
    <3>2. ~(start <= to[a] /\ to[a] < end)
      BY <1>1, <2>1, <2>3
    <3>3. r[to[a]] = q[to[a]]
      BY <1>1, <1>2, <2>1, <3>2
    <3> QED BY <2>1, <3>1, <3>3
  <2> QED BY <2>2, <2>3
<1>7. ASSUME NEW b \in Used(r) PROVE \E a \in Used(o) : t[a] = b
  <2>1. b \in 0 .. size - 1 /\ r[b] # NULL
    BY <1>1 DEF Used
  <2>2. CASE start <= b /\ b < border
    <3> DEFINE c == b + (mid - start)
    <3>1. c \in 0 .. size - 1 /\ mid <= c /\ c < end /\ c - (mid - start) = b
      BY <1>1, <2>1, <2>2
    <3> HIDE DEF c
    <3>2. q[c] = name
      BY <1>1, <3>1
    <3>3. PICK a \in Used(o) : to[a] = c
      BY <1>1, <3>1, <3>2 DEF Moves, Used
    <3>4. t[a] = b
      BY <3>1, <3>3
    <3> QED BY <3>4
  <2>3. CASE ~(start <= b /\ b < border)
    <3>1. ~(border <= b /\ b < end)
      BY <1>2, <2>1, <2>3
    <3>2. q[b] # NULL
      BY <1>2, <2>1, <2>3, <3>1
    <3>3. PICK a \in Used(o) : to[a] = b
      BY <1>1, <2>1, <3>2 DEF Moves, Used
    <3>4. ~(mid <= b /\ b < end)
      BY <1>1, <2>1, <2>3, <3>1
    <3>5. t[a] = b
      BY <3>3, <3>4
    <3> QED BY <3>5
  <2> QED BY <2>2, <2>3
<1>8. DOMAIN r = DOMAIN o
  BY <1>1
<1> HIDE DEF t
<1>9. Moves(o, r, t)
  BY <1>4, <1>5, <1>6, <1>7, <1>8 DEF Moves
<1> QED BY <1>9

(* The first block has none before it: nothing is done.                    *)
LEMMA CompactFirst ==
    ASSUME NEW h \in Heaps, NEW L, NEW n, Linked(h, L, n)
    PROVE  CompactBody(h, L[1]) = h
<1>1. h.block[L[1]].prev = NULL
  BY DEF Linked
<1>2. Swap(h, L[1]) = h
  BY <1>1 DEF Swap, HoleBefore
<1>3. Merge(h, L[1]) = h
  BY <1>1 DEF Merge, HoleBefore
<1> QED BY <1>2, <1>3 DEF CompactBody

(* One turn, from the second block on.  The first block is not freed: it   *)
(* is a hole only when the second one is not.                              *)
LEMMA CompactStep ==
    ASSUME NEW h, NEW L, NEW n, NEW j \in 2 .. n, NEW size \in 0 .. SIZE_MOD - 2,
           Compacting(h, L, n, j - 1, size),
           NEW o, DOMAIN o = 0 .. size - 1, Packing(h, L, n, o),
           j = 2 => NoHoles(h, L, 2), NEW g, g = CompactBody(h, L[j])
    PROVE  \E K, m, i : /\ Compacting(g, K, m, i, size) /\ Packing(g, K, m, o)
                        /\ i >= 2 /\ Ahead(K, m, i, L, n, j)
<1> DEFINE c == L[j]
           p == L[j - 1]
           v == Swap(h, c)
<1>1. /\ n \in Nat \ {0} /\ n >= 2 /\ j \in 1 .. n /\ j - 1 \in 1 .. n
      /\ c \in Nodes /\ p \in Nodes /\ c # p /\ h \in Heaps /\ NULL \notin Nodes
      /\ h.block[c].prev = p
      /\ \A i \in 1 .. n : L[i] \in Nodes
      /\ Linked(h, L, n) /\ Tiled(h, L, n, size) /\ h.mem = L[1] /\ size \in Nat
  <2>1. Linked(h, L, n) /\ Tiled(h, L, n, size) /\ h.mem = L[1] /\ h \in Heaps
    BY DEF Compacting
  <2> QED BY <2>1, AllocatorAssumption DEF Linked
<1>2. \A i \in 1 .. j - 2 : h.block[L[i]].name # NULL
  BY DEF Compacting
<1>3. g = Merge(v, c)
  BY DEF CompactBody
<1>4. CASE h.block[c].name # NULL /\ h.block[p].name = NULL
  <2>1. /\ v \in Heaps /\ v.mem = h.mem
        /\ Linked(v, L, n) /\ Tiled(v, L, n, size)
        /\ v.block[p].name = h.block[c].name /\ v.block[c].name = NULL
        /\ \A i \in 1 .. n : i # j /\ i # j - 1 => v.block[L[i]] = h.block[L[i]]
    BY <1>1, <1>4, SwapStep
  <2> HIDE DEF v
  <2>2. \/ g = v
        \/ v.block[L[j - 1]].name = NULL
    <3>1. g = Merge(v, L[j])
      BY <1>3
    <3>2. \/ g = v /\ (j # 1 /\ v.block[L[j]].name = NULL => v.block[L[j - 1]].name # NULL)
          \/ /\ j # 1 /\ v.block[L[j]].name = NULL /\ v.block[L[j - 1]].name = NULL
             /\ g = Absorb(v, L[j])
      <4> HIDE DEF c, p
      <4> QED BY <1>1, <2>1, <3>1, MergeKeeps
    <3> QED BY <3>2
  <2>3. g = v
    BY <1>4, <2>1, <2>2
  <2>4. \A i \in 1 .. j - 1 : v.block[L[i]].name # NULL
    <3> SUFFICES ASSUME NEW i \in 1 .. j - 1 PROVE v.block[L[i]].name # NULL
      OBVIOUS
    <3>1. CASE i = j - 1
      BY <1>4, <2>1, <3>1
    <3>2. CASE i # j - 1
      <4>1. i \in 1 .. n /\ i # j /\ i \in 1 .. j - 2
        BY <1>1, <3>2
      <4> QED BY <1>2, <2>1, <3>2, <4>1
    <3> QED BY <3>1, <3>2
  <2>5. Compacting(v, L, n, j, size)
    BY <1>1, <2>1, <2>4 DEF Compacting
  <2>6. Ahead(L, n, j, L, n, j)
    BY <1>1 DEF Ahead
  <2>7. Packing(v, L, n, o)
    <3>1. PICK q, to : Owned(h, L, n, q) /\ Moves(o, q, to)
      BY DEF Packing
    <3>2. DOMAIN q = 0 .. size - 1
      BY <3>1 DEF Moves
    <3> DEFINE start == h.block[p].lo
               mid == h.block[c].lo
               end == End(h.block[c])
               name == h.block[c].name
    <3>3. PICK r : r = Shifted(q, start, mid, end, name)
      OBVIOUS
    <3>4. Owned(v, L, n, r)
      BY <1>1, <1>4, <3>1, <3>2, <3>3, SwapOwned DEF v
    <3>5. mid = End(h.block[p])
      <4>1. \A i \in 1 .. n - 1 : h.block[L[i + 1]].lo = End(h.block[L[i]])
        BY <1>1 DEF Tiled
      <4>2. j - 1 \in 1 .. n - 1 /\ (j - 1) + 1 = j
        BY <1>1
      <4> QED BY <4>1, <4>2
    <3>6. /\ start \in Nat /\ mid \in Nat /\ end \in Nat
          /\ start <= mid /\ mid <= end /\ end <= size
      <4>1. PICK x : x = h.block[L[j]]
        OBVIOUS
      <4>2. PICK y : y = h.block[L[j - 1]]
        OBVIOUS
      <4>3. x.lo \in Nat /\ End(x) \in Nat /\ x.lo <= End(x) /\ End(x) <= size
        BY <1>1, <4>1, SizeInList
      <4>4. y.lo \in Nat /\ y.lo <= End(y)
        BY <1>1, <4>2, SizeInList
      <4> QED BY <3>5, <4>1, <4>2, <4>3, <4>4
    <3>7. \A a \in DOMAIN q : /\ start <= a /\ a < mid => q[a] = NULL
                              /\ mid <= a /\ a < end => q[a] = name
      <4> SUFFICES ASSUME NEW a \in DOMAIN q
                   PROVE  /\ start <= a /\ a < mid => q[a] = NULL
                          /\ mid <= a /\ a < end => q[a] = name
        OBVIOUS
      <4>1. Covers(h.block[L[j - 1]], a) => q[a] = h.block[L[j - 1]].name
        BY <1>1, <3>1 DEF Owned
      <4>2. Covers(h.block[L[j]], a) => q[a] = h.block[L[j]].name
        BY <1>1, <3>1 DEF Owned
      <4> QED BY <1>4, <3>5, <4>1, <4>2 DEF Covers
    <3>8. name # NULL
      BY <1>4
    <3> HIDE DEF start, mid, end, name
    <3>9. PICK t : Moves(o, r, t)
      BY <1>1, <3>1, <3>3, <3>6, <3>7, <3>8, ShiftMoves
    <3> QED BY <3>4, <3>9 DEF Packing
  <2> QED BY <1>1, <2>3, <2>5, <2>6, <2>7
<1>5. CASE ~(h.block[c].name # NULL /\ h.block[p].name = NULL)
  <2>1. v = h
    BY <1>1, <1>5 DEF Swap, HoleBefore
  <2> HIDE DEF v
  <2>2. \/ g = h /\ (h.block[c].name = NULL => h.block[p].name # NULL)
        \/ /\ h.block[c].name = NULL /\ h.block[p].name = NULL
           /\ g = Absorb(h, c)
    <3>1. j # 1 /\ g = Merge(h, L[j])
      BY <1>3, <2>1
    <3>2. \/ g = h /\ (j # 1 /\ h.block[L[j]].name = NULL => h.block[L[j - 1]].name # NULL)
          \/ /\ j # 1 /\ h.block[L[j]].name = NULL /\ h.block[L[j - 1]].name = NULL
             /\ g = Absorb(h, L[j])
      <4>1. h \in Heaps /\ Linked(h, L, n) /\ Tiled(h, L, n, size) /\ j \in 1 .. n /\ size \in Nat
        BY <1>1
      <4> QED BY <3>1, <4>1, MergeKeeps
    <3> QED BY <3>1, <3>2
  <2>3. CASE g = h /\ (h.block[c].name = NULL => h.block[p].name # NULL)
    <3>1. h.block[p].name # NULL
      BY <1>5, <2>3
    <3>2. \A i \in 1 .. j - 1 : h.block[L[i]].name # NULL
      <4> SUFFICES ASSUME NEW i \in 1 .. j - 1 PROVE h.block[L[i]].name # NULL
        OBVIOUS
      <4>1. i = j - 1 \/ i \in 1 .. j - 2
        BY <1>1
      <4> QED BY <1>2, <3>1, <4>1
    <3>3. Compacting(g, L, n, j, size)
      BY <1>1, <2>3, <3>2 DEF Compacting
    <3>4. Ahead(L, n, j, L, n, j)
      BY <1>1 DEF Ahead
    <3> QED BY <1>1, <2>3, <3>3, <3>4
  <2>4. CASE h.block[c].name = NULL /\ h.block[p].name = NULL /\ g = Absorb(h, c)
    <3> DEFINE K == Without(L, n, j - 1)
    <3>1. j # 2
      <4> SUFFICES ASSUME j = 2 PROVE FALSE
        OBVIOUS
      <4>1. h.block[L[1]].name = NULL => h.block[L[1 + 1]].name # NULL
        BY DEF NoHoles
      <4> QED BY <2>4, <4>1
    <3>2. /\ g \in Heaps /\ g.mem = h.mem /\ Linked(g, K, n - 1) /\ Tiled(g, K, n - 1, size)
          /\ \A i \in 1 .. n : i # j - 1 => g.block[L[i]].name = h.block[L[i]].name
      <4> HIDE DEF K
      <4> QED BY SMTT(30), <1>1, <2>4, AbsorbStep DEF K
    <3>3. \A i \in 1 .. n - 1 : K[i] = IF i < j - 1 THEN L[i] ELSE L[i + 1]
      BY DEF Without
    <3>4. j - 1 \in 2 .. n - 1 /\ K[1] = L[1]
      BY <1>1, <3>1, <3>3
    <3>5. \A i \in 1 .. (j - 1) - 1 : g.block[K[i]].name # NULL
      <4> SUFFICES ASSUME NEW i \in 1 .. (j - 1) - 1 PROVE g.block[K[i]].name # NULL
        OBVIOUS
      <4>1. K[i] = L[i] /\ i \in 1 .. n /\ i # j - 1 /\ i \in 1 .. j - 2
        BY <1>1, <3>3
      <4> QED BY <1>2, <3>2, <4>1
    <3>6. \A d \in 1 .. n - j : K[(j - 1) + d] = L[j + d]
      BY <1>1, <3>3, <3>4
    <3>7. (n - 1) - (j - 1) = n - j
      BY <1>1
    <3> HIDE DEF K
    <3>8. Compacting(g, K, n - 1, j - 1, size)
      BY <1>1, <3>2, <3>4, <3>5 DEF Compacting
    <3>9. Ahead(K, n - 1, j - 1, L, n, j) /\ j - 1 >= 2
      BY <1>1, <3>4, <3>6, <3>7 DEF Ahead
    <3>10. Packing(g, K, n - 1, o)
      <4>1. PICK q, to : Owned(h, L, n, q) /\ Moves(o, q, to)
        BY DEF Packing
      <4>2. DOMAIN q = 0 .. size - 1
        BY <4>1 DEF Moves
      <4>3. Owned(g, K, n - 1, q)
        BY <1>1, <2>4, <4>1, <4>2, AbsorbOwned DEF K
      <4> QED BY <4>1, <4>3 DEF Packing
    <3> QED BY <3>8, <3>9, <3>10
  <2> QED BY <2>2, <2>3, <2>4
<1> QED BY <1>4, <1>5
-----------------------------------------------------------------------------
(* The chain of blocks is the list.                                        *)

(* No list is longer than there are nodes.                                 *)
LEMMA ListFits ==
    ASSUME NEW h, NEW L, NEW n, Linked(h, L, n)
    PROVE  n <= Cardinality(Nodes) /\ Cardinality(Nodes) \in Nat
<1>1. IsFiniteSet(Nodes) /\ n \in Nat
  BY AllocatorAssumption DEF Linked
<1>2. Cardinality(Nodes) \in Nat
  BY <1>1, FS_CardinalityType
<1>3. IsFiniteSet(1 .. n) /\ Cardinality(1 .. n) = n
  BY <1>1, FS_Interval
<1>4. L \in Injection(1 .. n, Nodes)
  BY DEF Linked, Injection, IsInjective
<1> QED BY <1>1, <1>2, <1>3, <1>4, FS_Injection

(* The loops start from Chain: it is the list.                             *)
LEMMA ChainIsList ==
    ASSUME NEW L, NEW n, Linked(Heap, L, n), mem = L[1]
    PROVE  Chain = L
<1> DEFINE N == Cardinality(Nodes)
           Eq(s) == s = [k \in 0 .. N |-> IF k = 0 THEN mem
                                          ELSE IF s[k - 1] = NULL THEN NULL ELSE block[s[k - 1]].next]
           at == CHOOSE s : Eq(s)
           found == [k \in 0 .. N |-> IF k < n THEN L[k + 1] ELSE NULL]
<1>1. n <= N /\ N \in Nat /\ n \in Nat \ {0} /\ NULL \notin Nodes
  <2>1. n <= Cardinality(Nodes) /\ Cardinality(Nodes) \in Nat
    BY ListFits
  <2> QED BY <2>1, AllocatorAssumption DEF Linked
<1>2. /\ \A i \in 1 .. n : L[i] \in Nodes
      /\ \A i \in 1 .. n : block[L[i]].next = IF i = n THEN NULL ELSE L[i + 1]
      /\ L \in [1 .. n -> Nodes]
  BY DEF Linked, Heap
<1>3. Chain = [k \in 1 .. Cardinality({j \in DOMAIN at : at[j] # NULL}) |-> at[k - 1]]
  BY DEF Chain
<1> HIDE DEF N
<1>4. Eq(found)
  <2>1. ASSUME NEW k \in 0 .. N
        PROVE  found[k] = IF k = 0 THEN mem
                          ELSE IF found[k - 1] = NULL THEN NULL ELSE block[found[k - 1]].next
    <3>1. CASE k = 0
      BY <1>1, <3>1
    <3>2. CASE k # 0
      <4>1. k - 1 \in 0 .. N /\ found[k - 1] = IF k - 1 < n THEN L[k] ELSE NULL
        <5>1. k \in Nat /\ k - 1 \in 0 .. N /\ (k - 1) + 1 = k
          BY <1>1, <3>2
        <5> QED BY <5>1
      <4>2. CASE k - 1 < n
        <5>1. k \in 1 .. n /\ found[k - 1] = L[k] /\ L[k] # NULL
          BY <1>1, <1>2, <3>2, <4>1, <4>2
        <5>2. block[L[k]].next = IF k = n THEN NULL ELSE L[k + 1]
          BY <1>2, <5>1
        <5>3. found[k] = IF k = n THEN NULL ELSE L[k + 1]
          BY <1>1, <5>1
        <5> QED BY <3>2, <5>1, <5>2, <5>3
      <4>3. CASE ~(k - 1 < n)
        BY <1>1, <3>2, <4>1, <4>3
      <4> QED BY <4>2, <4>3
    <3> QED BY <3>1, <3>2
  <2> QED BY <2>1
<1>5. Eq(at)
  <2> HIDE DEF Eq
  <2> QED BY <1>4
<1>6. \A k \in 0 .. N : at[k] = found[k]
  <2> DEFINE S == {k \in 0 .. N : at[k] = found[k]}
  <2> HIDE DEF at, found
  <2>1. 0 \in S
    BY <1>1, <1>4, <1>5
  <2>2. \A k \in 1 .. N : k - 1 \in S => k \in S
    BY <1>1, <1>4, <1>5
  <2> HIDE DEF S
  <2>3. \A k \in 0 .. N : k \in S
    BY <1>1, <2>1, <2>2, InductionTo
  <2> QED BY <2>3 DEF S
<1>7. DOMAIN at = 0 .. N
  <2> HIDE DEF at
  <2> QED BY <1>5
<1>8. {j \in DOMAIN at : at[j] # NULL} = 0 .. n - 1
  <2> HIDE DEF at
  <2>1. \A j \in 0 .. N : found[j] # NULL <=> j < n
    BY <1>1, <1>2
  <2> HIDE DEF found
  <2> QED BY <1>1, <1>6, <1>7, <2>1
<1>9. Cardinality(0 .. n - 1) = n
  BY <1>1, FS_Interval
<1>10. \A k \in 1 .. n : at[k - 1] = L[k]
  <2> HIDE DEF at
  <2> QED BY <1>1, <1>6
<1> HIDE DEF at
<1>11. Chain = [k \in 1 .. n |-> at[k - 1]]
  BY <1>3, <1>8, <1>9
<1> QED BY <1>2, <1>10, <1>11
-----------------------------------------------------------------------------
(* The whole loops.  First: what they do stays a heap, whatever it is done *)
(* to, so that there is a recursive function that computes the loop.       *)

(* size_t holds what has wrapped around.                                   *)
LEMMA WrapType == \A x \in Int : Wrap(x) \in 0 .. SIZE_MAX
  BY AllocatorAssumption DEF Wrap, SIZE_MAX

(* One turn of a loop makes a heap of a heap, also where there is no list. *)
LEMMA MergeType ==
    ASSUME NEW h \in Heaps, NEW c \in Nodes
    PROVE  Merge(h, c) \in Heaps
<1> DEFINE p == h.block[c].prev
           before == h.block[p].prev
           F(b) == CASE b = p -> Blank
                     [] b = c -> [h.block[b] EXCEPT !.prev = before, !.lo = h.block[p].lo]
                     [] b = before /\ b \notin {p, c} -> [h.block[b] EXCEPT !.next = c]
                     [] OTHER -> h.block[b]
<1>1. CASE HoleBefore(h, c)
  <2>1. p \in Nodes
    BY <1>1, HeapType DEF HoleBefore
  <2>2. Absorb(h, c) = [mem |-> h.mem, live |-> h.live \ {p}, block |-> [b \in Nodes |-> F(b)]]
    BY DEF Absorb
  <2>3. \A b \in Nodes : \/ F(b) = Blank
                         \/ /\ b = c
                            /\ F(b) = [h.block[b] EXCEPT !.prev = before, !.lo = h.block[p].lo]
                         \/ F(b) = [h.block[b] EXCEPT !.next = c]
                         \/ F(b) = h.block[b]
    OBVIOUS
  <2>4. /\ h.block[c] \in Blocks /\ before \in Nodes \cup {NULL} /\ h.block[p].lo \in 0 .. SIZE_MAX
        /\ \A b \in Nodes : h.block[b] \in Blocks
    BY <2>1, HeapType
  <2> HIDE DEF F, p, before
  <2>5. Blank \in Blocks
    BY AllocatorAssumption DEF Blank, Blocks, SIZE_MAX
  <2>6. [h.block[c] EXCEPT !.prev = before, !.lo = h.block[p].lo] \in Blocks
    BY <2>4 DEF Blocks
  <2>7. \A b \in Nodes : [h.block[b] EXCEPT !.next = c] \in Blocks
    BY <2>4 DEF Blocks
  <2>8. \A b \in Nodes : F(b) \in Blocks
    BY <2>3, <2>4, <2>5, <2>6, <2>7
  <2>9. [b \in Nodes |-> F(b)] \in [Nodes -> Blocks] /\ h.live \ {p} \in SUBSET Nodes /\ h.mem \in Nodes
    BY <2>8, HeapType
  <2>10. Absorb(h, c) \in Heaps
    BY ZenonT(40), <2>2, <2>9, HeapType
  <2> QED BY <2>10 DEF Merge
<1>2. CASE ~HoleBefore(h, c)
  BY <1>2 DEF Merge
<1> QED BY <1>1, <1>2

LEMMA ReleaseBodyType ==
    ASSUME NEW h \in Heaps, NEW c \in Nodes, NEW name
    PROVE  ReleaseBody(h, c, name) \in Heaps
<1> DEFINE u == Mark(h, c, name)
           v == Merge(u, c)
<1>1. u \in Heaps
  BY MarkStep
<1> HIDE DEF u
<1>2. v \in Heaps
  BY <1>1, MergeType
<1> HIDE DEF v
<1>3. FirstUpdated(v, c) \in Heaps
  BY <1>2, HeapType DEF FirstUpdated
<1> QED BY <1>3 DEF ReleaseBody, u, v

LEMMA CompactBodyType ==
    ASSUME NEW h \in Heaps, NEW c \in Nodes
    PROVE  CompactBody(h, c) \in Heaps
<1>1. Swap(h, c) \in Heaps
  <2> DEFINE p == h.block[c].prev
             border == Wrap(h.block[p].lo + (h.block[c].hi - h.block[c].lo))
             x == [h.block[p] EXCEPT !.hi = border, !.name = h.block[c].name]
             y == [h.block[c] EXCEPT !.lo = Wrap(border + 1), !.name = NULL]
  <2>1. CASE h.block[c].name # NULL /\ HoleBefore(h, c)
    <3>1. p \in Nodes
      BY <2>1, HeapType DEF HoleBefore
    <3>2. Swap(h, c) = WithBlock(WithBlock(h, p, x), c, y)
      BY <2>1 DEF Swap
    <3>3. /\ h.block[p] \in Blocks /\ h.block[c] \in Blocks
          /\ h.block[p].lo \in Int /\ h.block[c].lo \in Int /\ h.block[c].hi \in Int
          /\ h.block[c].name \in Processes \cup {NULL}
      BY <3>1, HeapType, AllocatorAssumption DEF SIZE_MAX
    <3> HIDE DEF p
    <3>4. border \in 0 .. SIZE_MAX
      BY <3>3, WrapType
    <3> HIDE DEF border
    <3>5. Wrap(border + 1) \in 0 .. SIZE_MAX
      BY <3>4, WrapType, AllocatorAssumption DEF SIZE_MAX
    <3>6. x \in Blocks /\ y \in Blocks
      BY <3>3, <3>4, <3>5 DEF Blocks
    <3> HIDE DEF x, y
    <3>7. WithBlock(h, p, x) \in Heaps
      BY <3>1, <3>6, HeapType DEF WithBlock
    <3> DEFINE w == WithBlock(h, p, x)
    <3> HIDE DEF w
    <3>8. WithBlock(w, c, y) \in Heaps
      BY <3>6, <3>7, HeapType DEF WithBlock, w
    <3> QED BY <3>2, <3>8 DEF w
  <2>2. CASE ~(h.block[c].name # NULL /\ HoleBefore(h, c))
    BY <2>2 DEF Swap
  <2> QED BY <2>1, <2>2
<1> QED BY <1>1, MergeType DEF CompactBody

(* The bookkeeping of Reached, for one turn of a loop.                     *)
LEMMA ReachNext ==
    ASSUME NEW N \in Nat, NEW L, NEW n \in Nat, NEW j, NEW chain, NEW k \in 1 .. N,
           NEW b, b = k - 1, Reached(L, n, j, chain, b, N), NEW i, i = j + 1
    PROVE  Facing(L, n, i, chain, k, N)
<1>1. j \in 0 .. n /\ n - j = N - b
  BY DEF Reached
<1>2. \A d \in 1 .. N - b : L[j + d] = chain[b + d]
  BY DEF Reached
<1>3. 1 \in 1 .. N - b /\ i = j + 1 /\ k = b + 1
  OBVIOUS
<1>4. L[i] = chain[k]
  BY <1>2, <1>3
<1>5. ASSUME NEW d \in 1 .. N - k PROVE L[i + d] = chain[k + d]
  <2> DEFINE e == d + 1
  <2>1. e \in 1 .. N - b /\ j + e = i + d /\ b + e = k + d
    BY <1>1
  <2> HIDE DEF e
  <2>2. L[j + e] = chain[b + e]
    BY <1>2, <2>1
  <2> QED BY <2>1, <2>2
<1>6. i \in 1 .. n /\ n - i = N - k
  BY <1>1
<1> QED BY <1>4, <1>5, <1>6 DEF Facing

(* What has reached a block of K has reached the one of L it is ahead of.  *)
LEMMA ReachFurther ==
    ASSUME NEW N \in Nat, NEW k \in 1 .. N, NEW L, NEW n \in Nat, NEW i, NEW chain,
           Facing(L, n, i, chain, k, N),
           NEW K, NEW m \in Nat, NEW a, Ahead(K, m, a, L, n, i)
    PROVE  Reached(K, m, a, chain, k, N)
<1>1. i \in 1 .. n /\ n - i = N - k /\ \A d \in 1 .. N - k : L[i + d] = chain[k + d]
  BY DEF Facing
<1>2. a \in 1 .. m /\ m - a = n - i /\ \A d \in 1 .. n - i : K[a + d] = L[i + d]
  BY DEF Ahead
<1> QED BY <1>1, <1>2 DEF Reached

(* The loop of release_memory, turn by turn.                               *)
LEMMA ReleaseTurns ==
    ASSUME NEW L0, NEW N, Heap \in Heaps, Linked(Heap, L0, N), mem = L0[1], NEW name, NEW h,
           h = Released(name)
    PROVE  \E g : /\ g[0] = Heap /\ g[N] = h
                  /\ \A k \in 1 .. N : g[k] = ReleaseBody(g[k - 1], L0[k], name)
<1> DEFINE Eq(s) == s = [k \in 0 .. Len(Chain) |->
                             IF k = 0 THEN Heap
                             ELSE FirstUpdated(Merge(Mark(s[k - 1], Chain[k], name), Chain[k]), Chain[k])]
           after == CHOOSE s : Eq(s)
           H == [k \in 1 .. N |-> [x \in Heaps |-> ReleaseBody(x, L0[k], name)]]
<1>1. h = after[Len(Chain)]
  BY DEF Released, Walk
<1>2. N \in Nat /\ \A k \in 1 .. N : L0[k] \in Nodes
  BY DEF Linked
<1>3. Chain = L0 /\ Len(Chain) = N
  <2>1. Chain = L0
    BY ChainIsList
  <2>2. N \in Nat /\ L0 \in [1 .. N -> Nodes]
    BY DEF Linked
  <2>3. Len(L0) = N
    BY <2>2
  <2> QED BY <2>1, <2>3
<1>4. H \in [1 .. N -> [Heaps -> Heaps]]
  BY <1>2, ReleaseBodyType
<1>5. \A k \in 1 .. N, x \in Heaps : H[k][x] = ReleaseBody(x, L0[k], name)
  OBVIOUS
<1> HIDE DEF H, after
<1>6. PICK g \in [0 .. N -> Heaps] : Computes(g, Heap, H, N)
  BY <1>2, <1>4, RecursionTo
<1>7. g[0] = Heap /\ \A k \in 1 .. N : g[k] = ReleaseBody(g[k - 1], L0[k], name)
  <2>1. \A k \in 1 .. N : g[k - 1] \in Heaps
    BY <1>2
  <2> QED BY <1>5, <1>6, <2>1 DEF Computes
<1>8. Eq(g)
  <2>1. g = [k \in 0 .. N |-> IF k = 0 THEN Heap
                              ELSE ReleaseBody(g[k - 1], L0[k], name)]
    <3>1. \A k \in 0 .. N : g[k] = IF k = 0 THEN Heap
                                   ELSE ReleaseBody(g[k - 1], L0[k], name)
      BY <1>2, <1>7
    <3> QED BY <3>1
  <2> QED BY <1>3, <2>1 DEF ReleaseBody
<1>9. Eq(after)
  <2> HIDE DEF Eq
  <2> QED BY <1>8 DEF after
<1>10. after = [k \in 0 .. N |-> IF k = 0 THEN Heap
                                 ELSE ReleaseBody(after[k - 1], L0[k], name)]
  BY <1>3, <1>9 DEF ReleaseBody
<1>11. after[0] = Heap /\ \A k \in 1 .. N : after[k] = ReleaseBody(after[k - 1], L0[k], name)
  BY <1>2, <1>10
<1> QED BY <1>1, <1>3, <1>11

(* It turns a list into one without adjacent holes, whatever it marks on   *)
(* its way, and takes from the process what it owns.                       *)
LEMMA ReleaseLoop ==
    ASSUME NEW L0, NEW N, NEW size \in 0 .. SIZE_MOD - 2, NEW name, name # NULL, NEW h,
           SoundUpTo(Heap, L0, N, 0, size),
           NEW o, DOMAIN o = 0 .. size - 1, Owned(Heap, L0, N, o),
           h = Released(name)
    PROVE  \E L, n : SoundUpTo(h, L, n, n, size) /\ Freed(h, L, n, n, name, o)
<1> DEFINE Past(x, k) == \E L, n, j : /\ SoundUpTo(x, L, n, j, size)
                                      /\ Freed(x, L, n, j, name, o)
                                      /\ Reached(L, n, j, L0, k, N)
<1>1. Linked(Heap, L0, N) /\ mem = L0[1] /\ Heap \in Heaps
  BY DEF SoundUpTo, Heap
<1>2. N \in Nat
  BY DEF SoundUpTo, Linked
<1>3. PICK g : /\ g[0] = Heap /\ g[N] = h
               /\ \A k \in 1 .. N : g[k] = ReleaseBody(g[k - 1], L0[k], name)
  BY <1>1, ReleaseTurns
<1> HIDE DEF Past
<1>4. Past(g[0], 0)
  <2>1. Reached(L0, N, 0, L0, 0, N)
    BY <1>2 DEF Reached
  <2>2. Freed(Heap, L0, N, 0, name, o)
    BY DEF Freed
  <2> QED BY <1>3, <2>1, <2>2 DEF Past
<1>5. ASSUME NEW k \in 1 .. N, Past(g[k - 1], k - 1) PROVE Past(g[k], k)
  <2>1. PICK L, n, j : /\ SoundUpTo(g[k - 1], L, n, j, size)
                       /\ Freed(g[k - 1], L, n, j, name, o)
                       /\ Reached(L, n, j, L0, k - 1, N)
    BY <1>5 DEF Past
  <2> DEFINE i == j + 1
  <2>2. n \in Nat
    BY <2>1 DEF SoundUpTo, Linked
  <2> DEFINE b == k - 1
  <2>3. i = j + 1 /\ b = k - 1 /\ Reached(L, n, j, L0, b, N)
    BY <1>2, <2>1
  <2> HIDE DEF i, b
  <2>4. Facing(L, n, i, L0, k, N)
    BY <1>2, <2>2, <2>3, ReachNext
  <2>5. i \in 1 .. n /\ i - 1 = j /\ L[i] = L0[k]
    BY <2>2, <2>3, <2>4 DEF Facing, Reached
  <2>6. /\ g[k] = ReleaseBody(g[k - 1], L[i], name) /\ SoundUpTo(g[k - 1], L, n, i - 1, size)
        /\ Freed(g[k - 1], L, n, i - 1, name, o)
    BY <1>3, <2>1, <2>5
  <2>7. PICK K, m, a : /\ SoundUpTo(g[k], K, m, a, size) /\ Freed(g[k], K, m, a, name, o)
                       /\ Ahead(K, m, a, L, n, i)
    BY <2>5, <2>6, ReleaseStep
  <2>8. m \in Nat
    BY <2>7 DEF SoundUpTo, Linked
  <2>9. Reached(K, m, a, L0, k, N)
    BY <1>2, <2>2, <2>4, <2>7, <2>8, ReachFurther
  <2> QED BY <2>7, <2>9 DEF Past
<1>6. Past(g[N], N)
  <2> DEFINE S == {k \in 0 .. N : Past(g[k], k)}
  <2>1. 0 \in S
    BY <1>2, <1>4
  <2>2. \A k \in 1 .. N : k - 1 \in S => k \in S
    BY <1>2, <1>5
  <2>3. N \in S
    <3> HIDE DEF S
    <3>1. \A k \in 0 .. N : k \in S
      BY <1>2, <2>1, <2>2, InductionTo
    <3> QED BY <1>2, <3>1
  <2> QED BY <2>3
<1>7. PICK L, n, j : /\ SoundUpTo(h, L, n, j, size) /\ Freed(h, L, n, j, name, o)
                     /\ Reached(L, n, j, L0, N, N)
  BY <1>3, <1>6 DEF Past
<1>8. n = j
  <2>1. n \in Nat
    BY <1>7 DEF SoundUpTo, Linked
  <2> QED BY <1>2, <1>7, <2>1 DEF Reached
<1> QED BY <1>7, <1>8

(* The loop of compact_memory, turn by turn.                               *)
LEMMA CompactTurns ==
    ASSUME NEW L0, NEW N, Heap \in Heaps, Linked(Heap, L0, N), mem = L0[1], NEW h, h = Compacted
    PROVE  \E g : /\ g[0] = Heap /\ g[N] = h
                  /\ \A k \in 1 .. N : g[k] = CompactBody(g[k - 1], L0[k])
<1> DEFINE Eq(s) == s = [k \in 0 .. Len(Chain) |->
                             IF k = 0 THEN Heap
                             ELSE Merge(Swap(s[k - 1], Chain[k]), Chain[k])]
           after == CHOOSE s : Eq(s)
           H == [k \in 1 .. N |-> [x \in Heaps |-> CompactBody(x, L0[k])]]
<1>1. h = after[Len(Chain)]
  BY DEF Compacted, Walk
<1>2. N \in Nat /\ \A k \in 1 .. N : L0[k] \in Nodes
  BY DEF Linked
<1>3. Chain = L0 /\ Len(Chain) = N
  <2>1. Chain = L0
    BY ChainIsList
  <2>2. N \in Nat /\ L0 \in [1 .. N -> Nodes]
    BY DEF Linked
  <2>3. Len(L0) = N
    BY <2>2
  <2> QED BY <2>1, <2>3
<1>4. H \in [1 .. N -> [Heaps -> Heaps]]
  BY <1>2, CompactBodyType
<1>5. \A k \in 1 .. N, x \in Heaps : H[k][x] = CompactBody(x, L0[k])
  OBVIOUS
<1> HIDE DEF H, after
<1>6. PICK g \in [0 .. N -> Heaps] : Computes(g, Heap, H, N)
  BY <1>2, <1>4, RecursionTo
<1>7. g[0] = Heap /\ \A k \in 1 .. N : g[k] = CompactBody(g[k - 1], L0[k])
  <2>1. \A k \in 1 .. N : g[k - 1] \in Heaps
    BY <1>2
  <2> QED BY <1>5, <1>6, <2>1 DEF Computes
<1>8. Eq(g)
  <2>1. g = [k \in 0 .. N |-> IF k = 0 THEN Heap ELSE CompactBody(g[k - 1], L0[k])]
    <3>1. \A k \in 0 .. N : g[k] = IF k = 0 THEN Heap ELSE CompactBody(g[k - 1], L0[k])
      BY <1>2, <1>7
    <3> QED BY <3>1
  <2> QED BY <1>3, <2>1 DEF CompactBody
<1>9. Eq(after)
  <2> HIDE DEF Eq
  <2> QED BY <1>8 DEF after
<1>10. after = [k \in 0 .. N |-> IF k = 0 THEN Heap ELSE CompactBody(after[k - 1], L0[k])]
  BY <1>3, <1>9 DEF CompactBody
<1>11. after[0] = Heap /\ \A k \in 1 .. N : after[k] = CompactBody(after[k - 1], L0[k])
  BY <1>2, <1>10
<1> QED BY <1>1, <1>3, <1>11

(* It turns a list without adjacent holes into one with at most one hole,  *)
(* the last block, and never frees the first block, which mem points to.   *)
LEMMA CompactLoop ==
    ASSUME NEW L0, NEW N, NEW size \in 0 .. SIZE_MOD - 2, NEW h,
           SoundUpTo(Heap, L0, N, N, size), h = Compacted,
           NEW o, DOMAIN o = 0 .. size - 1, Owned(Heap, L0, N, o)
    PROVE  \E L, n : Compacting(h, L, n, n, size) /\ Packing(h, L, n, o)
<1> DEFINE Past(x, k) == \E L, n, j : /\ Compacting(x, L, n, j, size) /\ Packing(x, L, n, o)
                                      /\ Reached(L, n, j, L0, k, N)
                                      /\ k <= 1 => x = Heap /\ L = L0 /\ n = N /\ j = k
                                      /\ k >= 2 => j >= 2
<1>1. /\ Linked(Heap, L0, N) /\ mem = L0[1] /\ Heap \in Heaps /\ Heap.mem = L0[1]
      /\ Tiled(Heap, L0, N, size) /\ NoHoles(Heap, L0, N)
  BY DEF SoundUpTo, Heap
<1>2. N \in Nat
  BY DEF SoundUpTo, Linked
<1>3. PICK g : /\ g[0] = Heap /\ g[N] = h
               /\ \A k \in 1 .. N : g[k] = CompactBody(g[k - 1], L0[k])
  BY <1>1, CompactTurns
<1>4. Past(g[0], 0)
  <2>1. Reached(L0, N, 0, L0, 0, N)
    BY <1>2 DEF Reached
  <2>2. Compacting(Heap, L0, N, 0, size)
    BY <1>1 DEF Compacting
  <2>3. Packing(Heap, L0, N, o)
    <3> DEFINE to == [a \in Used(o) |-> a]
    <3>1. Moves(o, o, to)
      BY DEF Moves, Used
    <3> HIDE DEF to
    <3> QED BY <3>1 DEF Packing
  <2> QED BY <1>3, <2>1, <2>2, <2>3
<1>5. ASSUME NEW k \in 1 .. N, Past(g[k - 1], k - 1) PROVE Past(g[k], k)
  <2>1. PICK L, n, j : /\ Compacting(g[k - 1], L, n, j, size) /\ Packing(g[k - 1], L, n, o)
                       /\ Reached(L, n, j, L0, k - 1, N)
                       /\ k - 1 <= 1 => g[k - 1] = Heap /\ L = L0 /\ n = N /\ j = k - 1
                       /\ k - 1 >= 2 => j >= 2
    BY <1>5
  <2> HIDE DEF Past
  <2> DEFINE i == j + 1
             b == k - 1
  <2>2. n \in Nat
    BY <2>1 DEF Compacting, Linked
  <2>3. i = j + 1 /\ b = k - 1 /\ Reached(L, n, j, L0, b, N)
    BY <1>2, <2>1
  <2> HIDE DEF i, b
  <2>4. Facing(L, n, i, L0, k, N)
    BY <1>2, <2>2, <2>3, ReachNext
  <2>5. i \in 1 .. n /\ i - 1 = j /\ L[i] = L0[k]
    BY <2>2, <2>3, <2>4 DEF Facing, Reached
  <2>6. g[k] = CompactBody(g[k - 1], L[i]) /\ Compacting(g[k - 1], L, n, i - 1, size)
    BY <1>3, <2>1, <2>5
  <2>7. CASE k = 1
    <3>1. g[k - 1] = Heap /\ L = L0 /\ n = N /\ i = 1
      BY <2>1, <2>3, <2>7
    <3>2. g[k] = Heap
      BY <1>1, <2>6, <3>1, CompactFirst
    <3>3. Compacting(Heap, L0, N, 1, size)
      BY <1>1 DEF Compacting
    <3>4. Reached(L0, N, 1, L0, 1, N)
      BY <1>2, <2>7 DEF Reached
    <3>5. Packing(Heap, L0, N, o)
      BY <2>1, <3>1
    <3> QED BY <2>7, <3>2, <3>3, <3>4, <3>5 DEF Past
  <2>8. CASE k # 1
    <3>1. i = 2 => NoHoles(g[k - 1], L, 2)
      <4> SUFFICES ASSUME i = 2 PROVE NoHoles(g[k - 1], L, 2)
        OBVIOUS
      <4>1. g[k - 1] = Heap /\ L = L0 /\ N >= 2
        BY <1>2, <2>1, <2>3, <2>5, <2>8
      <4>2. NoHoles(Heap, L0, 2)
        <5>1. \A x \in 1 .. 2 - 1 : x \in 1 .. N - 1
          BY <1>2, <4>1
        <5>2. NoHoles(Heap, L0, N)
          BY <1>1
        <5> QED BY ONLY <5>1, <5>2 DEF NoHoles
      <4> QED BY <4>1, <4>2
    <3>2. i \in 2 .. n
      BY <1>2, <2>1, <2>2, <2>3, <2>5, <2>8
    <3>3. PICK K, m, a : /\ Compacting(g[k], K, m, a, size) /\ Packing(g[k], K, m, o)
                         /\ a >= 2 /\ Ahead(K, m, a, L, n, i)
      BY <2>1, <2>6, <3>1, <3>2, CompactStep
    <3>4. m \in Nat
      BY <3>3 DEF Compacting, Linked
    <3>5. Reached(K, m, a, L0, k, N)
      BY <1>2, <2>2, <2>4, <3>3, <3>4, ReachFurther
    <3>6. ~(k <= 1)
      BY <1>2, <2>8
    <3> QED BY <3>3, <3>5, <3>6 DEF Past
  <2> QED BY <2>7, <2>8
<1> HIDE DEF Past
<1>6. Past(g[N], N)
  <2> DEFINE S == {k \in 0 .. N : Past(g[k], k)}
  <2>1. 0 \in S
    BY <1>2, <1>4
  <2>2. \A k \in 1 .. N : k - 1 \in S => k \in S
    BY <1>2, <1>5
  <2>3. N \in S
    <3> HIDE DEF S
    <3>1. \A k \in 0 .. N : k \in S
      BY <1>2, <2>1, <2>2, InductionTo
    <3> QED BY <1>2, <3>1
  <2> QED BY <2>3
<1>7. PICK L, n, j : /\ Compacting(h, L, n, j, size) /\ Packing(h, L, n, o)
                     /\ Reached(L, n, j, L0, N, N)
  BY <1>3, <1>6 DEF Past
<1>8. n = j
  <2>1. n \in Nat
    BY <1>7 DEF Compacting, Linked
  <2> QED BY <1>2, <1>7, <2>1 DEF Reached
<1> QED BY <1>7, <1>8

(* What a sound list says of the variables.                                *)
LEMMA SoundList ==
    ASSUME NEW L, NEW n, NEW size \in 0 .. SIZE_MOD - 2, SoundUpTo(Heap, L, n, n, size)
    PROVE  /\ Chain = L /\ Len(Chain) = n /\ n \in Nat \ {0} /\ L \in [1 .. n -> Nodes]
           /\ mem = L[1] /\ live = {L[i] : i \in 1 .. n}
           /\ \A i \in 1 .. n : block[L[i]].lo \in Nat /\ End(block[L[i]]) \in Nat
           /\ \A i \in 1 .. n : /\ Size(L[i]) = End(block[L[i]]) - block[L[i]].lo
                                /\ block[L[i]].lo <= End(block[L[i]])
           /\ block[L[1]].lo = 0 /\ End(block[L[n]]) = size
           /\ \A i \in 1 .. n - 1 : block[L[i + 1]].lo = End(block[L[i]])
<1>1. /\ Heap \in Heaps /\ Linked(Heap, L, n) /\ Tiled(Heap, L, n, size) /\ mem = L[1]
      /\ Heap.block = block /\ Heap.live = live
  BY DEF SoundUpTo, Heap
<1>2. Chain = L
  BY <1>1, ChainIsList
<1>3. n \in Nat \ {0} /\ L \in [1 .. n -> Nodes] /\ live = {L[i] : i \in 1 .. n}
  BY <1>1 DEF Linked
<1>4. Len(L) = n
  BY <1>3
<1>5. ASSUME NEW i \in 1 .. n
      PROVE  /\ block[L[i]].lo \in Nat /\ End(block[L[i]]) \in Nat
             /\ Size(L[i]) = End(block[L[i]]) - block[L[i]].lo
             /\ block[L[i]].lo <= End(block[L[i]])
  <2> DEFINE z == block[L[i]]
  <2>1. z = Heap.block[L[i]] /\ Size(L[i]) = Length(z)
    BY <1>1 DEF Size, Length
  <2> HIDE DEF z
  <2>2. /\ z.lo \in Nat /\ End(z) \in Nat /\ z.lo <= End(z)
        /\ Length(z) = End(z) - z.lo
    BY ZenonT(40), <1>1, <2>1, SizeInList
  <2> QED BY <2>1, <2>2 DEF z
<1>6. /\ block[L[1]].lo = 0 /\ End(block[L[n]]) = size
      /\ \A i \in 1 .. n - 1 : block[L[i + 1]].lo = End(block[L[i]])
  BY <1>1 DEF Tiled
<1> QED BY <1>1, <1>2, <1>3, <1>4, <1>5, <1>6
-----------------------------------------------------------------------------
(* request_memory.                                                         *)

(* A hole of the right size gets a name.                                   *)
Renamed(g, L, n, j, name) ==
    \A i \in 1 .. n :
        /\ g.block[L[i]].lo = block[L[i]].lo /\ g.block[L[i]].hi = block[L[i]].hi
        /\ g.block[L[i]].name = IF i = j THEN name ELSE block[L[i]].name

LEMMA NameStep ==
    ASSUME NEW L, NEW n, NEW size \in 0 .. SIZE_MOD - 2, SoundUpTo(Heap, L, n, n, size),
           NEW j \in 1 .. n, NEW name \in Processes,
           NEW g, g = [mem |-> mem, live |-> live, block |-> [block EXCEPT ![L[j]].name = name]]
    PROVE  SoundUpTo(g, L, n, n, size) /\ Renamed(g, L, n, j, name)
<1> DEFINE x == [block[L[j]] EXCEPT !.name = name]
<1>1. /\ block \in [Nodes -> Blocks] /\ live \in SUBSET Nodes /\ mem \in Nodes
      /\ Linked(Heap, L, n) /\ Tiled(Heap, L, n, size) /\ mem = L[1] /\ NoHoles(Heap, L, n)
      /\ name # NULL
  BY HeapType, AllocatorAssumption DEF SoundUpTo, Heap
<1>2. n \in Nat \ {0} /\ (\A i \in 1 .. n : L[i] \in Nodes) /\ \A i \in 1 .. n : L[i] = L[j] <=> i = j
  BY <1>1 DEF Linked
<1>3. block[L[j]] \in Blocks
  BY <1>1, <1>2
<1>4. /\ x \in Blocks /\ x.name = name /\ x.lo = block[L[j]].lo /\ x.hi = block[L[j]].hi
      /\ x.prev = block[L[j]].prev /\ x.next = block[L[j]].next
  BY <1>3 DEF Blocks
<1>5. g = [mem |-> mem, live |-> live, block |-> [block EXCEPT ![L[j]] = x]]
  OBVIOUS
<1> HIDE DEF x
<1>6. /\ g.mem = mem /\ g.live = live /\ g.block \in [Nodes -> Blocks]
      /\ g.block[L[j]] = x /\ \A b \in Nodes : b # L[j] => g.block[b] = block[b]
  BY <1>1, <1>2, <1>4, <1>5
<1>7. g \in Heaps
  BY <1>1, <1>5, <1>6 DEF Heaps
<1>8. ASSUME NEW i \in 1 .. n
      PROVE  /\ g.block[L[i]].prev = block[L[i]].prev /\ g.block[L[i]].next = block[L[i]].next
             /\ g.block[L[i]].lo = block[L[i]].lo /\ g.block[L[i]].hi = block[L[i]].hi
             /\ g.block[L[i]].name = IF i = j THEN name ELSE block[L[i]].name
  BY <1>2, <1>4, <1>6
<1>9. Heap.live = live /\ Heap.block = block
  BY DEF Heap
<1> DEFINE h == Heap
<1>10. /\ Linked(h, L, n) /\ Tiled(h, L, n, size) /\ g.live = h.live
       /\ \A i \in 1 .. n : /\ g.block[L[i]].prev = h.block[L[i]].prev
                            /\ g.block[L[i]].next = h.block[L[i]].next
                            /\ g.block[L[i]].lo = h.block[L[i]].lo
                            /\ g.block[L[i]].hi = h.block[L[i]].hi
  BY <1>1, <1>6, <1>8, <1>9
<1> HIDE DEF h
<1>11. Linked(g, L, n) /\ Tiled(g, L, n, size)
  <2>1. Linked(g, L, n)
    BY <1>10 DEF Linked
  <2>2. Tiled(g, L, n, size)
    BY <1>10, SameTiles
  <2> QED BY <2>1, <2>2
<1>12. NoHoles(g, L, n)
  <2> SUFFICES ASSUME NEW i \in 1 .. n - 1, g.block[L[i]].name = NULL
               PROVE  g.block[L[i + 1]].name # NULL
    BY DEF NoHoles
  <2>1. i \in 1 .. n /\ i + 1 \in 1 .. n
    BY <1>2
  <2>2. block[L[i]].name = NULL
    BY <1>1, <1>8, <2>1
  <2>3. block[L[i + 1]].name # NULL
    BY <1>1, <1>9, <2>2 DEF NoHoles
  <2> QED BY <1>1, <1>8, <2>1, <2>3
<1>13. SoundUpTo(g, L, n, n, size)
  BY <1>1, <1>6, <1>7, <1>11, <1>12 DEF SoundUpTo
<1>14. Renamed(g, L, n, j, name)
  BY <1>8 DEF Renamed
<1> QED BY <1>13, <1>14

(* The list with a new node after its j-th block.                          *)
WithNode(L, n, j, node) ==
    [i \in 1 .. n + 1 |-> IF i <= j THEN L[i] ELSE IF i = j + 1 THEN node ELSE L[i - 1]]

(* A larger hole is split.                                                 *)
LEMMA SplitStep ==
    ASSUME NEW L, NEW n, NEW size \in 0 .. SIZE_MOD - 2, SoundUpTo(Heap, L, n, n, size),
           NEW j \in 1 .. n, NEW name \in Processes, NEW node \in Nodes \ live,
           NEW amount \in Nat, amount < Size(L[j]), Unused(L[j]),
           NEW g, g = [mem |-> mem, live |-> live \cup {node},
                       block |-> Split(L[j], node, name, amount)]
    PROVE  /\ SoundUpTo(g, WithNode(L, n, j, node), n + 1, n + 1, size)
           /\ \A i \in 1 .. n :
                  /\ g.block[L[i]].name = IF i = j THEN name ELSE block[L[i]].name
                  /\ g.block[L[i]].lo = block[L[i]].lo
                  /\ End(g.block[L[i]]) = IF i = j THEN block[L[j]].lo + amount
                                          ELSE End(block[L[i]])
           /\ g.block[node].name = NULL /\ g.block[node].lo = block[L[j]].lo + amount
           /\ End(g.block[node]) = End(block[L[j]])
<1> DEFINE c == L[j]
           next == block[c].next
           e == block[c].lo + amount
           K == WithNode(L, n, j, node)
           hi == Wrap(block[c].lo + amount - 1)
           x == [block[c] EXCEPT !.name = name, !.next = node, !.hi = hi]
           y == [lo |-> Wrap(e), hi |-> block[c].hi, name |-> NULL, prev |-> c, next |-> next]
<1>1. /\ block \in [Nodes -> Blocks] /\ live \in SUBSET Nodes /\ mem \in Nodes
      /\ Linked(Heap, L, n) /\ Tiled(Heap, L, n, size) /\ mem = L[1] /\ NoHoles(Heap, L, n)
      /\ name # NULL /\ NULL \notin Nodes /\ node \in Nodes /\ node \notin live
      /\ Heap.block = block /\ Heap.live = live /\ Heap \in Heaps
      /\ block[c].name = NULL
  BY HeapType, AllocatorAssumption DEF SoundUpTo, Heap, Unused
<1>2. /\ n \in Nat \ {0} /\ (\A i \in 1 .. n : L[i] \in Nodes /\ L[i] # node /\ L[i] \in live)
      /\ \A i \in 1 .. n : L[i] = c <=> i = j
      /\ \A i \in 1 .. n : L[i] = next <=> i = j + 1
      /\ c \in Nodes /\ c # node /\ block[c] \in Blocks
      /\ next = IF j = n THEN NULL ELSE L[j + 1]
      /\ next \in Nodes \cup {NULL} /\ next # c /\ next # node
  BY <1>1 DEF Linked
<1>3. /\ block[c].lo \in Nat /\ End(block[c]) \in Nat /\ End(block[c]) <= size
      /\ Size(c) = End(block[c]) - block[c].lo
  <2> DEFINE z == block[c]
  <2>1. z = Heap.block[L[j]] /\ Size(c) = Length(z)
    BY <1>1 DEF Size, Length
  <2> HIDE DEF z, c
  <2>2. /\ z.lo \in Nat /\ End(z) \in Nat /\ End(z) <= size
        /\ Length(z) = End(z) - z.lo
    BY <1>1, <2>1, SizeInList
  <2> QED BY <2>1, <2>2 DEF z
<1>4. /\ e \in 0 .. SIZE_MOD - 1 /\ e <= End(block[c]) /\ block[c].lo <= e /\ Wrap(e) = e
      /\ hi \in 0 .. SIZE_MAX /\ Wrap(hi + 1) = e /\ e \in 0 .. SIZE_MAX
  <2>1. /\ e \in 0 .. SIZE_MOD - 1 /\ e <= End(block[c]) /\ block[c].lo <= e
        /\ block[c].lo + (amount - 1) = e - 1
    BY <1>3, AllocatorAssumption
  <2>2. hi = Wrap(e - 1)
    BY <2>1
  <2> HIDE DEF e, hi
  <2>3. Wrap(e) = e
    BY <2>1, WrapValue, AllocatorAssumption
  <2> QED BY <2>1, <2>2, <2>3, EndOfHi DEF SIZE_MAX
<1> HIDE DEF e, hi
<1>5. /\ x \in Blocks /\ x.lo = block[c].lo /\ x.hi = hi /\ x.name = name
      /\ x.prev = block[c].prev /\ x.next = node /\ End(x) = e
  BY <1>1, <1>2, <1>4 DEF Blocks, End
<1>6. /\ y \in Blocks /\ y.lo = e /\ y.hi = block[c].hi /\ y.name = NULL
      /\ y.prev = c /\ y.next = next /\ End(y) = End(block[c])
  BY <1>1, <1>2, <1>4 DEF Blocks, End
<1> DEFINE F(b) == CASE b = node -> y
                     [] b = c -> [block[b] EXCEPT !.name = name, !.next = node, !.hi = hi]
                     [] b = next -> [block[b] EXCEPT !.prev = node]
                     [] OTHER -> block[b]
<1>7. Split(c, node, name, amount) = [b \in Nodes |-> F(b)]
  BY DEF Split, e, hi
<1>8. /\ F(node) = y /\ F(c) = x
      /\ \A b \in Nodes : b # node /\ b # c =>
             F(b) = IF b = next THEN [block[b] EXCEPT !.prev = node] ELSE block[b]
  BY <1>2
<1> HIDE DEF F, next, x, y
<1>9. \A b \in Nodes : F(b) \in Blocks
  <2>1. \A b \in Nodes : block[b] \in Blocks
    BY <1>1
  <2>2. \A b \in Nodes : [block[b] EXCEPT !.prev = node] \in Blocks
    BY <1>1, <2>1 DEF Blocks
  <2> QED BY <1>5, <1>6, <1>8, <2>1, <2>2
<1>10. /\ g.mem = mem /\ g.live = live \cup {node} /\ g.block \in [Nodes -> Blocks]
       /\ \A b \in Nodes : g.block[b] = F(b)
       /\ g \in Heaps
  <2>1. g = [mem |-> mem, live |-> live \cup {node}, block |-> [b \in Nodes |-> F(b)]]
    BY <1>7
  <2> QED BY <1>1, <1>9, <2>1 DEF Heaps
<1>11. ASSUME NEW i \in 1 .. n
       PROVE  /\ g.block[L[i]].name = IF i = j THEN name ELSE block[L[i]].name
              /\ g.block[L[i]].lo = block[L[i]].lo
              /\ End(g.block[L[i]]) = IF i = j THEN e ELSE End(block[L[i]])
              /\ g.block[L[i]].next = IF i = j THEN node ELSE block[L[i]].next
              /\ g.block[L[i]].prev = IF i = j + 1 THEN node ELSE block[L[i]].prev
  <2>1. L[i] \in Nodes /\ L[i] # node /\ block[L[i]] \in Blocks /\ n \in Nat
    BY <1>1, <1>2
  <2>2. CASE i = j
    BY <1>2, <1>5, <1>8, <1>10, <2>1, <2>2
  <2>3. CASE i # j
    <3>1. g.block[L[i]] = IF i = j + 1 THEN [block[L[i]] EXCEPT !.prev = node] ELSE block[L[i]]
      BY <1>2, <1>8, <1>10, <2>1, <2>3
    <3> QED BY <2>1, <2>3, <3>1 DEF Blocks, End
  <2> QED BY <2>2, <2>3
<1>12. g.block[node] = y
  BY <1>1, <1>8, <1>10
<1>13. /\ K \in [1 .. n + 1 -> Nodes]
       /\ \A i \in 1 .. n + 1 : K[i] = IF i <= j THEN L[i] ELSE IF i = j + 1 THEN node ELSE L[i - 1]
  BY <1>1, <1>2 DEF WithNode
<1> HIDE DEF K
<1>14. Linked(g, K, n + 1)
  <2>1. \A i, k \in 1 .. n + 1 : K[i] = K[k] => i = k
    <3>1. \A i, k \in 1 .. n : L[i] = L[k] => i = k
      BY <1>1 DEF Linked
    <3> QED BY <1>2, <1>13, <3>1
  <2>2. g.live = {K[i] : i \in 1 .. n + 1}
    <3>1. ASSUME NEW b \in g.live PROVE b \in {K[i] : i \in 1 .. n + 1}
      <4>1. CASE b = node
        <5>1. j + 1 \in 1 .. n + 1 /\ K[j + 1] = node
          BY <1>2, <1>13
        <5> QED BY <4>1, <5>1
      <4>2. CASE b # node
        <5>1. PICK i \in 1 .. n : b = L[i]
          BY <1>1, <1>10, <4>2 DEF Linked
        <5> DEFINE k == IF i <= j THEN i ELSE i + 1
        <5>2. k \in 1 .. n + 1 /\ K[k] = b
          BY <1>2, <1>13, <5>1
        <5> QED BY <5>2
      <4> QED BY <4>1, <4>2
    <3>2. ASSUME NEW i \in 1 .. n + 1 PROVE K[i] \in g.live
      BY <1>2, <1>10, <1>13
    <3> QED BY <3>1, <3>2
  <2>3. ASSUME NEW i \in 1 .. n + 1
        PROVE  /\ g.block[K[i]].next = IF i = n + 1 THEN NULL ELSE K[i + 1]
               /\ g.block[K[i]].prev = IF i = 1 THEN NULL ELSE K[i - 1]
    <3>1. \A k \in 1 .. n : /\ block[L[k]].next = IF k = n THEN NULL ELSE L[k + 1]
                            /\ block[L[k]].prev = IF k = 1 THEN NULL ELSE L[k - 1]
      BY <1>1 DEF Linked
    <3>2. CASE i <= j
      <4>1. K[i] = L[i] /\ i \in 1 .. n /\ (i # 1 => K[i - 1] = L[i - 1])
            /\ K[i + 1] = (IF i = j THEN node ELSE L[i + 1])
        BY <1>2, <1>13, <3>2
      <4> QED BY <1>2, <1>11, <3>1, <3>2, <4>1
    <3>3. CASE i = j + 1
      <4>1. K[i] = node /\ K[i - 1] = c /\ (i # n + 1 => K[i + 1] = L[j + 1])
        BY <1>2, <1>13, <3>3
      <4> QED BY <1>2, <1>6, <1>12, <3>3, <4>1
    <3>4. CASE i > j + 1
      <4> DEFINE k == i - 1
      <4>1. /\ k \in 1 .. n /\ K[i] = L[k] /\ k # j /\ k > j
            /\ i # n + 1 => k # n /\ K[i + 1] = L[k + 1]
            /\ i = n + 1 => k = n
            /\ K[i - 1] = IF k = j + 1 THEN node ELSE L[k - 1]
        <5>1. k \in 1 .. n /\ k + 1 = i /\ k # j /\ k > j /\ (i = n + 1 <=> k = n)
          BY <1>2, <3>4
        <5>2. K[i] = L[k]
          BY <1>13, <3>4
        <5>3. i # n + 1 => K[i + 1] = L[k + 1]
          BY <1>2, <1>13, <3>4, <5>1
        <5>4. K[i - 1] = IF k = j + 1 THEN node ELSE L[k - 1]
          <6>1. i - 1 \in 1 .. n + 1 /\ ~(i - 1 <= j)
            BY <1>2, <3>4
          <6> QED BY <1>13, <5>1, <6>1
        <5> QED BY <5>1, <5>2, <5>3, <5>4
      <4> HIDE DEF k
      <4> QED BY <1>2, <1>11, <3>1, <3>4, <4>1
    <3> QED BY <1>2, <3>2, <3>3, <3>4
  <2> QED BY <1>2, <1>13, <2>1, <2>2, <2>3 DEF Linked
<1>15. Tiled(g, K, n + 1, size)
  <2>1. /\ block[L[1]].lo = 0 /\ End(block[L[n]]) = size
        /\ \A i \in 1 .. n : block[L[i]].lo <= End(block[L[i]]) /\ End(block[L[i]]) <= size
        /\ \A i \in 1 .. n - 1 : block[L[i + 1]].lo = End(block[L[i]])
    BY <1>1 DEF Tiled
  <2>2. g.block[K[1]].lo = 0 /\ End(g.block[K[n + 1]]) = size
    <3>1. K[1] = L[1] /\ K[n + 1] = IF j = n THEN node ELSE L[n]
      BY <1>2, <1>13
    <3> QED BY <1>2, <1>6, <1>11, <1>12, <2>1, <3>1
  <2>3. ASSUME NEW i \in 1 .. n + 1
        PROVE  g.block[K[i]].lo <= End(g.block[K[i]]) /\ End(g.block[K[i]]) <= size
    <3>1. CASE i = j + 1
      <4>1. K[i] = node
        BY <1>2, <1>13, <3>1
      <4> QED BY <1>3, <1>4, <1>6, <1>12, <4>1
    <3>2. CASE i = j
      <4>1. K[i] = L[i] /\ i \in 1 .. n
        BY <1>2, <1>13, <3>2
      <4>2. size \in Nat
        BY AllocatorAssumption
      <4> QED BY <1>3, <1>4, <1>11, <3>2, <4>1, <4>2, AllocatorAssumption
    <3>3. CASE i # j /\ i # j + 1
      <4> DEFINE k == IF i < j THEN i ELSE i - 1
      <4>1. k \in 1 .. n /\ K[i] = L[k] /\ k # j
        BY <1>2, <1>13, <3>3
      <4> HIDE DEF k
      <4> QED BY <1>11, <2>1, <4>1
    <3> QED BY <3>1, <3>2, <3>3
  <2>4. ASSUME NEW i \in 1 .. (n + 1) - 1
        PROVE  g.block[K[i + 1]].lo = End(g.block[K[i]])
    <3>1. CASE i = j
      <4>1. K[i] = L[i] /\ K[i + 1] = node /\ i \in 1 .. n
        BY <1>2, <1>13, <3>1
      <4> QED BY <1>6, <1>11, <1>12, <3>1, <4>1
    <3>2. CASE i = j + 1
      <4>1. K[i] = node /\ K[i + 1] = L[j + 1] /\ j + 1 \in 1 .. n /\ j \in 1 .. n - 1
        BY <1>2, <1>13, <3>2
      <4> QED BY <1>6, <1>11, <1>12, <2>1, <4>1
    <3>3. CASE i # j /\ i # j + 1
      <4> DEFINE k == IF i < j THEN i ELSE i - 1
      <4>1. k \in 1 .. n /\ k + 1 \in 1 .. n /\ k \in 1 .. n - 1 /\ K[i] = L[k] /\ k # j /\ K[i + 1] = L[k + 1]
        BY <1>2, <1>13, <3>3
      <4> HIDE DEF k
      <4> QED BY <1>11, <2>1, <4>1
    <3> QED BY <3>1, <3>2, <3>3
  <2> QED BY <2>2, <2>3, <2>4 DEF Tiled
<1>16. NoHoles(g, K, n + 1)
  <2> SUFFICES ASSUME NEW i \in 1 .. (n + 1) - 1, g.block[K[i]].name = NULL
               PROVE  g.block[K[i + 1]].name # NULL
    BY DEF NoHoles
  <2>1. \A k \in 1 .. n - 1 : block[L[k]].name = NULL => block[L[k + 1]].name # NULL
    BY <1>1 DEF NoHoles
  <2>2. CASE i = j
    <3>1. K[i] = L[i] /\ i \in 1 .. n
      BY <1>2, <1>13, <2>2
    <3> QED BY <1>1, <1>11, <2>2, <3>1
  <2>3. CASE i = j + 1
    <3>1. K[i + 1] = L[j + 1] /\ j + 1 \in 1 .. n /\ j \in 1 .. n - 1 /\ j + 1 # j
      BY <1>2, <1>13, <2>3
    <3> QED BY <1>1, <1>11, <2>1, <3>1
  <2>4. CASE i # j /\ i # j + 1
    <3> DEFINE k == IF i < j THEN i ELSE i - 1
    <3>1. /\ k \in 1 .. n /\ k + 1 \in 1 .. n /\ k \in 1 .. n - 1 /\ K[i] = L[k] /\ k # j
          /\ K[i + 1] = L[k + 1]
      <4>1. CASE i < j
        BY <1>2, <1>13, <4>1
      <4>2. CASE i > j + 1
        BY <1>2, <1>13, <4>2
      <4> QED BY <1>2, <2>4, <4>1, <4>2
    <3> HIDE DEF k
    <3> QED BY <1>1, <1>11, <2>1, <3>1
  <2> QED BY <2>2, <2>3, <2>4
<1>17. g.mem = K[1]
  BY <1>1, <1>2, <1>10, <1>13
<1>18. SoundUpTo(g, K, n + 1, n + 1, size)
  BY <1>10, <1>14, <1>15, <1>16, <1>17 DEF SoundUpTo
<1> QED BY <1>6, <1>11, <1>12, <1>18 DEF K, e

(* What a request does to the bytes: amount of them, from first on, get    *)
(* the name.                                                               *)
Granted(o, first, amount, name) ==
    [a \in DOMAIN o |-> IF first <= a /\ a < first + amount THEN name ELSE o[a]]

(* The bytes of an unused block are free.                                  *)
LEMMA HoleIsFree ==
    ASSUME NEW L, NEW n, NEW size \in 0 .. SIZE_MOD - 2, SoundUpTo(Heap, L, n, n, size),
           NEW o, DOMAIN o = 0 .. size - 1, Owned(Heap, L, n, o),
           NEW j \in 1 .. n, Unused(L[j]), NEW amount \in Nat, amount <= Size(L[j]),
           NEW first, first = block[L[j]].lo
    PROVE  /\ first \in Nat /\ first + amount <= size
           /\ \A a \in DOMAIN o : first <= a /\ a < first + amount => o[a] = NULL
           /\ \A a \in Int : first <= a /\ a < first + amount => Covers(block[L[j]], a)
<1> DEFINE z == block[L[j]]
<1>1. z = Heap.block[L[j]] /\ z.name = NULL
  BY DEF Heap, Unused
<1>2. Heap \in Heaps /\ Linked(Heap, L, n) /\ Tiled(Heap, L, n, size) /\ size \in Nat
  BY AllocatorAssumption DEF SoundUpTo
<1>3. /\ z.lo \in Nat /\ End(z) \in Nat
      /\ Size(L[j]) = End(z) - z.lo
  BY SoundList
<1> HIDE DEF z
<1>4. End(z) <= size
  BY <1>1, <1>2, SizeInList
<1>5. first = z.lo /\ first + amount <= End(z)
  BY <1>3 DEF z
<1>6. \A a \in Int : first <= a /\ a < first + amount => Covers(z, a)
  BY <1>3, <1>5 DEF Covers
<1>7. ASSUME NEW a \in DOMAIN o, first <= a, a < first + amount PROVE o[a] = NULL
  <2>1. a \in Int
    BY <1>2
  <2>2. Covers(Heap.block[L[j]], a)
    BY <1>1, <1>6, <1>7, <2>1
  <2> QED BY <1>1, <2>2 DEF Owned
<1>8. first + amount <= size
  BY <1>2, <1>3, <1>4, <1>5
<1> QED BY <1>3, <1>5, <1>6, <1>7, <1>8 DEF z

LEMMA NameOwned ==
    ASSUME NEW L, NEW n, NEW size \in 0 .. SIZE_MOD - 2, SoundUpTo(Heap, L, n, n, size),
           NEW o, DOMAIN o = 0 .. size - 1, Owned(Heap, L, n, o),
           NEW j \in 1 .. n, NEW name, NEW amount \in Nat, amount = Size(L[j]),
           NEW g, Renamed(g, L, n, j, name),
           NEW q, q = Granted(o, block[L[j]].lo, amount, name)
    PROVE  Owned(g, L, n, q)
<1> DEFINE first == block[L[j]].lo
<1>1. /\ Heap \in Heaps /\ Linked(Heap, L, n) /\ Tiled(Heap, L, n, size) /\ Heap.block = block
  BY DEF SoundUpTo, Heap
<1>2. \A i \in 1 .. n : g.block[L[i]].name = IF i = j THEN name ELSE block[L[i]].name
  BY DEF Renamed
<1>3. \A i \in 1 .. n : \A a : Covers(g.block[L[i]], a) <=> Covers(block[L[i]], a)
  BY DEF Covers, End, Renamed
<1>4. /\ first \in Nat /\ first + amount = End(block[L[j]])
      /\ \A a \in Int : first <= a /\ a < first + amount => Covers(block[L[j]], a)
  <2>1. amount = End(block[L[j]]) - first /\ first \in Nat /\ End(block[L[j]]) \in Nat
    BY SoundList
  <2> HIDE DEF first
  <2> QED BY <2>1 DEF Covers, first
<1> HIDE DEF first
<1>5. SUFFICES ASSUME NEW i \in 1 .. n, NEW a \in DOMAIN o, Covers(g.block[L[i]], a)
               PROVE  q[a] = g.block[L[i]].name
  BY DEF Owned, Granted
<1>6. a \in Int /\ Covers(Heap.block[L[i]], a) /\ Covers(block[L[i]], a)
  BY <1>1, <1>3, <1>5, AllocatorAssumption
<1>7. o[a] = block[L[i]].name
  BY <1>1, <1>6 DEF Owned
<1>8. q[a] = IF first <= a /\ a < first + amount THEN name ELSE o[a]
  BY DEF Granted, first
<1>9. CASE i = j
  BY <1>2, <1>4, <1>6, <1>8, <1>9 DEF Covers, first
<1>10. CASE i # j
  <2>1. ~(first <= a /\ a < first + amount)
    <3>1. ~Covers(Heap.block[L[j]], a)
      BY <1>1, <1>6, <1>10, OneBlockAt
    <3> QED BY <1>1, <1>4, <1>6, <3>1
  <2> QED BY <1>2, <1>7, <1>8, <1>10, <2>1
<1> QED BY <1>9, <1>10

(* After a split the two parts cover the bytes that the hole covered.      *)
LEMMA SplitOwned ==
    ASSUME NEW L, NEW n, NEW size \in 0 .. SIZE_MOD - 2, SoundUpTo(Heap, L, n, n, size),
           NEW o, DOMAIN o = 0 .. size - 1, Owned(Heap, L, n, o),
           NEW j \in 1 .. n, NEW name, NEW amount \in Nat, amount <= Size(L[j]), Unused(L[j]),
           NEW node, NEW K, K = WithNode(L, n, j, node),
           NEW g, \A i \in 1 .. n :
                      /\ g.block[L[i]].name = IF i = j THEN name ELSE block[L[i]].name
                      /\ g.block[L[i]].lo = block[L[i]].lo
                      /\ End(g.block[L[i]]) = IF i = j THEN block[L[j]].lo + amount
                                              ELSE End(block[L[i]]),
           g.block[node].name = NULL, g.block[node].lo = block[L[j]].lo + amount,
           End(g.block[node]) = End(block[L[j]]),
           NEW q, q = Granted(o, block[L[j]].lo, amount, name)
    PROVE  Owned(g, K, n + 1, q)
<1> DEFINE first == block[L[j]].lo
           h == Heap
<1>1. /\ h \in Heaps /\ Linked(h, L, n) /\ Tiled(h, L, n, size) /\ h.block = block
      /\ n \in Nat /\ Owned(h, L, n, o)
  BY DEF SoundUpTo, Heap, Linked
<1> HIDE DEF h
<1>2. \A i, k \in 1 .. n, a \in Int :
          Covers(h.block[L[i]], a) /\ Covers(h.block[L[k]], a) => i = k
  BY <1>1, OneBlockAt
<1>3. /\ first \in Nat /\ End(block[L[j]]) \in Nat /\ first + amount <= End(block[L[j]])
  <2>1. Size(L[j]) = End(block[L[j]]) - first /\ first \in Nat /\ End(block[L[j]]) \in Nat
    BY SoundList
  <2> HIDE DEF first
  <2> QED BY <2>1
<1>4. SUFFICES ASSUME NEW k \in 1 .. n + 1, NEW a \in DOMAIN o, Covers(g.block[K[k]], a)
               PROVE  q[a] = g.block[K[k]].name
  BY DEF Owned, Granted
<1>5. q[a] = IF first <= a /\ a < first + amount THEN name ELSE o[a]
  BY DEF Granted
<1>6. a \in Int
  BY AllocatorAssumption
<1>7. \A i \in 1 .. n : Covers(block[L[i]], a) => o[a] = block[L[i]].name
  BY <1>1 DEF Owned
<1> HIDE DEF first
<1>8. CASE k = j + 1
  <2>1. K[k] = node
    BY <1>1, <1>8 DEF WithNode
  <2>2. first + amount <= a /\ a < End(block[L[j]])
    BY <1>4, <2>1 DEF Covers, first
  <2>3. o[a] = NULL
    BY <1>3, <1>6, <1>7, <2>2 DEF Covers, Unused, first
  <2> QED BY <1>3, <1>5, <1>6, <2>1, <2>2, <2>3
<1>9. CASE k # j + 1
  <2> DEFINE i == IF k <= j THEN k ELSE k - 1
  <2>1. i \in 1 .. n /\ K[k] = L[i]
    BY <1>1, <1>9 DEF WithNode
  <2> HIDE DEF i
  <2>2. CASE i = j
    <3>1. first <= a /\ a < first + amount
      BY <1>4, <2>1, <2>2 DEF Covers, first
    <3> QED BY <1>5, <2>1, <2>2, <3>1
  <2>3. CASE i # j
    <3>1. Covers(h.block[L[i]], a) /\ Covers(block[L[i]], a) /\ g.block[K[k]].name = block[L[i]].name
      BY <1>1, <1>4, <2>1, <2>3 DEF Covers
    <3>2. ~Covers(h.block[L[j]], a)
      BY <1>2, <1>6, <2>1, <2>3, <3>1
    <3>3. ~(first <= a /\ a < first + amount)
      BY <1>1, <1>3, <1>6, <3>2 DEF Covers, first
    <3> QED BY <1>5, <1>7, <2>1, <3>1, <3>3
  <2> QED BY <2>2, <2>3
<1> QED BY <1>8, <1>9
-----------------------------------------------------------------------------
(* The three ways to choose a hole.  Each loop runs over the list.         *)

(* No block of the list is larger than the memory.                         *)
LEMMA ListSizes ==
    ASSUME NEW L, NEW n, NEW size \in 0 .. SIZE_MOD - 2, SoundUpTo(Heap, L, n, n, size)
    PROVE  \A i \in 1 .. n : Size(L[i]) \in 0 .. size
<1> SUFFICES ASSUME NEW i \in 1 .. n PROVE Size(L[i]) \in 0 .. size
  OBVIOUS
<1> DEFINE z == block[L[i]]
<1>1. z = Heap.block[L[i]] /\ Size(L[i]) = Length(z)
  BY DEF Heap, Size, Length
<1>2. Heap \in Heaps /\ Linked(Heap, L, n) /\ Tiled(Heap, L, n, size)
  BY DEF SoundUpTo
<1> HIDE DEF z
<1>3. Length(z) = End(z) - z.lo /\ End(z) - z.lo \in 0 .. size
  BY ZenonT(40), <1>1, <1>2, SizeInList
<1> QED BY <1>1, <1>3

(* The first hole of the list that is large enough, if any.                *)
LEMMA FirstFitIsFirst ==
    ASSUME NEW L, NEW n, NEW size \in 0 .. SIZE_MOD - 2, SoundUpTo(Heap, L, n, n, size),
           NEW amount \in Nat
    PROVE  \/ /\ FirstFit(amount) = NULL
              /\ \A i \in 1 .. n : ~(Unused(L[i]) /\ Size(L[i]) >= amount)
           \/ \E j \in 1 .. n : /\ FirstFit(amount) = L[j] /\ Unused(L[j]) /\ Size(L[j]) >= amount
                                /\ \A i \in 1 .. j - 1 : ~(Unused(L[i]) /\ Size(L[i]) >= amount)
<1> DEFINE Fits(b) == Unused(b) /\ Size(b) >= amount
           Eq(s) == s = [k \in 0 .. Len(Chain) |->
                             IF k = 0 THEN NULL
                             ELSE IF s[k - 1] = NULL /\ Unused(Chain[k]) /\ Size(Chain[k]) >= amount
                                  THEN Chain[k] ELSE s[k - 1]]
           after == CHOOSE s : Eq(s)
           V == Nodes \cup {NULL}
           H == [k \in 1 .. n |-> [x \in V |-> IF x = NULL /\ Fits(L[k]) THEN L[k] ELSE x]]
<1>1. FirstFit(amount) = after[Len(Chain)]
  BY DEF FirstFit, Walk
<1>2. /\ Heap \in Heaps /\ Linked(Heap, L, n) /\ mem = L[1]
      /\ n \in Nat /\ L \in [1 .. n -> Nodes] /\ NULL \notin Nodes
  BY AllocatorAssumption DEF SoundUpTo, Linked, Heap
<1>3. Chain = L /\ Len(Chain) = n
  <2>1. Chain = L
    BY <1>2, ChainIsList
  <2>2. Len(L) = n
    BY <1>2
  <2> QED BY <2>1, <2>2
<1>4. H \in [1 .. n -> [V -> V]]
  BY <1>2
<1>5. \A k \in 1 .. n, x \in V : H[k][x] = IF x = NULL /\ Fits(L[k]) THEN L[k] ELSE x
  OBVIOUS
<1> HIDE DEF H, after
<1>6. NULL \in V
  OBVIOUS
<1> HIDE DEF V
<1>7. PICK g \in [0 .. n -> V] : Computes(g, NULL, H, n)
  BY <1>2, <1>4, <1>6, RecursionTo
<1>8. g[0] = NULL /\ \A k \in 1 .. n : g[k] = IF g[k - 1] = NULL /\ Fits(L[k]) THEN L[k] ELSE g[k - 1]
  <2>1. \A k \in 1 .. n : g[k - 1] \in V
    BY <1>2
  <2> QED BY <1>5, <1>7, <2>1 DEF Computes
<1>9. Eq(g)
  <2>1. \A k \in 0 .. n : g[k] = IF k = 0 THEN NULL
                                 ELSE IF g[k - 1] = NULL /\ Fits(L[k]) THEN L[k] ELSE g[k - 1]
    BY <1>2, <1>8
  <2>2. g = [k \in 0 .. n |-> IF k = 0 THEN NULL
                              ELSE IF g[k - 1] = NULL /\ Fits(L[k]) THEN L[k] ELSE g[k - 1]]
    BY <2>1
  <2> QED BY <1>3, <2>2
<1>10. Eq(after)
  <2> HIDE DEF Eq
  <2> QED BY <1>9 DEF after
<1>11. after = [k \in 0 .. n |-> IF k = 0 THEN NULL
                                 ELSE IF after[k - 1] = NULL /\ Fits(L[k]) THEN L[k] ELSE after[k - 1]]
  BY <1>3, <1>10
<1> HIDE DEF Fits
<1>12. after[0] = NULL /\ \A k \in 1 .. n : after[k] = IF after[k - 1] = NULL /\ Fits(L[k])
                                                       THEN L[k] ELSE after[k - 1]
  BY <1>2, <1>11
<1> DEFINE Found(x, k) == \/ x = NULL /\ \A i \in 1 .. k : ~Fits(L[i])
                          \/ \E j \in 1 .. k : /\ x = L[j] /\ Fits(L[j])
                                               /\ \A i \in 1 .. j - 1 : ~Fits(L[i])
           S == {k \in 0 .. n : Found(after[k], k)}
<1>13. 0 \in S
  BY <1>2, <1>12
<1>14. ASSUME NEW k \in 1 .. n, Found(after[k - 1], k - 1) PROVE Found(after[k], k)
  <2>1. CASE after[k - 1] = NULL /\ \A i \in 1 .. k - 1 : ~Fits(L[i])
    <3>1. CASE Fits(L[k])
      <4>1. after[k] = L[k]
        BY <1>12, <2>1, <3>1
      <4> QED BY <2>1, <3>1, <4>1
    <3>2. CASE ~Fits(L[k])
      <4>1. after[k] = NULL
        BY <1>12, <2>1, <3>2
      <4>2. \A i \in 1 .. k : i = k \/ i \in 1 .. k - 1
        BY <1>2
      <4>3. \A i \in 1 .. k : ~Fits(L[i])
        BY <2>1, <3>2, <4>2
      <4> QED BY <4>1, <4>3
    <3> QED BY <3>1, <3>2
  <2>2. CASE \E j \in 1 .. k - 1 : /\ after[k - 1] = L[j] /\ Fits(L[j])
                                   /\ \A i \in 1 .. j - 1 : ~Fits(L[i])
    <3>1. PICK j \in 1 .. k - 1 : /\ after[k - 1] = L[j] /\ Fits(L[j])
                                  /\ \A i \in 1 .. j - 1 : ~Fits(L[i])
      BY <2>2
    <3>2. j \in 1 .. k /\ j \in 1 .. n
      BY <1>2
    <3>3. after[k] = L[j]
      BY <1>2, <1>12, <3>1, <3>2
    <3> QED BY <3>1, <3>2, <3>3
  <2> QED BY <1>14, <2>1, <2>2
<1>15. n \in S
  <2>1. \A k \in 1 .. n : k - 1 \in S => k \in S
    BY <1>2, <1>14
  <2> HIDE DEF S
  <2>2. \A k \in 0 .. n : k \in S
    BY <1>2, <1>13, <2>1, InductionTo
  <2> QED BY <1>2, <2>2
<1> QED BY <1>1, <1>3, <1>15 DEF Fits

(* The smallest hole of the list that is large enough, if any.             *)
LEMMA BestFitIsBest ==
    ASSUME NEW L, NEW n, NEW size \in 0 .. SIZE_MOD - 2, SoundUpTo(Heap, L, n, n, size),
           NEW amount \in Nat
    PROVE  \/ /\ BestFit(amount) = NULL
              /\ \A i \in 1 .. n : ~(Unused(L[i]) /\ Size(L[i]) >= amount)
           \/ \E j \in 1 .. n : /\ BestFit(amount) = L[j] /\ Unused(L[j]) /\ Size(L[j]) >= amount
                                /\ \A i \in 1 .. n : Unused(L[i]) /\ Size(L[i]) >= amount
                                                     => Size(L[j]) <= Size(L[i])
<1> DEFINE Fits(b) == Unused(b) /\ amount <= Size(b)
           start == [min |-> SIZE_MAX, hole |-> NULL]
           Eq(s) == s = [k \in 0 .. Len(Chain) |->
                             IF k = 0 THEN [min |-> SIZE_MAX, hole |-> NULL]
                             ELSE IF Unused(Chain[k]) /\ amount <= Size(Chain[k])
                                     /\ Size(Chain[k]) < s[k - 1].min
                                  THEN [min |-> Size(Chain[k]), hole |-> Chain[k]] ELSE s[k - 1]]
           after == CHOOSE s : Eq(s)
           V == [min : 0 .. SIZE_MAX, hole : Nodes \cup {NULL}]
           this(k) == [min |-> Size(L[k]), hole |-> L[k]]
           H == [k \in 1 .. n |-> [x \in V |-> IF Fits(L[k]) /\ Size(L[k]) < x.min
                                               THEN this(k) ELSE x]]
<1>1. BestFit(amount) = after[Len(Chain)].hole
  BY DEF BestFit, Walk
<1>2. /\ Heap \in Heaps /\ Linked(Heap, L, n) /\ mem = L[1]
      /\ n \in Nat /\ L \in [1 .. n -> Nodes] /\ NULL \notin Nodes
  BY AllocatorAssumption DEF SoundUpTo, Linked, Heap
<1>3. Chain = L /\ Len(Chain) = n
  <2>1. Chain = L
    BY <1>2, ChainIsList
  <2>2. Len(L) = n
    BY <1>2
  <2> QED BY <2>1, <2>2
<1>4. \A k \in 1 .. n : /\ this(k) \in V /\ Size(L[k]) \in Nat /\ Size(L[k]) < SIZE_MAX
                        /\ this(k).min = Size(L[k]) /\ this(k).hole = L[k]
  <2>1. \A k \in 1 .. n : Size(L[k]) \in 0 .. size
    BY ListSizes
  <2> QED BY <1>2, <2>1, AllocatorAssumption DEF SIZE_MAX
<1> HIDE DEF V
<1>5. H \in [1 .. n -> [V -> V]]
  BY <1>4
<1>6. \A k \in 1 .. n, x \in V : H[k][x] = IF Fits(L[k]) /\ Size(L[k]) < x.min
                                           THEN this(k) ELSE x
  OBVIOUS
<1>7. start \in V /\ start.min = SIZE_MAX /\ start.hole = NULL
  BY AllocatorAssumption DEF SIZE_MAX, V
<1> HIDE DEF H, after, start
<1>8. PICK g \in [0 .. n -> V] : Computes(g, start, H, n)
  BY <1>2, <1>5, <1>7, RecursionTo
<1>9. g[0] = start /\ \A k \in 1 .. n : g[k] = IF Fits(L[k]) /\ Size(L[k]) < g[k - 1].min
                                               THEN this(k) ELSE g[k - 1]
  <2>1. \A k \in 1 .. n : g[k - 1] \in V
    BY <1>2
  <2> HIDE DEF this, Fits
  <2> QED BY <1>6, <1>8, <2>1 DEF Computes
<1>10. Eq(g)
  <2>1. \A k \in 0 .. n : g[k] = IF k = 0 THEN start
                                 ELSE IF Fits(L[k]) /\ Size(L[k]) < g[k - 1].min
                                      THEN this(k) ELSE g[k - 1]
    <3> HIDE DEF this, Fits
    <3> QED BY <1>2, <1>9
  <2>2. g = [k \in 0 .. n |-> IF k = 0 THEN start
                              ELSE IF Fits(L[k]) /\ Size(L[k]) < g[k - 1].min
                                   THEN this(k) ELSE g[k - 1]]
    <3> HIDE DEF this, Fits
    <3> QED BY <2>1
  <2> QED BY <1>3, <2>2 DEF start
<1>11. Eq(after)
  <2> HIDE DEF Eq
  <2> QED BY <1>10 DEF after
<1>12. after = [k \in 0 .. n |-> IF k = 0 THEN start
                                 ELSE IF Fits(L[k]) /\ Size(L[k]) < after[k - 1].min
                                      THEN this(k) ELSE after[k - 1]]
  BY <1>3, <1>11 DEF start
<1> HIDE DEF Fits, this, Eq
<1>13. after[0] = start /\ \A k \in 1 .. n : after[k] = IF Fits(L[k]) /\ Size(L[k]) < after[k - 1].min
                                                        THEN this(k) ELSE after[k - 1]
  BY <1>2, <1>12
<1> DEFINE None(x, k) == x.hole = NULL /\ x.min = SIZE_MAX /\ \A i \in 1 .. k : ~Fits(L[i])
           Best(x, k, j) == /\ x.hole = L[j] /\ x.min = Size(L[j]) /\ Fits(L[j])
                            /\ \A i \in 1 .. k : Fits(L[i]) => x.min <= Size(L[i])
           Found(x, k) == None(x, k) \/ \E j \in 1 .. k : Best(x, k, j)
           S == {k \in 0 .. n : Found(after[k], k)}
<1>14. 0 \in S
  BY <1>2, <1>7, <1>13
<1>15. ASSUME NEW k \in 1 .. n, Found(after[k - 1], k - 1) PROVE Found(after[k], k)
  <2> DEFINE x == after[k - 1]
  <2>1. /\ k \in 1 .. k /\ \A i \in 1 .. k - 1 : i \in 1 .. k /\ i \in 1 .. n
        /\ \A i \in 1 .. k : i = k \/ i \in 1 .. k - 1
        /\ after[k] = IF Fits(L[k]) /\ Size(L[k]) < x.min THEN this(k) ELSE x
    BY <1>2, <1>13
  <2>2. PICK m : m = Size(L[k]) /\ m \in Nat /\ m < SIZE_MAX
    BY <1>4
  <2>3. CASE None(x, k - 1)
    <3>1. CASE Fits(L[k])
      <4>1. after[k] = this(k)
        BY <2>1, <2>2, <2>3, <3>1
      <4>2. Best(after[k], k, k)
        BY <1>4, <2>1, <2>2, <2>3, <3>1, <4>1
      <4> QED BY <2>1, <4>2
    <3>2. CASE ~Fits(L[k])
      <4>1. after[k] = x
        BY <2>1, <3>2
      <4>2. None(after[k], k)
        BY <2>1, <2>3, <3>2, <4>1
      <4> QED BY <4>2
    <3> QED BY <3>1, <3>2
  <2>4. ASSUME NEW j \in 1 .. k - 1, Best(x, k - 1, j) PROVE Found(after[k], k)
    <3>1. CASE Fits(L[k]) /\ m < x.min
      <4>1. after[k] = this(k)
        BY <2>1, <2>2, <3>1
      <4>2. \A i \in 1 .. k : Fits(L[i]) => m <= Size(L[i])
        <5> SUFFICES ASSUME NEW i \in 1 .. k, Fits(L[i]) PROVE m <= Size(L[i])
          OBVIOUS
        <5>1. CASE i = k
          BY <2>2, <5>1
        <5>2. CASE i # k
          <6>1. i \in 1 .. k - 1 /\ i \in 1 .. n /\ j \in 1 .. n
            BY <2>1, <5>2
          <6>2. PICK m2 : m2 = Size(L[i]) /\ m2 \in Nat
            BY <1>4, <6>1
          <6>3. PICK m3 : m3 = Size(L[j]) /\ m3 \in Nat
            BY <1>4, <6>1
          <6> QED BY <2>2, <2>4, <3>1, <6>1, <6>2, <6>3
        <5> QED BY <5>1, <5>2
      <4>3. Best(after[k], k, k)
        BY <1>4, <2>2, <3>1, <4>1, <4>2
      <4> QED BY <2>1, <4>3
    <3>2. CASE ~(Fits(L[k]) /\ m < x.min)
      <4>1. after[k] = x
        BY <2>1, <2>2, <3>2
      <4>2. j \in 1 .. k /\ j \in 1 .. n
        BY <2>1
      <4>3. PICK m3 : m3 = Size(L[j]) /\ m3 \in Nat
        BY <1>4, <4>2
      <4>4. Fits(L[k]) => x.min <= Size(L[k])
        BY <2>2, <2>4, <3>2, <4>3
      <4>5. Best(after[k], k, j)
        BY <2>1, <2>4, <4>1, <4>4
      <4> QED BY <4>2, <4>5
    <3> QED BY <3>1, <3>2
  <2> QED BY <1>15, <2>3, <2>4
<1>16. n \in S
  <2>1. \A k \in 1 .. n : k - 1 \in S => k \in S
    <3> HIDE DEF Found
    <3> SUFFICES ASSUME NEW k \in 1 .. n, k - 1 \in S PROVE k \in S
      OBVIOUS
    <3>1. Found(after[k], k)
      BY <1>15
    <3> QED BY <1>2, <3>1
  <2> HIDE DEF S
  <2>2. \A k \in 0 .. n : k \in S
    BY <1>2, <1>14, <2>1, InductionTo
  <2> QED BY <1>2, <2>2
<1>17. \A i \in 1 .. n : Size(L[i]) >= amount <=> amount <= Size(L[i])
  BY <1>4
<1> QED BY <1>1, <1>3, <1>16, <1>17 DEF Fits

(* The largest hole that is larger than least, the value max starts from.  *)
LEMMA WorstFitIsWorst ==
    ASSUME NEW L, NEW n, NEW size \in 0 .. SIZE_MOD - 2, SoundUpTo(Heap, L, n, n, size),
           NEW amount \in Nat, NEW least, least = Wrap(amount - 1)
    PROVE  \/ /\ WorstFit(amount) = NULL
              /\ \A i \in 1 .. n : ~(Unused(L[i]) /\ Size(L[i]) > least)
           \/ \E j \in 1 .. n : /\ WorstFit(amount) = L[j] /\ Unused(L[j]) /\ Size(L[j]) > least
                                /\ \A i \in 1 .. n : Unused(L[i]) => Size(L[i]) <= Size(L[j])
<1> DEFINE start == [max |-> least, hole |-> NULL]
           Eq(s) == s = [k \in 0 .. Len(Chain) |->
                             IF k = 0 THEN [max |-> Wrap(amount - 1), hole |-> NULL]
                             ELSE IF Unused(Chain[k]) /\ Size(Chain[k]) > s[k - 1].max
                                  THEN [max |-> Size(Chain[k]), hole |-> Chain[k]] ELSE s[k - 1]]
           after == CHOOSE s : Eq(s)
           V == [max : 0 .. SIZE_MAX, hole : Nodes \cup {NULL}]
           this(k) == [max |-> Size(L[k]), hole |-> L[k]]
           H == [k \in 1 .. n |-> [x \in V |-> IF Unused(L[k]) /\ Size(L[k]) > x.max
                                               THEN this(k) ELSE x]]
<1>1. WorstFit(amount) = after[Len(Chain)].hole
  BY DEF WorstFit, Walk
<1>2. /\ Heap \in Heaps /\ Linked(Heap, L, n) /\ mem = L[1]
      /\ n \in Nat /\ L \in [1 .. n -> Nodes] /\ NULL \notin Nodes
  BY AllocatorAssumption DEF SoundUpTo, Linked, Heap
<1>3. Chain = L /\ Len(Chain) = n
  <2>1. Chain = L
    BY <1>2, ChainIsList
  <2>2. Len(L) = n
    BY <1>2
  <2> QED BY <2>1, <2>2
<1>4. \A k \in 1 .. n : /\ this(k) \in V /\ Size(L[k]) \in Nat
                        /\ this(k).max = Size(L[k]) /\ this(k).hole = L[k]
  <2>1. \A k \in 1 .. n : Size(L[k]) \in 0 .. size
    BY ListSizes
  <2> QED BY <1>2, <2>1, AllocatorAssumption DEF SIZE_MAX
<1>5. start \in V /\ start.max = least /\ start.hole = NULL /\ least \in Nat
  <2>1. least \in 0 .. SIZE_MAX
    BY WrapType
  <2> QED BY <2>1, AllocatorAssumption DEF SIZE_MAX
<1>6. \A x \in V : x.max \in Nat
  BY AllocatorAssumption DEF SIZE_MAX
<1> HIDE DEF V
<1>7. H \in [1 .. n -> [V -> V]]
  BY <1>4
<1>8. \A k \in 1 .. n, x \in V : H[k][x] = IF Unused(L[k]) /\ Size(L[k]) > x.max
                                           THEN this(k) ELSE x
  OBVIOUS
<1> HIDE DEF H, after, start
<1>9. PICK g \in [0 .. n -> V] : Computes(g, start, H, n)
  BY <1>2, <1>5, <1>7, RecursionTo
<1>10. g[0] = start /\ \A k \in 1 .. n : g[k] = IF Unused(L[k]) /\ Size(L[k]) > g[k - 1].max
                                                THEN this(k) ELSE g[k - 1]
  <2>1. \A k \in 1 .. n : g[k - 1] \in V
    BY <1>2
  <2> HIDE DEF this
  <2> QED BY <1>8, <1>9, <2>1 DEF Computes
<1>11. Eq(g)
  <2>1. \A k \in 0 .. n : g[k] = IF k = 0 THEN start
                                 ELSE IF Unused(L[k]) /\ Size(L[k]) > g[k - 1].max
                                      THEN this(k) ELSE g[k - 1]
    <3> HIDE DEF this
    <3> QED BY <1>2, <1>10
  <2>2. g = [k \in 0 .. n |-> IF k = 0 THEN start
                              ELSE IF Unused(L[k]) /\ Size(L[k]) > g[k - 1].max
                                   THEN this(k) ELSE g[k - 1]]
    <3> HIDE DEF this
    <3> QED BY <2>1
  <2> QED BY <1>3, <2>2 DEF start
<1>12. Eq(after)
  <2> HIDE DEF Eq
  <2> QED BY <1>11 DEF after
<1>13. after = [k \in 0 .. n |-> IF k = 0 THEN start
                                 ELSE IF Unused(L[k]) /\ Size(L[k]) > after[k - 1].max
                                      THEN this(k) ELSE after[k - 1]]
  BY <1>3, <1>12 DEF start
<1> HIDE DEF this, Eq
<1>14. after[0] = start /\ \A k \in 1 .. n : after[k] = IF Unused(L[k]) /\ Size(L[k]) > after[k - 1].max
                                                        THEN this(k) ELSE after[k - 1]
  <2>1. \A k \in 0 .. n : after[k] = IF k = 0 THEN start
                                     ELSE IF Unused(L[k]) /\ Size(L[k]) > after[k - 1].max
                                          THEN this(k) ELSE after[k - 1]
    BY <1>13
  <2>2. 0 \in 0 .. n /\ \A k \in 1 .. n : k \in 0 .. n /\ k # 0
    BY <1>2
  <2> QED BY <2>1, <2>2
<1> DEFINE None(x, k) == /\ x.hole = NULL /\ x.max = least
                         /\ \A i \in 1 .. k : ~(Unused(L[i]) /\ Size(L[i]) > least)
           Worst(x, k, j) == /\ x.hole = L[j] /\ x.max = Size(L[j]) /\ Unused(L[j])
                             /\ Size(L[j]) > least
                             /\ \A i \in 1 .. k : Unused(L[i]) => Size(L[i]) <= x.max
           Found(x, k) == None(x, k) \/ \E j \in 1 .. k : Worst(x, k, j)
           S == {k \in 0 .. n : Found(after[k], k)}
<1>15. 0 \in S
  BY <1>2, <1>5, <1>14
<1>16. ASSUME NEW k \in 1 .. n, Found(after[k - 1], k - 1) PROVE Found(after[k], k)
  <2> DEFINE x == after[k - 1]
  <2>1. /\ k \in 1 .. k /\ \A i \in 1 .. k - 1 : i \in 1 .. k /\ i \in 1 .. n
        /\ \A i \in 1 .. k : i = k \/ i \in 1 .. k - 1
        /\ after[k] = IF Unused(L[k]) /\ Size(L[k]) > x.max THEN this(k) ELSE x
    BY <1>2, <1>14
  <2>2. PICK m : m = Size(L[k]) /\ m \in Nat
    BY <1>4
  <2>3. ASSUME Unused(L[k]), m > x.max, x.max \in Nat, x.max >= least,
               \A i \in 1 .. k - 1 : Unused(L[i]) => Size(L[i]) <= x.max
        PROVE  Found(after[k], k)
    <3>1. after[k] = this(k)
      BY <2>1, <2>2, <2>3
    <3>2. \A i \in 1 .. k : Unused(L[i]) => Size(L[i]) <= m
      <4> SUFFICES ASSUME NEW i \in 1 .. k, Unused(L[i]) PROVE Size(L[i]) <= m
        OBVIOUS
      <4>1. CASE i = k
        BY <2>2, <4>1
      <4>2. CASE i # k
        <5>1. i \in 1 .. k - 1 /\ i \in 1 .. n
          BY <2>1, <4>2
        <5>2. PICK m2 : m2 = Size(L[i]) /\ m2 \in Nat
          BY <1>4, <5>1
        <5> QED BY <2>2, <2>3, <5>1, <5>2
      <4> QED BY <4>1, <4>2
    <3>3. Worst(after[k], k, k)
      BY <1>4, <1>5, <2>2, <2>3, <3>1, <3>2
    <3> QED BY <2>1, <3>3
  <2>4. CASE None(x, k - 1)
    <3>1. CASE Unused(L[k]) /\ m > x.max
      <4>1. ASSUME NEW i \in 1 .. k - 1, Unused(L[i]) PROVE Size(L[i]) <= x.max
        <5>1. PICK m2 : m2 = Size(L[i]) /\ m2 \in Nat
          BY <1>4, <2>1
        <5>2. ~(m2 > least)
          BY <2>4, <4>1, <5>1
        <5> QED BY <1>5, <2>4, <5>1, <5>2
      <4> QED BY <1>5, <2>3, <2>4, <3>1, <4>1
    <3>2. CASE ~(Unused(L[k]) /\ m > x.max)
      <4>1. after[k] = x
        BY <2>1, <2>2, <3>2
      <4>2. None(after[k], k)
        BY <2>1, <2>2, <2>4, <3>2, <4>1
      <4> QED BY <4>2
    <3> QED BY <3>1, <3>2
  <2>5. ASSUME NEW j \in 1 .. k - 1, Worst(x, k - 1, j) PROVE Found(after[k], k)
    <3>1. j \in 1 .. k /\ j \in 1 .. n
      BY <2>1
    <3>2. PICK m3 : m3 = Size(L[j]) /\ m3 \in Nat
      BY <1>4, <3>1
    <3>3. x.max = m3 /\ m3 > least
      BY <2>5, <3>2
    <3>4. CASE Unused(L[k]) /\ m > x.max
      <4>1. x.max \in Nat /\ x.max >= least
        BY <1>5, <3>2, <3>3
      <4> QED BY <2>3, <2>5, <3>4, <4>1
    <3>5. CASE ~(Unused(L[k]) /\ m > x.max)
      <4>1. after[k] = x
        BY <2>1, <2>2, <3>5
      <4>2. Unused(L[k]) => Size(L[k]) <= x.max
        BY <2>2, <3>2, <3>3, <3>5
      <4>3. Worst(after[k], k, j)
        BY <2>1, <2>5, <4>1, <4>2
      <4> QED BY <3>1, <4>3
    <3> QED BY <3>4, <3>5
  <2> QED BY <1>16, <2>4, <2>5
<1>17. n \in S
  <2>1. \A k \in 1 .. n : k - 1 \in S => k \in S
    <3> HIDE DEF Found
    <3> SUFFICES ASSUME NEW k \in 1 .. n, k - 1 \in S PROVE k \in S
      OBVIOUS
    <3>1. Found(after[k], k)
      BY <1>16
    <3> QED BY <1>2, <3>1
  <2> HIDE DEF S
  <2>2. \A k \in 0 .. n : k \in S
    BY <1>2, <1>15, <2>1, InductionTo
  <2> QED BY <1>2, <2>2
<1> QED BY <1>1, <1>3, <1>17

(* Whatever the strategy, the hole it selects is large enough.             *)
LEMMA HoleFits ==
    ASSUME NEW L, NEW n, NEW size \in 0 .. SIZE_MOD - 2, SoundUpTo(Heap, L, n, n, size),
           NEW amount \in 0 .. SIZE_MAX, NEW strategy \in {"F", "B", "W"},
           Hole(amount, strategy) # NULL
    PROVE  \E j \in 1 .. n : /\ Hole(amount, strategy) = L[j] /\ Unused(L[j])
                             /\ Size(L[j]) >= amount /\ Size(L[j]) \in Nat
<1>1. \A i \in 1 .. n : Size(L[i]) \in 0 .. size
  BY ListSizes
<1>2. amount \in Nat /\ SIZE_MAX = SIZE_MOD - 1 /\ SIZE_MOD \in Nat \ {0}
  BY AllocatorAssumption DEF SIZE_MAX
<1>3. CASE strategy = "F"
  <2>1. Hole(amount, strategy) = FirstFit(amount)
    BY <1>3 DEF Hole
  <2> QED BY <1>1, <1>2, <2>1, FirstFitIsFirst
<1>4. CASE strategy = "B"
  <2>1. Hole(amount, strategy) = BestFit(amount)
    BY <1>4 DEF Hole
  <2> QED BY <1>1, <1>2, <2>1, BestFitIsBest
<1>5. CASE strategy = "W"
  <2>1. Hole(amount, strategy) = WorstFit(amount)
    BY <1>5 DEF Hole
  <2>2. PICK least : least = Wrap(amount - 1)
    OBVIOUS
  <2>3. least = IF amount = 0 THEN SIZE_MOD - 1 ELSE amount - 1
    BY <1>2, <2>2, WrapValue
  <2>4. PICK j \in 1 .. n : /\ Hole(amount, strategy) = L[j] /\ Unused(L[j])
                            /\ Size(L[j]) > least
    BY <1>2, <2>1, <2>2, WorstFitIsWorst
  <2>5. Size(L[j]) \in 0 .. size
    BY <1>1
  <2>6. Size(L[j]) >= amount /\ Size(L[j]) \in Nat
    BY <1>2, <2>3, <2>4, <2>5
  <2> QED BY <2>4, <2>6
<1> QED BY <1>3, <1>4, <1>5
-----------------------------------------------------------------------------
(* The inductive invariant: the blocks that are allocated form a list that *)
(* tiles the memory and has no adjacent holes.                             *)
IInv ==
    /\ mem_size \in MemSizes
    /\ answer \in {0, 1, -1, -2}
    /\ \E L, n : SoundUpTo(Heap, L, n, n, mem_size)

(* One block of the size of the memory.                                    *)
LEMMA InitIInv == Init => IInv
<1> SUFFICES ASSUME Init PROVE IInv
  OBVIOUS
<1> DEFINE x == [Blank EXCEPT !.hi = Wrap(mem_size - 1)]
           h == Heap
           size == mem_size
<1>1. /\ mem_size \in MemSizes /\ mem_size \in 0 .. SIZE_MOD - 1 /\ SIZE_MOD \in Nat \ {0}
      /\ answer = 0 /\ mem \in Nodes /\ mem_size \in Nat
  BY AllocatorAssumption DEF Init
<1>2. Wrap(size - 1) \in 0 .. SIZE_MAX /\ Wrap(Wrap(size - 1) + 1) = size
  BY <1>1, EndOfHi
<1>3. Blank \in Blocks
  BY <1>1 DEF Blank, Blocks, SIZE_MAX
<1>4. /\ x \in Blocks /\ x.lo = 0 /\ End(x) = size /\ x.prev = NULL /\ x.next = NULL
  BY <1>1, <1>2 DEF Blank, Blocks, End, SIZE_MAX
<1>5. block = [b \in Nodes |-> IF b = mem THEN x ELSE Blank] /\ live = {mem}
  BY DEF Init
<1> HIDE DEF x
<1>6. block \in [Nodes -> Blocks] /\ block[mem] = x
  BY <1>1, <1>3, <1>4, <1>5
<1>7. h.block = block /\ h.live = {mem} /\ h.mem = mem /\ h \in Heaps
  BY <1>1, <1>5, <1>6 DEF Heap, Heaps
<1> HIDE DEF h, size
<1> DEFINE L == [i \in 1 .. 1 |-> mem]
           n == 1
<1>8. n \in Nat \ {0} /\ 1 \in 1 .. n /\ (\A i \in 1 .. n : i = 1 /\ i = n) /\ n = 1
  OBVIOUS
<1>9. L \in [1 .. n -> Nodes] /\ L[1] = mem
  BY <1>1
<1> HIDE DEF L, n
<1>10. Linked(h, L, n)
  <2>1. h.live = {L[i] : i \in 1 .. n}
    BY <1>7, <1>8, <1>9
  <2> QED BY <1>4, <1>6, <1>7, <1>8, <1>9, <2>1 DEF Linked
<1>11. Tiled(h, L, n, size)
  <2>1. 0 <= size /\ size <= size
    BY <1>1 DEF size
  <2>2. \A i \in 1 .. n : h.block[L[i]] = x
    BY <1>6, <1>7, <1>8, <1>9
  <2>3. h.block[L[1]] = x /\ h.block[L[n]] = x
    BY <1>8, <2>2
  <2>4. \A i \in 1 .. n - 1 : FALSE
    BY <1>8
  <2> QED BY <1>4, <2>1, <2>2, <2>3, <2>4 DEF Tiled
<1>12. NoHoles(h, L, n)
  BY <1>8 DEF NoHoles
<1>13. SoundUpTo(h, L, n, n, size)
  BY <1>7, <1>9, <1>10, <1>11, <1>12 DEF SoundUpTo
<1> QED BY <1>1, <1>13 DEF IInv, h, size

(* Who owns each byte.                                                     *)
Owners == [x \in 0 .. mem_size - 1 |-> OwnerOf(x)]

LEMMA OwnersBefore ==
    ASSUME mem_size \in MemSizes, NEW L, NEW n, SoundUpTo(Heap, L, n, n, mem_size)
    PROVE  DOMAIN Owners = 0 .. mem_size - 1 /\ Owned(Heap, L, n, Owners)
<1>1. \A x \in 0 .. mem_size - 1 : Owners[x] = OwnerIn(Heap, x)
  BY DEF Owners, OwnerOf, OwnerIn, Heap, Size, Length
<1>2. DOMAIN Owners = 0 .. mem_size - 1
  BY DEF Owners
<1> DEFINE h == Heap
           o == Owners
<1>3. h \in Heaps /\ Linked(h, L, n) /\ Tiled(h, L, n, mem_size) /\ mem_size \in 0 .. SIZE_MOD - 2
  BY AllocatorAssumption DEF SoundUpTo
<1> HIDE DEF h, o
<1>4. Owned(h, L, n, o)
  BY <1>1, <1>2, <1>3, OwnedIs DEF h, o
<1> QED BY <1>2, <1>4 DEF h, o

(* The bytes after a command belong to whom q says.                        *)
OwnersBecome(q) ==
    /\ mem_size' = mem_size
    /\ DOMAIN Owners' = DOMAIN q /\ \A x \in DOMAIN q : Owners'[x] = q[x]

(* The heap that a command leaves.                                         *)
LEMMA HeapAfter ==
    ASSUME NEW g, NEW L, NEW n, SoundUpTo(g, L, n, n, mem_size), Become(g),
           mem_size \in MemSizes, mem_size' = mem_size, answer' \in {0, 1, -1, -2},
           NEW q, DOMAIN q = 0 .. mem_size - 1, Owned(g, L, n, q)
    PROVE  IInv' /\ OwnersBecome(q)
<1>1. g \in Heaps /\ Linked(g, L, n) /\ Tiled(g, L, n, mem_size) /\ mem_size \in 0 .. SIZE_MOD - 2
  BY AllocatorAssumption DEF SoundUpTo
<1>2. g = [block |-> g.block, live |-> g.live, mem |-> g.mem]
  BY <1>1 DEF Heaps
<1>3. Heap' = g
  BY <1>2 DEF Heap, Become
<1>4. SoundUpTo(Heap', L, n, n, mem_size')
  BY <1>3
<1>5. \A x \in 0 .. mem_size - 1 : q[x] = OwnerIn(g, x)
  BY <1>1, OwnedIs
<1>6. \A x \in 0 .. mem_size - 1 : Owners'[x] = OwnerIn(g, x)
  BY DEF Become, Owners, OwnerOf, OwnerIn, Size, Length
<1>7. DOMAIN Owners' = 0 .. mem_size - 1
  BY DEF Owners
<1> QED BY <1>4, <1>5, <1>6, <1>7 DEF IInv, OwnersBecome

(* A command that leaves the heap as it is.                                *)
LEMMA HeapUnchanged ==
    ASSUME IInv, Become(Heap), mem_size' = mem_size, answer' \in {0, 1, -1, -2}
    PROVE  IInv' /\ OwnersBecome(Owners)
<1>1. PICK L, n : SoundUpTo(Heap, L, n, n, mem_size)
  BY DEF IInv
<1>2. mem_size \in MemSizes
  BY DEF IInv
<1> DEFINE o == Owners
           h == Heap
<1>3. DOMAIN o = 0 .. mem_size - 1 /\ Owned(h, L, n, o)
  BY <1>1, <1>2, OwnersBefore
<1>4. SoundUpTo(h, L, n, n, mem_size) /\ Become(h)
  BY <1>1
<1> HIDE DEF o, h
<1>5. IInv' /\ OwnersBecome(o)
  BY <1>2, <1>3, <1>4, HeapAfter
<1> QED BY <1>5 DEF o

(* request_memory keeps the invariant: it changes nothing, or names a hole *)
(* of the list, or splits one.  amount bytes that were free get the name.  *)
GrantedIn(first, amount, name) ==
    /\ first \in Nat /\ first + amount <= mem_size
    /\ \A a \in DOMAIN Owners : first <= a /\ a < first + amount => Owners[a] = NULL
    /\ OwnersBecome(Granted(Owners, first, amount, name))

LEMMA RequestKeeps ==
    ASSUME IInv, NEW name \in Processes, NEW amount \in Sizes, NEW strategy \in {"F", "B", "W"},
           request_memory(name, amount, strategy)
    PROVE  IInv' /\ (OwnersBecome(Owners) \/ \E first : GrantedIn(first, amount, name))
<1> DEFINE size == mem_size
           hole == Hole(amount, strategy)
<1>1. PICK L, n : SoundUpTo(Heap, L, n, n, size)
  BY DEF IInv
<1>2. /\ mem_size \in MemSizes /\ size \in 0 .. SIZE_MOD - 2 /\ amount \in 0 .. SIZE_MAX
      /\ answer \in {0, 1, -1, -2} /\ amount \in Nat /\ mem_size = size
  BY AllocatorAssumption DEF IInv, SIZE_MAX
<1> DEFINE o == Owners
<1>3. DOMAIN o = 0 .. size - 1 /\ Owned(Heap, L, n, o)
  BY <1>1, <1>2, OwnersBefore
<1>4. \A q, first : q = Granted(o, first, amount, name) => DOMAIN q = 0 .. size - 1
  BY <1>3 DEF Granted
<1> HIDE DEF size, o
<1>5. CASE RequestFails(amount, strategy)
  <2>1. Become(Heap) /\ mem_size' = mem_size /\ answer' = -2
    BY <1>5 DEF RequestFails, Become, Heap
  <2> QED BY <2>1, HeapUnchanged
<1>6. CASE RequestWholeHole(name, amount, strategy)
  <2>1. /\ hole # NULL /\ block' = [block EXCEPT ![hole].name = name] /\ Size(hole) = amount
        /\ answer' = 0 /\ live' = live /\ mem' = mem /\ mem_size' = mem_size
    BY <1>6 DEF RequestWholeHole
  <2>2. PICK j \in 1 .. n : hole = L[j] /\ Unused(L[j])
    BY <1>1, <1>2, <2>1, HoleFits
  <2> HIDE DEF hole
  <2>3. PICK g : g = [mem |-> mem, live |-> live, block |-> [block EXCEPT ![L[j]].name = name]]
    OBVIOUS
  <2>4. SoundUpTo(g, L, n, n, size) /\ Renamed(g, L, n, j, name)
    BY <1>1, <1>2, <2>3, NameStep
  <2>5. Become(g)
    BY <2>1, <2>2, <2>3 DEF Become
  <2>6. PICK first : first = block[L[j]].lo
    OBVIOUS
  <2>7. PICK q : q = Granted(o, first, amount, name)
    OBVIOUS
  <2>8. amount = Size(L[j])
    BY <2>1, <2>2
  <2>9. Owned(g, L, n, q)
    BY <1>1, <1>2, <1>3, <2>4, <2>6, <2>7, <2>8, NameOwned
  <2>10. IInv' /\ OwnersBecome(q)
    BY <1>2, <1>4, <2>1, <2>4, <2>5, <2>7, <2>9, HeapAfter
  <2>11. /\ first \in Nat /\ first + amount <= size
         /\ \A a \in DOMAIN o : first <= a /\ a < first + amount => o[a] = NULL
    BY <1>1, <1>2, <1>3, <2>2, <2>6, <2>8, HoleIsFree
  <2> QED BY <1>2, <2>7, <2>10, <2>11 DEF GrantedIn, o
<1>7. CASE RequestPart(name, amount, strategy)
  <2>1. PICK node \in Nodes \ live :
            /\ hole # NULL /\ Size(hole) # amount
            /\ block' = Split(hole, node, name, amount) /\ live' = live \cup {node}
            /\ answer' = 0 /\ mem' = mem /\ mem_size' = mem_size
    BY <1>7 DEF RequestPart
  <2>2. PICK j \in 1 .. n : hole = L[j] /\ Unused(L[j]) /\ Size(L[j]) >= amount /\ Size(L[j]) \in Nat
    BY <1>1, <1>2, <2>1, HoleFits
  <2> HIDE DEF hole
  <2>3. PICK g : g = [mem |-> mem, live |-> live \cup {node},
                      block |-> Split(L[j], node, name, amount)]
    OBVIOUS
  <2>4. amount < Size(L[j]) /\ amount <= Size(L[j])
    BY <1>2, <2>1, <2>2
  <2>5. PICK K : K = WithNode(L, n, j, node)
    OBVIOUS
  <2>6. /\ SoundUpTo(g, K, n + 1, n + 1, size)
        /\ \A i \in 1 .. n :
               /\ g.block[L[i]].name = IF i = j THEN name ELSE block[L[i]].name
               /\ g.block[L[i]].lo = block[L[i]].lo
               /\ End(g.block[L[i]]) = IF i = j THEN block[L[j]].lo + amount
                                       ELSE End(block[L[i]])
        /\ g.block[node].name = NULL /\ g.block[node].lo = block[L[j]].lo + amount
        /\ End(g.block[node]) = End(block[L[j]])
    BY <1>1, <1>2, <2>2, <2>3, <2>4, <2>5, SplitStep
  <2>7. Become(g)
    BY <2>1, <2>2, <2>3 DEF Become
  <2>8. PICK first : first = block[L[j]].lo
    OBVIOUS
  <2>9. PICK q : q = Granted(o, first, amount, name)
    OBVIOUS
  <2>10. Owned(g, K, n + 1, q)
    BY <1>1, <1>2, <1>3, <2>2, <2>4, <2>5, <2>6, <2>8, <2>9, SplitOwned
  <2>11. IInv' /\ OwnersBecome(q)
    BY <1>2, <1>4, <2>1, <2>6, <2>7, <2>9, <2>10, HeapAfter
  <2>12. /\ first \in Nat /\ first + amount <= size
         /\ \A a \in DOMAIN o : first <= a /\ a < first + amount => o[a] = NULL
    BY <1>1, <1>2, <1>3, <2>2, <2>4, <2>8, HoleIsFree
  <2> QED BY <1>2, <2>9, <2>11, <2>12 DEF GrantedIn, o
<1> QED BY <1>5, <1>6, <1>7 DEF request_memory

(* release_memory keeps it: its loop merges every hole with the one before *)
(* it.  What the process owned, and nothing else, becomes free.            *)
Given(o, name) == [a \in DOMAIN o |-> IF o[a] = name THEN NULL ELSE o[a]]

LEMMA ReleaseKeeps ==
    ASSUME IInv, NEW name \in Processes, release_memory(name)
    PROVE  IInv' /\ OwnersBecome(Given(Owners, name))
<1> DEFINE size == mem_size
           h == Heap
           o == Owners
<1>1. PICK L, n : SoundUpTo(h, L, n, n, size)
  BY DEF IInv
<1>2. mem_size \in MemSizes /\ size \in 0 .. SIZE_MOD - 2 /\ size \in Nat /\ name # NULL
  BY AllocatorAssumption DEF IInv
<1>3. DOMAIN o = 0 .. size - 1 /\ Owned(h, L, n, o)
  BY <1>1, <1>2, OwnersBefore
<1> HIDE DEF size, h, o
<1>4. SoundUpTo(h, L, n, 0, size)
  <2>1. NoHoles(h, L, 0)
    BY DEF NoHoles
  <2> QED BY <1>1, <2>1 DEF SoundUpTo
<1>5. PICK g : g = Released(name)
  OBVIOUS
<1>6. PICK K, m : SoundUpTo(g, K, m, m, size) /\ Freed(g, K, m, m, name, o)
  BY <1>2, <1>3, <1>4, <1>5, ReleaseLoop DEF h
<1>7. Become(g) /\ mem_size' = mem_size /\ answer' \in {0, 1, -1, -2}
  BY <1>5 DEF release_memory
<1>8. PICK q : /\ DOMAIN q = DOMAIN o /\ Owned(g, K, m, q)
               /\ \A a \in DOMAIN o : q[a] = o[a] \/ (o[a] = name /\ q[a] = NULL)
  BY <1>6 DEF Freed
<1>9. IInv' /\ OwnersBecome(q)
  BY <1>2, <1>3, <1>6, <1>7, <1>8, HeapAfter DEF size
<1>10. ASSUME NEW a \in DOMAIN o PROVE q[a] = IF o[a] = name THEN NULL ELSE o[a]
  <2>1. g \in Heaps /\ Linked(g, K, m) /\ Tiled(g, K, m, size)
    BY <1>6 DEF SoundUpTo
  <2>2. PICK i \in 1 .. m : Covers(g.block[K[i]], a)
    BY <1>2, <1>3, <2>1, OneBlockAt
  <2>3. q[a] = g.block[K[i]].name
    BY <1>8, <2>2 DEF Owned
  <2>4. q[a] # name
    BY <1>6, <2>3 DEF Freed
  <2> QED BY <1>8, <2>4
<1>11. OwnersBecome(Given(o, name))
  BY <1>8, <1>9, <1>10 DEF OwnersBecome, Given
<1> QED BY <1>9, <1>11 DEF o

(* compact_memory keeps it: its loop leaves one hole, the last block.  The *)
(* bytes in use are moved in order, to the low end.                        *)
PackedAs(q) ==
    /\ OwnersBecome(q) /\ \E to : Moves(Owners, q, to)
    /\ \A x, y \in DOMAIN q : q[x] = NULL /\ x < y => q[y] = NULL

LEMMA CompactKeeps ==
    ASSUME IInv, compact_memory
    PROVE  IInv' /\ \E q : PackedAs(q)
<1> DEFINE size == mem_size
           h == Heap
           o == Owners
<1>1. PICK L, n : SoundUpTo(h, L, n, n, size)
  BY DEF IInv
<1>2. /\ mem_size \in MemSizes /\ size \in 0 .. SIZE_MOD - 2 /\ size \in Nat
      /\ answer \in {0, 1, -1, -2}
  BY AllocatorAssumption DEF IInv
<1>3. DOMAIN o = 0 .. size - 1 /\ Owned(h, L, n, o)
  BY <1>1, <1>2, OwnersBefore
<1> HIDE DEF size, h, o
<1>4. PICK g : g = Compacted
  OBVIOUS
<1>5. PICK K, m : Compacting(g, K, m, m, size) /\ Packing(g, K, m, o)
  BY <1>1, <1>2, <1>3, <1>4, CompactLoop DEF h
<1>6. /\ m \in Nat \ {0} /\ \A i \in 1 .. m - 1 : g.block[K[i]].name # NULL
      /\ g \in Heaps /\ Linked(g, K, m) /\ Tiled(g, K, m, size)
  BY <1>5 DEF Compacting, Linked
<1>7. SoundUpTo(g, K, m, m, size)
  <2>1. NoHoles(g, K, m)
    BY <1>6 DEF NoHoles
  <2> QED BY <1>5, <2>1 DEF Compacting, SoundUpTo
<1>8. Become(g) /\ mem_size' = mem_size /\ answer' = answer
  BY <1>4 DEF compact_memory
<1>9. PICK q, to : Owned(g, K, m, q) /\ Moves(o, q, to)
  BY <1>5 DEF Packing
<1>10. DOMAIN q = 0 .. size - 1
  BY <1>3, <1>9 DEF Moves
<1>11. IInv' /\ OwnersBecome(q)
  BY <1>2, <1>7, <1>8, <1>9, <1>10, HeapAfter DEF size
<1>12. ASSUME NEW x \in DOMAIN q, NEW y \in DOMAIN q, q[x] = NULL, x < y PROVE q[y] = NULL
  <2>1. PICK i \in 1 .. m : Covers(g.block[K[i]], x)
    BY <1>2, <1>6, <1>10, OneBlockAt
  <2>2. i = m
    BY <1>6, <1>9, <1>12, <2>1 DEF Owned
  <2>3. PICK k \in 1 .. m : Covers(g.block[K[k]], y)
    BY <1>2, <1>6, <1>10, OneBlockAt
  <2>4. PICK l : l = g.block[K[m]].lo /\ End(g.block[K[m]]) = size
    BY <1>6 DEF Tiled
  <2>5. l \in Nat
    <3>1. K[m] \in Nodes
      BY <1>6 DEF Linked
    <3> QED BY <1>6, <2>4, <3>1, HeapType, AllocatorAssumption DEF SIZE_MAX
  <2>6. x \in Int /\ y \in Int /\ y < size /\ l <= x
    BY <1>2, <1>10, <2>1, <2>2, <2>4 DEF Covers
  <2>7. Covers(g.block[K[m]], y)
    BY <1>2, <1>12, <2>4, <2>5, <2>6 DEF Covers
  <2>8. q[x] = g.block[K[m]].name /\ q[y] = g.block[K[m]].name
    BY <1>6, <1>9, <2>1, <2>2, <2>7 DEF Owned
  <2> QED BY <1>12, <2>8
<1>13. PackedAs(q)
  BY <1>9, <1>11, <1>12 DEF PackedAs, o
<1> QED BY <1>11, <1>13

(* Every command of the allocator keeps the invariant.                     *)
THEOREM InductiveStep == IInv /\ [Next]_vars => IInv'
<1> SUFFICES ASSUME IInv, [Next]_vars PROVE IInv'
  OBVIOUS
<1>1. ASSUME NEW name \in Processes, NEW size \in Sizes, NEW strategy \in {"F", "B", "W"},
             request_memory(name, size, strategy)
      PROVE  IInv'
  BY <1>1, RequestKeeps
<1>2. CASE UnknownStrategy
  <2>1. Become(Heap) /\ mem_size' = mem_size /\ answer' = -1
    BY <1>2 DEF UnknownStrategy, Become, Heap
  <2> QED BY <2>1, HeapUnchanged
<1>3. ASSUME NEW name \in Processes, release_memory(name)
      PROVE  IInv'
  BY <1>3, ReleaseKeeps
<1>4. CASE compact_memory
  BY <1>4, CompactKeeps
<1>5. CASE UNCHANGED vars
  BY <1>5 DEF vars, IInv, Heap
<1> QED BY <1>1, <1>2, <1>3, <1>4, <1>5 DEF Next

(* In every state the blocks form a list that tiles the memory.            *)
THEOREM Invariance == Spec => []IInv
  BY InitIInv, InductiveStep, PTL DEF Spec
-----------------------------------------------------------------------------
(* What follows from the invariant.                                        *)

(* The sizes of the blocks add up to that of the memory.                   *)
LEMMA SizesAddUp ==
    ASSUME NEW L, NEW n, NEW size \in 0 .. SIZE_MOD - 2, SoundUpTo(Heap, L, n, n, size)
    PROVE  Walk(LAMBDA sum, b : sum + Size(b), 0) = size
<1> DEFINE Eq(s) == s = [k \in 0 .. Len(Chain) |-> IF k = 0 THEN 0 ELSE s[k - 1] + Size(Chain[k])]
           after == CHOOSE s : Eq(s)
           g == [k \in 0 .. n |-> IF k = 0 THEN 0 ELSE End(block[L[k]])]
<1>1. SUFFICES after[Len(Chain)] = size
  BY DEF Walk
<1>2. /\ Chain = L /\ Len(Chain) = n /\ n \in Nat \ {0} /\ size \in Nat
      /\ \A i \in 1 .. n : block[L[i]].lo \in Nat /\ End(block[L[i]]) \in Nat
      /\ \A i \in 1 .. n : Size(L[i]) = End(block[L[i]]) - block[L[i]].lo
      /\ block[L[1]].lo = 0 /\ End(block[L[n]]) = size
      /\ \A i \in 1 .. n - 1 : block[L[i + 1]].lo = End(block[L[i]])
  BY SoundList, AllocatorAssumption
<1>3. ASSUME NEW k \in 1 .. n PROVE g[k] = g[k - 1] + Size(L[k])
  <2>1. PICK e : e = End(block[L[k]]) /\ e \in Nat
    BY <1>2
  <2>2. PICK l : l = block[L[k]].lo /\ l \in Nat
    BY <1>2
  <2>3. g[k - 1] = l
    <3>1. CASE k = 1
      BY <1>2, <2>2, <3>1
    <3>2. CASE k # 1
      <4> DEFINE i == k - 1
      <4>1. i \in 1 .. n - 1 /\ i \in 0 .. n /\ i # 0 /\ i + 1 = k
        BY <1>2, <3>2
      <4> HIDE DEF i
      <4>2. g[i] = l
        BY <1>2, <2>2, <4>1
      <4> QED BY <4>2 DEF i
    <3> QED BY <3>1, <3>2
  <2>4. g[k] = e /\ Size(L[k]) = e - l
    BY <1>2, <2>1, <2>2
  <2> QED BY <2>1, <2>2, <2>3, <2>4
<1>4. g[0] = 0
  BY <1>2
<1> HIDE DEF after
<1>5. Eq(g)
  <2>1. \A k \in 0 .. n : g[k] = IF k = 0 THEN 0 ELSE g[k - 1] + Size(L[k])
    <3> SUFFICES ASSUME NEW k \in 0 .. n, k # 0 PROVE g[k] = g[k - 1] + Size(L[k])
      BY <1>4
    <3>1. k \in 1 .. n
      BY <1>2
    <3> QED BY <1>3, <3>1
  <2>2. g = [k \in 0 .. n |-> g[k]]
    OBVIOUS
  <2> HIDE DEF g
  <2>3. g = [k \in 0 .. n |-> IF k = 0 THEN 0 ELSE g[k - 1] + Size(L[k])]
    BY <2>1, <2>2
  <2> QED BY <1>2, <2>3
<1>6. Eq(after)
  <2> HIDE DEF Eq
  <2> QED BY <1>5 DEF after
<1>7. after[0] = 0 /\ \A k \in 1 .. n : after[k] = after[k - 1] + Size(L[k])
  <2>1. \A k \in 0 .. n : after[k] = IF k = 0 THEN 0 ELSE after[k - 1] + Size(L[k])
    BY <1>2, <1>6
  <2>2. 0 \in 0 .. n /\ \A k \in 1 .. n : k \in 0 .. n /\ k # 0
    BY <1>2
  <2> QED BY <2>1, <2>2
<1> DEFINE S == {k \in 0 .. n : after[k] = g[k]}
<1>8. g[n] = size /\ n \in 0 .. n
  BY <1>2
<1> HIDE DEF g, Eq
<1>9. 0 \in S
  BY <1>2, <1>4, <1>7
<1>10. \A k \in 1 .. n : k - 1 \in S => k \in S
  BY <1>2, <1>3, <1>7
<1>11. n \in S
  <2> HIDE DEF S
  <2>1. \A k \in 0 .. n : k \in S
    BY <1>2, <1>9, <1>10, InductionTo
  <2> QED BY <1>8, <2>1
<1> QED BY <1>2, <1>8, <1>11

(* The invariant implies each conjunct of ListTilesMemory.                 *)
LEMMA InvariantGivesList == IInv => ListTilesMemory
<1> SUFFICES ASSUME IInv PROVE ListTilesMemory
  OBVIOUS
<1> DEFINE size == mem_size
<1>1. PICK L, n : SoundUpTo(Heap, L, n, n, size)
  BY DEF IInv
<1>2. mem_size \in MemSizes /\ answer \in {0, 1, -1, -2} /\ size \in 0 .. SIZE_MOD - 2
  BY AllocatorAssumption DEF IInv
<1>3. /\ Heap \in Heaps /\ Linked(Heap, L, n) /\ NoHoles(Heap, L, n)
      /\ Heap.block = block /\ Heap.live = live /\ Heap.mem = mem
  BY <1>1 DEF SoundUpTo, Heap
<1> HIDE DEF size
<1>4. /\ Chain = L /\ Len(Chain) = n /\ n \in Nat \ {0} /\ L \in [1 .. n -> Nodes]
      /\ mem = L[1] /\ live = {L[i] : i \in 1 .. n}
      /\ block[L[1]].lo = 0 /\ End(block[L[n]]) = size
      /\ \A i \in 1 .. n - 1 : block[L[i + 1]].lo = End(block[L[i]])
  BY <1>1, <1>2, SoundList
<1>5. TypeOK
  <2>1. block \in [Nodes -> Blocks] /\ live \subseteq Nodes
    BY <1>3, HeapType
  <2>2. mem \in live
    BY <1>4
  <2> QED BY <1>2, <2>1, <2>2 DEF TypeOK, Blocks
<1>6. 1 \in 1 .. n /\ n \in 1 .. n /\ \A k \in 1 .. n - 1 : k \in 1 .. n /\ k + 1 \in 1 .. n /\ k # n /\ k + 1 # 1
  BY <1>4
<1>7. ListIsSound
  <2>1. ToSet(Chain) = live
    BY <1>4 DEF ToSet
  <2>2. block[mem].prev = NULL /\ block[L[n]].next = NULL
    BY <1>3, <1>4, <1>6 DEF Linked
  <2>3. \A k \in 1 .. n - 1 : block[L[k]].next = L[k + 1] /\ block[L[k + 1]].prev = L[k]
    BY <1>3, <1>4, <1>6 DEF Linked
  <2>4. Last(Chain) = L[n]
    BY <1>4 DEF Last
  <2> QED BY <1>4, <2>1, <2>2, <2>3, <2>4 DEF ListIsSound
<1>8. BlocksTileMemory
  <2>1. block[L[n]].hi = Wrap(mem_size - 1)
    <3>1. block[L[n]] \in Blocks
      BY <1>3, <1>4, <1>6, HeapType
    <3>2. block[L[n]].hi = IF size = 0 THEN SIZE_MOD - 1 ELSE size - 1
      BY <1>4, <3>1, EndOfBlock
    <3>3. Wrap(size - 1) = IF size = 0 THEN SIZE_MOD - 1 ELSE size - 1
      BY <1>2, WrapValue, AllocatorAssumption
    <3> QED BY <3>2, <3>3 DEF size
  <2>2. \A k \in 1 .. n - 1 : block[L[k + 1]].lo = Wrap(block[L[k]].hi + 1)
    BY <1>4 DEF End
  <2>3. \A k \in 1 .. n - 1 : ~(Unused(L[k]) /\ Unused(L[k + 1]))
    BY <1>3 DEF NoHoles, Unused
  <2>4. Walk(LAMBDA sum, b : sum + Size(b), 0) = size
    BY <1>1, <1>2, SizesAddUp
  <2>5. Last(Chain) = L[n]
    BY <1>4 DEF Last
  <2>6. block[mem].lo = 0 /\ block[Last(Chain)].hi = Wrap(mem_size - 1)
    BY <1>4, <2>1, <2>5
  <2>7. \A k \in 1 .. Len(Chain) - 1 :
            /\ block[Chain[k + 1]].lo = Wrap(block[Chain[k]].hi + 1)
            /\ ~(Unused(Chain[k]) /\ Unused(Chain[k + 1]))
    BY <1>4, <2>2, <2>3
  <2> QED BY <2>4, <2>6, <2>7 DEF BlocksTileMemory, size
<1> QED BY <1>5, <1>7, <1>8 DEF ListTilesMemory

(* ListTilesMemory, for every size of the memory and any number of         *)
(* processes and nodes: splits, merges, swaps and the renamed first block  *)
(* leave a doubly linked list of blocks without a gap, an overlap or two   *)
(* adjacent holes.  (memory_allocator.c:103-157)                           *)
THEOREM ListAlwaysTilesMemory == Spec => []ListTilesMemory
  BY Invariance, InvariantGivesList, PTL
-----------------------------------------------------------------------------
(* The blocks of the list begin at growing addresses.                      *)
LEMMA AddressesGrow ==
    ASSUME NEW L, NEW n, NEW size \in 0 .. SIZE_MOD - 2, SoundUpTo(Heap, L, n, n, size),
           NEW j \in 1 .. n, NEW k \in 1 .. n, j <= k
    PROVE  block[L[j]].lo <= block[L[k]].lo
<1>1. /\ n \in Nat \ {0}
      /\ \A i \in 1 .. n : block[L[i]].lo \in Nat /\ End(block[L[i]]) \in Nat
      /\ \A i \in 1 .. n : block[L[i]].lo <= End(block[L[i]])
      /\ \A i \in 1 .. n - 1 : block[L[i + 1]].lo = End(block[L[i]])
  BY SoundList
<1> DEFINE lo(i) == block[L[i]].lo
           S == {d \in 0 .. n - j : lo(j) <= lo(j + d)}
<1>2. 0 \in S
  <2>1. j + 0 = j /\ lo(j) \in Nat /\ 0 \in 0 .. n - j
    BY <1>1
  <2> HIDE DEF lo
  <2> QED BY <2>1
<1>3. ASSUME NEW d \in 1 .. n - j, d - 1 \in S PROVE d \in S
  <2> DEFINE i == j + (d - 1)
  <2>1. i \in 1 .. n - 1 /\ i \in 1 .. n /\ i + 1 = j + d /\ i + 1 \in 1 .. n /\ d \in 0 .. n - j
    BY <1>1
  <2>2. lo(j) <= lo(i)
    BY <1>3
  <2> HIDE DEF i
  <2>3. lo(i) <= lo(i + 1)
    BY <1>1, <2>1
  <2>4. lo(j) \in Nat /\ lo(i) \in Nat /\ lo(i + 1) \in Nat
    BY <1>1, <2>1
  <2> HIDE DEF lo
  <2> QED BY <2>1, <2>2, <2>3, <2>4
<1> HIDE DEF S
<1>4. n - j \in Nat
  BY <1>1
<1>5. \A d \in 0 .. n - j : d \in S
  <2> DEFINE m == n - j
  <2>1. m \in Nat /\ \A d \in 1 .. m : d - 1 \in S => d \in S
    BY <1>3, <1>4
  <2> HIDE DEF m
  <2>2. \A d \in 0 .. m : d \in S
    BY <1>2, <2>1, InductionTo
  <2> QED BY <2>2 DEF m
<1>6. k - j \in S
  BY <1>1, <1>5
<1>7. j + (k - j) = k
  BY <1>1
<1> QED BY <1>6, <1>7 DEF S

(* The invariant implies what README.md:28-30 says of the strategies.      *)
LEMMA InvariantGivesChoice == IInv => StrategiesChooseRightHole
<1> DEFINE Fits(size) == {b \in live : Unused(b) /\ Size(b) >= size}
<1> SUFFICES ASSUME IInv, NEW size \in Sizes \ {0}
             PROVE  IF Fits(size) = {}
                    THEN {FirstFit(size), BestFit(size), WorstFit(size)} = {NULL}
                    ELSE /\ {FirstFit(size), BestFit(size), WorstFit(size)} \subseteq Fits(size)
                         /\ \A b \in Fits(size) :
                                /\ block[FirstFit(size)].lo <= block[b].lo
                                /\ Size(BestFit(size)) <= Size(b)
                                /\ Size(b) <= Size(WorstFit(size))
  BY DEF StrategiesChooseRightHole
<1>1. PICK L, n : SoundUpTo(Heap, L, n, n, mem_size)
  BY DEF IInv
<1>2. mem_size \in 0 .. SIZE_MOD - 2 /\ size \in 1 .. SIZE_MOD - 1 /\ size \in Nat
  BY AllocatorAssumption DEF IInv
<1>3. n \in Nat /\ live = {L[i] : i \in 1 .. n} /\ \A i \in 1 .. n : Size(L[i]) \in Nat
  <2>1. \A i \in 1 .. n : Size(L[i]) \in 0 .. mem_size
    BY <1>1, <1>2, ListSizes
  <2> QED BY <1>1, <1>2, <2>1, SoundList
<1> DEFINE F(i) == Unused(L[i]) /\ Size(L[i]) >= size
<1>4. /\ \A b \in Fits(size) : \E i \in 1 .. n : b = L[i] /\ F(i)
      /\ \A i \in 1 .. n : F(i) => L[i] \in Fits(size)
  BY <1>3
<1>5. PICK least : least = Wrap(size - 1)
  OBVIOUS
<1>6. \A i \in 1 .. n : Size(L[i]) > least <=> Size(L[i]) >= size
  <2>1. least = size - 1
    BY <1>2, <1>5, WrapValue, AllocatorAssumption
  <2> QED BY <1>2, <1>3, <2>1
<1>7. \/ FirstFit(size) = NULL /\ \A i \in 1 .. n : ~F(i)
      \/ \E j \in 1 .. n : FirstFit(size) = L[j] /\ F(j) /\ \A i \in 1 .. j - 1 : ~F(i)
  BY <1>1, <1>2, FirstFitIsFirst
<1>8. \/ BestFit(size) = NULL /\ \A i \in 1 .. n : ~F(i)
      \/ \E j \in 1 .. n : /\ BestFit(size) = L[j] /\ F(j)
                           /\ \A i \in 1 .. n : F(i) => Size(L[j]) <= Size(L[i])
  BY <1>1, <1>2, BestFitIsBest
<1>9. \/ WorstFit(size) = NULL /\ \A i \in 1 .. n : ~F(i)
      \/ \E j \in 1 .. n : /\ WorstFit(size) = L[j] /\ F(j)
                           /\ \A i \in 1 .. n : F(i) => Size(L[i]) <= Size(L[j])
  BY <1>1, <1>2, <1>5, <1>6, WorstFitIsWorst
<1>10. CASE Fits(size) = {}
  <2>1. \A i \in 1 .. n : ~F(i)
    BY <1>4, <1>10
  <2> HIDE DEF F
  <2>2. FirstFit(size) = NULL /\ BestFit(size) = NULL /\ WorstFit(size) = NULL
    BY <1>7, <1>8, <1>9, <2>1
  <2> QED BY <1>10, <2>2
<1>11. CASE Fits(size) # {}
  <2> HIDE DEF F, Fits
  <2>1. PICK i0 \in 1 .. n : F(i0)
    BY <1>4, <1>11
  <2>2. PICK j1 \in 1 .. n : FirstFit(size) = L[j1] /\ F(j1) /\ \A i \in 1 .. j1 - 1 : ~F(i)
    BY <1>7, <2>1
  <2>3. PICK j2 \in 1 .. n : /\ BestFit(size) = L[j2] /\ F(j2)
                             /\ \A i \in 1 .. n : F(i) => Size(L[j2]) <= Size(L[i])
    BY <1>8, <2>1
  <2>4. PICK j3 \in 1 .. n : /\ WorstFit(size) = L[j3] /\ F(j3)
                             /\ \A i \in 1 .. n : F(i) => Size(L[i]) <= Size(L[j3])
    BY <1>9, <2>1
  <2>5. ASSUME NEW b \in Fits(size)
        PROVE  /\ block[FirstFit(size)].lo <= block[b].lo
               /\ Size(BestFit(size)) <= Size(b) /\ Size(b) <= Size(WorstFit(size))
    <3>1. PICK i \in 1 .. n : b = L[i] /\ F(i)
      BY <1>4
    <3>2. j1 <= i
      BY <1>3, <2>2, <3>1
    <3>3. block[L[j1]].lo <= block[L[i]].lo
      BY <1>1, <1>2, <3>2, AddressesGrow
    <3> QED BY <2>2, <2>3, <2>4, <3>1, <3>3
  <2> QED BY <1>4, <1>11, <2>2, <2>3, <2>4, <2>5
<1> QED BY <1>10, <1>11

(* StrategiesChooseRightHole, for every list of blocks and every size but  *)
(* zero: a request is refused only when no hole is large enough, and gets  *)
(* the first, the smallest or the largest.  (memory_allocator.c:43-79)     *)
THEOREM RightHoleIsChosen == Spec => []StrategiesChooseRightHole
  BY Invariance, InvariantGivesChoice, PTL
-----------------------------------------------------------------------------
(* The bytes.  The abstract specification numbers them from 1 on.          *)
ByteOwners == [a \in 1 .. mem_size |-> OwnerOf(a - 1)]

LEMMA ByteOwnersAre ==
    ASSUME IInv
    PROVE  /\ mem_size \in Nat /\ DOMAIN Owners = 0 .. mem_size - 1
           /\ ByteOwners \in [1 .. mem_size -> {Owners[x] : x \in DOMAIN Owners}]
           /\ Len(ByteOwners) = mem_size
           /\ \A a \in 1 .. mem_size : a - 1 \in DOMAIN Owners /\ ByteOwners[a] = Owners[a - 1]
<1>1. mem_size \in Nat
  BY AllocatorAssumption DEF IInv
<1>2. DOMAIN Owners = 0 .. mem_size - 1 /\ \A x \in 0 .. mem_size - 1 : Owners[x] = OwnerOf(x)
  BY DEF Owners
<1>3. \A a \in 1 .. mem_size : a - 1 \in 0 .. mem_size - 1
  BY <1>1
<1>4. \A a \in 1 .. mem_size : ByteOwners[a] = Owners[a - 1]
  BY <1>2, <1>3 DEF ByteOwners
<1>5. ByteOwners \in [1 .. mem_size -> {Owners[x] : x \in DOMAIN Owners}]
  BY <1>2, <1>3, <1>4 DEF ByteOwners
<1>6. Len(ByteOwners) = mem_size
  BY <1>1, <1>5
<1> QED BY <1>1, <1>2, <1>3, <1>4, <1>5, <1>6

LEMMA ByteOwnersBecome ==
    ASSUME mem_size \in Nat, NEW q, DOMAIN q = 0 .. mem_size - 1, OwnersBecome(q)
    PROVE  ByteOwners' = [a \in 1 .. mem_size |-> q[a - 1]]
<1>1. mem_size' = mem_size /\ \A x \in 0 .. mem_size - 1 : Owners'[x] = q[x]
  BY DEF OwnersBecome
<1>2. \A x \in 0 .. mem_size - 1 : OwnerOf(x)' = q[x]
  BY <1>1 DEF Owners
<1>3. \A a \in 1 .. mem_size : a - 1 \in 0 .. mem_size - 1
  OBVIOUS
<1>4. ByteOwners' = [a \in 1 .. mem_size |-> OwnerOf(a - 1)']
  BY <1>1 DEF ByteOwners
<1> QED BY <1>2, <1>3, <1>4

(* Where nobody gets or loses a byte nothing happens to the bytes.         *)
LEMMA SameOwners ==
    ASSUME IInv, OwnersBecome(Owners)
    PROVE  ByteOwners' = ByteOwners
<1>1. ByteOwners' = [a \in 1 .. mem_size |-> Owners[a - 1]]
  BY ByteOwnersAre, ByteOwnersBecome
<1>2. ByteOwners = [a \in 1 .. mem_size |-> ByteOwners[a]]
  BY ByteOwnersAre
<1> QED BY <1>1, <1>2, ByteOwnersAre

(* A request gives some run of free bytes to the process, or nothing.      *)
LEMMA RequestBytes ==
    ASSUME IInv, NEW name \in Processes, NEW amount \in Nat, NEW first, GrantedIn(first, amount, name)
    PROVE  Bytes!Next \/ ByteOwners' = ByteOwners
<1> DEFINE o == Owners
           q == Granted(o, first, amount, name)
<1>1. /\ first \in Nat /\ first + amount <= mem_size /\ OwnersBecome(q)
      /\ \A a \in DOMAIN o : first <= a /\ a < first + amount => o[a] = NULL
  BY DEF GrantedIn
<1>2. /\ mem_size \in Nat /\ DOMAIN o = 0 .. mem_size - 1 /\ Len(ByteOwners) = mem_size
      /\ \A a \in 1 .. mem_size : a - 1 \in DOMAIN o /\ ByteOwners[a] = o[a - 1]
  BY ByteOwnersAre
<1> HIDE DEF o
<1>3. /\ DOMAIN q = DOMAIN o
      /\ \A a \in DOMAIN o : q[a] = IF first <= a /\ a < first + amount THEN name ELSE o[a]
  BY DEF Granted
<1> HIDE DEF q
<1>4. ByteOwners' = [a \in 1 .. mem_size |-> q[a - 1]]
  BY <1>1, <1>2, <1>3, ByteOwnersBecome
<1>5. CASE amount = 0
  <2>1. \A a \in DOMAIN o : q[a] = o[a]
    BY <1>1, <1>2, <1>3, <1>5
  <2>2. OwnersBecome(o)
    BY <1>1, <1>3, <2>1 DEF OwnersBecome
  <2> QED BY <2>2, SameOwners DEF o
<1>6. CASE amount # 0
  <2> DEFINE f == first + 1
  <2>1. f \in 1 .. mem_size /\ amount \in 1 .. mem_size /\ f + amount - 1 <= mem_size
    BY <1>1, <1>2, <1>6
  <2>2. \A a \in 1 .. mem_size : a \in f .. f + amount - 1 <=> first <= a - 1 /\ a - 1 < first + amount
    BY <1>1, <1>2
  <2>3. \A a \in f .. f + amount - 1 : a \in 1 .. mem_size
    BY <1>1, <1>2
  <2> HIDE DEF f
  <2>4. \A a \in f .. f + amount - 1 : ByteOwners[a] = NULL
    BY <1>1, <1>2, <2>2, <2>3
  <2>5. ByteOwners' = [a \in 1 .. mem_size |-> IF a \in f .. f + amount - 1 THEN name
                                               ELSE ByteOwners[a]]
    <3>1. \A a \in 1 .. mem_size : q[a - 1] = IF a \in f .. f + amount - 1 THEN name
                                              ELSE ByteOwners[a]
      BY <1>2, <1>3, <2>2
    <3> QED BY <1>4, <3>1
  <2>6. Bytes!Addresses = 1 .. mem_size
    BY <1>2 DEF Bytes!Addresses, ByteOwners
  <2>7. Bytes!Request(name, f, amount)
    BY <1>2, <2>1, <2>4, <2>5, <2>6 DEF Bytes!Request, ByteOwners
  <2> QED BY <2>1, <2>6, <2>7 DEF Bytes!Next
<1> QED BY <1>5, <1>6

(* A release frees what the process owns.                                  *)
LEMMA ReleaseBytes ==
    ASSUME IInv, NEW name \in Processes, OwnersBecome(Given(Owners, name))
    PROVE  Bytes!Next
<1> DEFINE o == Owners
           q == Given(o, name)
<1>1. /\ mem_size \in Nat /\ DOMAIN o = 0 .. mem_size - 1 /\ Len(ByteOwners) = mem_size
      /\ \A a \in 1 .. mem_size : a - 1 \in DOMAIN o /\ ByteOwners[a] = o[a - 1]
  BY ByteOwnersAre
<1>2. OwnersBecome(q)
  OBVIOUS
<1> HIDE DEF o
<1>3. DOMAIN q = DOMAIN o /\ \A a \in DOMAIN o : q[a] = IF o[a] = name THEN NULL ELSE o[a]
  BY DEF Given
<1> HIDE DEF q
<1>4. ByteOwners' = [a \in 1 .. mem_size |-> q[a - 1]]
  BY <1>1, <1>2, <1>3, ByteOwnersBecome
<1>5. \A a \in 1 .. mem_size : q[a - 1] = IF ByteOwners[a] = name THEN NULL ELSE ByteOwners[a]
  BY <1>1, <1>3
<1>6. ByteOwners' = [a \in 1 .. mem_size |-> IF ByteOwners[a] = name THEN NULL ELSE ByteOwners[a]]
  BY <1>4, <1>5
<1>7. Bytes!Addresses = 1 .. mem_size
  BY <1>1 DEF Bytes!Addresses, ByteOwners
<1>8. Bytes!Release(name)
  BY <1>6, <1>7 DEF Bytes!Release, ByteOwners
<1> QED BY <1>8 DEF Bytes!Next

(* A set that can be numbered from 1 to k has k elements.                  *)
LEMMA Numbered ==
    ASSUME NEW k \in Nat, NEW S, NEW f \in [S -> 1 .. k],
           \A a, b \in S : f[a] = f[b] => a = b, \A y \in 1 .. k : \E a \in S : f[a] = y
    PROVE  Cardinality(S) = k
<1>1. f \in Bijection(S, 1 .. k)
  BY DEF Bijection, Injection, Surjection, IsInjective
<1>2. ExistsBijection(1 .. k, S)
  BY <1>1, Fun_ExistsBij, Fun_ExistsBijSymmetric
<1>3. IsFiniteSet(1 .. k) /\ Cardinality(1 .. k) = k
  BY FS_Interval
<1> QED BY <1>2, <1>3, FS_Bijection

(* How many elements of S are at most a.                                   *)
Rank(S, a) == Cardinality({b \in S : b <= a})

(* f numbers the elements of S, from the least one on.                     *)
Numbers(f, S, k) ==
    /\ k \in Nat /\ S \subseteq Int /\ f \in [S -> 1 .. k]
    /\ \A a, b \in S : a < b => f[a] < f[b]
    /\ \A y \in 1 .. k : \E a \in S : f[a] = y

(* If the numbers grow with the elements they are the ranks.               *)
LEMMA Ranked ==
    ASSUME NEW k, NEW S, NEW f, Numbers(f, S, k)
    PROVE  Cardinality(S) = k /\ \A a \in S : Rank(S, a) = f[a]
<1>1. /\ k \in Nat /\ S \subseteq Int /\ f \in [S -> 1 .. k]
      /\ \A a, b \in S : a < b => f[a] < f[b]
      /\ \A y \in 1 .. k : \E a \in S : f[a] = y
  BY DEF Numbers
<1>2. \A a, b \in S : f[a] = f[b] => a = b
  <2> SUFFICES ASSUME NEW a \in S, NEW b \in S, f[a] = f[b], a # b PROVE FALSE
    OBVIOUS
  <2>1. a \in Int /\ b \in Int /\ f[a] \in 1 .. k
    BY <1>1
  <2>2. a < b \/ b < a
    BY <2>1
  <2> QED BY <1>1, <2>1, <2>2
<1>3. Cardinality(S) = k
  BY <1>1, <1>2, Numbered
<1>4. ASSUME NEW a \in S PROVE Rank(S, a) = f[a]
  <2> DEFINE T == {b \in S : b <= a}
             m == f[a]
             g == [b \in T |-> f[b]]
  <2>1. m \in Nat /\ m \in 1 .. k /\ a \in Int
    BY <1>1
  <2>2. ASSUME NEW b \in T PROVE g[b] \in 1 .. m
    <3>1. b \in S /\ b \in Int /\ b <= a /\ f[b] \in 1 .. k
      BY <1>1
    <3>2. b = a \/ b < a
      BY <2>1, <3>1
    <3>3. f[b] <= m
      BY <1>1, <2>1, <3>1, <3>2
    <3> QED BY <2>1, <3>1, <3>3
  <2>3. ASSUME NEW y \in 1 .. m PROVE \E b \in T : g[b] = y
    <3>1. PICK b \in S : f[b] = y
      BY <1>1, <2>1
    <3>2. ~(a < b)
      BY <1>1, <2>1, <3>1
    <3>3. b \in T
      BY <1>1, <2>1, <3>2
    <3> QED BY <3>1, <3>3
  <2>4. \A b, c \in T : g[b] = g[c] => b = c
    BY <1>2
  <2>5. g \in [T -> 1 .. m]
    BY <2>2
  <2> HIDE DEF T, g, m
  <2>6. Cardinality(T) = m
    BY <2>1, <2>3, <2>4, <2>5, Numbered
  <2> QED BY <2>6 DEF T, m, Rank
<1> QED BY <1>3, <1>4

(* The places that are in use after a compaction are the first ones.       *)
LEMMA PackedFirst ==
    ASSUME NEW size \in Nat, NEW q, DOMAIN q = 0 .. size - 1,
           \A x, y \in DOMAIN q : q[x] = NULL /\ x < y => q[y] = NULL
    PROVE  \E u \in 0 .. size : Used(q) = 0 .. u - 1
<1> DEFINE T == {x \in 0 .. size : x \notin Used(q)}
<1>1. size \in T /\ T \subseteq Nat
  BY DEF Used
<1>2. PICK u \in T : \A y \in T : u <= y
  <2> HIDE DEF T
  <2> QED BY <1>1, LeastNat
<1>3. u \in 0 .. size /\ u \notin Used(q)
  OBVIOUS
<1>4. ASSUME NEW x \in 0 .. u - 1 PROVE x \in Used(q)
  <2>1. x \in 0 .. size /\ ~(u <= x)
    BY <1>3
  <2>2. x \notin T
    BY <1>2, <2>1
  <2> QED BY <2>1, <2>2
<1>5. ASSUME NEW x \in Used(q) PROVE x \in 0 .. u - 1
  <2>1. x \in 0 .. size - 1 /\ q[x] # NULL
    BY DEF Used
  <2>2. x # u
    BY <1>3
  <2>3. ~(u < x)
    <3> SUFFICES ASSUME u < x PROVE FALSE
      OBVIOUS
    <3>1. u \in DOMAIN q
      BY <1>3, <2>1
    <3>2. q[u] = NULL
      BY <1>3, <3>1 DEF Used
    <3> QED BY <2>1, <3>1, <3>2
  <2> QED BY <1>3, <2>1, <2>2, <2>3
<1> QED BY <1>3, <1>4, <1>5

(* A compaction puts each byte that is in use where its rank says.         *)
LEMMA CompactBytes ==
    ASSUME IInv, NEW q, PackedAs(q)
    PROVE  Bytes!Next
<1> DEFINE o == Owners
           used == {a \in 1 .. mem_size : ByteOwners[a] # NULL}
<1>1. /\ mem_size \in Nat /\ DOMAIN o = 0 .. mem_size - 1 /\ Len(ByteOwners) = mem_size
      /\ \A a \in 1 .. mem_size : a - 1 \in DOMAIN o /\ ByteOwners[a] = o[a - 1]
  BY ByteOwnersAre
<1>2. PICK to : Moves(o, q, to)
  BY DEF PackedAs
<1>3. OwnersBecome(q) /\ \A x, y \in DOMAIN q : q[x] = NULL /\ x < y => q[y] = NULL
  BY DEF PackedAs
<1> HIDE DEF o
<1>4. /\ DOMAIN q = 0 .. mem_size - 1 /\ to \in [Used(o) -> DOMAIN o]
      /\ \A a, b \in Used(o) : a < b => to[a] < to[b]
      /\ \A a \in Used(o) : q[to[a]] = o[a]
      /\ \A b \in Used(q) : \E a \in Used(o) : to[a] = b
  BY <1>1, <1>2 DEF Moves
<1>5. PICK u \in 0 .. mem_size : Used(q) = 0 .. u - 1
  BY <1>1, <1>3, <1>4, PackedFirst
<1>6. ByteOwners' = [a \in 1 .. mem_size |-> q[a - 1]]
  BY <1>1, <1>3, <1>4, ByteOwnersBecome
<1>7. ASSUME NEW a \in used PROVE a \in 1 .. mem_size /\ a - 1 \in Used(o)
  BY <1>1 DEF Used
<1>8. ASSUME NEW x \in Used(o) PROVE x + 1 \in used /\ (x + 1) - 1 = x
  <2>1. x \in DOMAIN o /\ o[x] # NULL
    BY DEF Used
  <2>2. x + 1 \in 1 .. mem_size /\ (x + 1) - 1 = x
    BY <1>1, <2>1
  <2> QED BY <1>1, <2>1, <2>2
<1> DEFINE f == [a \in used |-> to[a - 1] + 1]
<1>9. ASSUME NEW a \in used PROVE f[a] \in 1 .. u /\ to[a - 1] = f[a] - 1
  <2>1. PICK x : x = a - 1 /\ x \in Used(o)
    BY <1>7
  <2>2. to[x] \in DOMAIN o /\ q[to[x]] = o[x] /\ o[x] # NULL
    BY <1>4, <2>1 DEF Used
  <2>3. to[x] \in 0 .. u - 1
    BY <1>1, <1>4, <1>5, <2>2 DEF Used
  <2>4. f[a] = to[x] + 1
    BY <2>1
  <2> HIDE DEF f
  <2> QED BY <2>1, <2>3, <2>4
<1>10. ASSUME NEW a \in used, NEW b \in used, a < b PROVE f[a] < f[b]
  <2>1. PICK x : x = a - 1 /\ x \in Used(o)
    BY <1>7
  <2>2. PICK y : y = b - 1 /\ y \in Used(o)
    BY <1>7
  <2>3. x < y
    BY <1>7, <1>10, <2>1, <2>2
  <2>4. to[x] < to[y]
    BY <1>4, <2>1, <2>2, <2>3
  <2>5. f[a] \in Int /\ f[b] \in Int /\ to[x] = f[a] - 1 /\ to[y] = f[b] - 1
    BY <1>9, <2>1, <2>2
  <2> HIDE DEF f
  <2> QED BY <2>4, <2>5
<1>11. ASSUME NEW y \in 1 .. u PROVE \E a \in used : f[a] = y
  <2>1. y - 1 \in Used(q)
    BY <1>5
  <2>2. PICK x \in Used(o) : to[x] = y - 1
    BY <1>4, <2>1
  <2>3. PICK a : a = x + 1 /\ a \in used /\ a - 1 = x
    BY <1>8
  <2>4. to[x] = f[a] - 1 /\ f[a] \in Int
    BY <1>9, <2>3
  <2> HIDE DEF f
  <2>5. f[a] = y
    BY <2>2, <2>4
  <2> QED BY <2>3, <2>5
<1>12. f \in [used -> 1 .. u] /\ used \subseteq Int /\ u \in Nat
  <2>1. \A a \in used : to[a - 1] + 1 \in 1 .. u
    BY <1>9
  <2> QED BY <2>1
<1> HIDE DEF f, used
<1>13. Cardinality(used) = u /\ \A a \in used : Rank(used, a) = f[a]
  <2>1. Numbers(f, used, u)
    BY <1>10, <1>11, <1>12 DEF Numbers
  <2> QED BY <2>1, Ranked
<1>14. DOMAIN ByteOwners' = 1 .. mem_size
  BY <1>6
<1>15. ASSUME NEW a \in used PROVE ByteOwners'[f[a]] = ByteOwners[a]
  <2>1. a \in 1 .. mem_size /\ a - 1 \in Used(o)
    BY <1>7
  <2>2. f[a] \in 1 .. mem_size /\ f[a] - 1 = to[a - 1]
    BY <1>1, <1>5, <1>9
  <2>3. ByteOwners'[f[a]] = q[f[a] - 1]
    BY <1>6, <2>2
  <2> QED BY <1>1, <1>4, <2>1, <2>2, <2>3
<1>16. ASSUME NEW a \in 1 .. mem_size, a > u PROVE ByteOwners'[a] = NULL
  <2>1. a - 1 \in DOMAIN q /\ a - 1 \notin Used(q)
    BY <1>1, <1>4, <1>5, <1>16
  <2> QED BY <1>6, <2>1 DEF Used
<1>17. Bytes!Addresses = 1 .. mem_size
  BY <1>1 DEF Bytes!Addresses, ByteOwners
<1>18. used = {a \in Bytes!Addresses : ByteOwners[a] # NULL}
  BY <1>17 DEF used
<1>19. ASSUME NEW S PROVE Bytes!Cardinality(S) = Cardinality(S)
  BY DEF Bytes!Cardinality, Cardinality
<1>20. Bytes!Compact
  <2>1. \A a \in used : ByteOwners'[Bytes!Cardinality({b \in used : b <= a})]
                          = ByteOwners[a]
    <3> SUFFICES ASSUME NEW a \in used
                 PROVE  ByteOwners'[Bytes!Cardinality({b \in used : b <= a})]
                            = ByteOwners[a]
      OBVIOUS
    <3>1. Cardinality({b \in used : b <= a}) = f[a]
      BY <1>13 DEF Rank
    <3> QED BY <1>15, <1>19, <3>1
  <2>2. \A a \in Bytes!Addresses : a > Bytes!Cardinality(used) => ByteOwners'[a] = NULL
    BY <1>13, <1>16, <1>17, <1>19
  <2>3. DOMAIN ByteOwners' = Bytes!Addresses
    BY <1>14, <1>17
  <2> QED BY <1>18, <2>1, <2>2, <2>3 DEF Bytes!Compact, ByteOwners
<1> QED BY <1>20 DEF Bytes!Next

(* At the start nobody owns a byte.                                        *)
LEMMA InitialBytes == Init => Bytes!Init
<1> SUFFICES ASSUME Init PROVE Bytes!Init
  OBVIOUS
<1>1. IInv
  BY InitIInv
<1>2. PICK L, n : SoundUpTo(Heap, L, n, n, mem_size)
  BY <1>1 DEF IInv
<1>3. /\ mem_size \in MemSizes /\ mem_size \in 0 .. SIZE_MOD - 2
      /\ Heap \in Heaps /\ Linked(Heap, L, n) /\ Tiled(Heap, L, n, mem_size)
  BY <1>1, <1>2, AllocatorAssumption DEF IInv, SoundUpTo
<1>4. DOMAIN Owners = 0 .. mem_size - 1 /\ Owned(Heap, L, n, Owners)
  BY <1>2, <1>3, OwnersBefore
<1>5. \A i \in 1 .. n : Heap.block[L[i]].name = NULL
  <2>1. \A i \in 1 .. n : L[i] \in Nodes /\ L[i] \in live
    BY <1>3 DEF Linked, Heap
  <2>2. \A b \in Nodes : block[b].name = NULL
    BY DEF Init, Blank
  <2> QED BY <2>1, <2>2 DEF Heap
<1>6. ASSUME NEW x \in 0 .. mem_size - 1 PROVE Owners[x] = NULL
  <2>1. PICK i \in 1 .. n : Covers(Heap.block[L[i]], x)
    BY <1>3, OneBlockAt
  <2> QED BY <1>4, <1>5, <2>1 DEF Owned
<1>7. \A a \in 1 .. mem_size : OwnerOf(a - 1) = NULL
  <2>1. \A a \in 1 .. mem_size : ByteOwners[a] = NULL
    BY <1>1, <1>4, <1>6, ByteOwnersAre
  <2> QED BY <2>1 DEF ByteOwners
<1>8. [a \in 1 .. mem_size |-> OwnerOf(a - 1)] = [a \in 1 .. mem_size |-> NULL]
  BY <1>7
<1> QED BY <1>3, <1>8 DEF Bytes!Init

(* Every command does to the bytes what the abstract specification allows. *)
THEOREM BytesStep ==
    ASSUME IInv, [Next]_vars
    PROVE  [Bytes!Next]_[a \in 1 .. mem_size |-> OwnerOf(a - 1)]
<1>1. SUFFICES Bytes!Next \/ ByteOwners' = ByteOwners
  BY DEF ByteOwners
<1>2. ASSUME NEW name \in Processes, NEW size \in Sizes, NEW strategy \in {"F", "B", "W"},
             request_memory(name, size, strategy)
      PROVE  Bytes!Next \/ ByteOwners' = ByteOwners
  <2>1. size \in Nat
    BY AllocatorAssumption
  <2>2. OwnersBecome(Owners) \/ \E first : GrantedIn(first, size, name)
    BY <1>2, RequestKeeps
  <2> QED BY <2>1, <2>2, SameOwners, RequestBytes
<1>3. CASE UnknownStrategy
  <2>1. Become(Heap) /\ mem_size' = mem_size /\ answer' = -1
    BY <1>3 DEF UnknownStrategy, Become, Heap
  <2> QED BY <2>1, HeapUnchanged, SameOwners
<1>4. ASSUME NEW name \in Processes, release_memory(name)
      PROVE  Bytes!Next
  BY <1>4, ReleaseKeeps, ReleaseBytes
<1>5. CASE compact_memory
  BY <1>5, CompactKeeps, CompactBytes
<1>6. CASE UNCHANGED vars
  BY <1>6 DEF vars, ByteOwners, OwnerOf, Size
<1> QED BY <1>2, <1>3, <1>4, <1>5, <1>6 DEF Next

(* ImplementsAddressSpace, for every size of the memory and any sequence   *)
(* of commands: a request takes bytes that were free, a release frees all  *)
(* that the process has and no other, and a compaction moves every byte in *)
(* use, in order, and loses none.  (memory_allocator.c:43-157)             *)
THEOREM KeepsBytes == Spec => ImplementsAddressSpace
<1>1. Init => Bytes!Init
  BY InitialBytes
<1>2. IInv /\ [Next]_vars => [Bytes!Next]_[a \in 1 .. mem_size |-> OwnerOf(a - 1)]
  BY BytesStep
<1> QED BY <1>1, <1>2, Invariance, PTL DEF Spec, ImplementsAddressSpace, Bytes!Spec
=============================================================================
