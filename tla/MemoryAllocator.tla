--------------------------- MODULE MemoryAllocator ---------------------------
(***************************************************************************)
(* The contiguous memory allocator of Project-7: memory_allocator.c.       *)
(*                                                                         *)
(* The program is sequential; one action is one command.  The blocks form  *)
(* a doubly linked list of malloc'ed nodes that request_memory splits and  *)
(* release_memory and compact_memory merge.  The model keeps the pointers, *)
(* and which nodes were freed.                                             *)
(***************************************************************************)
EXTENDS Integers, SequencesExt, FiniteSets

CONSTANTS MemSizes,     \* what the argument of the program may be
          SIZE_MOD,     \* size_t counts modulo this: 2^64
          Processes,    \* process names
          Sizes,        \* sizes a request may name
          Nodes,        \* the nodes malloc may return: bounds the blocks that exist at a time
          NULL          \* the null pointer; the name of an unused block

ASSUME AllocatorAssumption ==
    /\ SIZE_MOD \in Nat \ {0}
    /\ MemSizes \subseteq 0 .. SIZE_MOD - 2
    /\ Sizes \subseteq 0 .. SIZE_MOD - 1
    /\ IsFiniteSet(Nodes) /\ Nodes # {}
    /\ NULL \notin Processes \cup Nodes

VARIABLES block,        \* [lo, hi, name, prev, next] of every node
          live,         \* the nodes that were malloc'ed and not freed
          mem,          \* the first block
          mem_size,
          answer        \* return value of the last command

vars == <<block, live, mem, mem_size, answer>>

Wrap(x) == x % SIZE_MOD
SIZE_MAX == SIZE_MOD - 1

(* The heap as the functions below pass it on.                             *)
Heap == [block |-> block, live |-> live, mem |-> mem]
Become(h) == block' = h.block /\ live' = h.live /\ mem' = h.mem

(* The blocks from mem on, following next.                                 *)
Chain ==
    LET at[k \in 0 .. Cardinality(Nodes)] ==
            IF k = 0 THEN mem
            ELSE IF at[k - 1] = NULL THEN NULL ELSE block[at[k - 1]].next
    IN [k \in 1 .. Cardinality({j \in DOMAIN at : at[j] # NULL}) |-> at[k - 1]]

(* A loop along the list, the way it is when the loop starts: what Step    *)
(* makes of start, block by block.                                         *)
Walk(Step(_, _), start) ==
    LET chain == Chain
        after[k \in 0 .. Len(chain)] ==
            IF k = 0 THEN start ELSE Step(after[k - 1], chain[k])
    IN after[Len(chain)]

(* What a node that is not allocated is taken to hold: nothing reads it.   *)
Blank == [lo |-> 0, hi |-> 0, name |-> NULL, prev |-> NULL, next |-> NULL]

Unused(b) == block[b].name = NULL
Size(b) == Wrap(block[b].hi - block[b].lo + 1)
-----------------------------------------------------------------------------
(* request_memory.                                                         *)

(* The three loops over the list that select the hole, or NULL.            *)
FirstFit(size) ==
    Walk(LAMBDA hole, b : IF hole = NULL /\ Unused(b) /\ Size(b) >= size THEN b ELSE hole,
         NULL)

LastBestFit(size) ==
    Walk(LAMBDA s, b : IF Unused(b) /\ size <= Size(b) THEN [min |-> Size(b), hole |-> b]
                       ELSE s,
         [min |-> SIZE_MAX, hole |-> NULL]).hole

BestFit(size) ==
    Walk(LAMBDA s, b : IF Unused(b) /\ size <= Size(b) /\ Size(b) < s.min
                       THEN [min |-> Size(b), hole |-> b] ELSE s,
         [min |-> SIZE_MAX, hole |-> NULL]).hole

WorstFit(size) ==
    Walk(LAMBDA s, b : IF Unused(b) /\ Size(b) > s.max
                       THEN [max |-> Size(b), hole |-> b] ELSE s,
         [max |-> Wrap(size - 1), hole |-> NULL]).hole

Hole(size, strategy) == CASE strategy = "F" -> FirstFit(size)
                          [] strategy = "B" -> BestFit(size)
                          [] strategy = "W" -> WorstFit(size)

(* make_block for the part of the hole that is left.                       *)
Split(hole, node, name, size) ==
    LET lo == block[hole].lo
        next == block[hole].next
    IN [b \in Nodes |->
           CASE b = node -> [lo |-> Wrap(lo + size), hi |-> block[hole].hi, name |-> NULL,
                             prev |-> hole, next |-> next]
             [] b = hole -> [block[b] EXCEPT !.name = name, !.next = node,
                                             !.hi = Wrap(lo + size - 1)]
             [] b = next -> [block[b] EXCEPT !.prev = node]
             [] OTHER -> block[b]]

RequestFails(size, strategy) ==
    /\ Hole(size, strategy) = NULL
    /\ answer' = -2
    /\ UNCHANGED <<block, live, mem, mem_size>>

RequestWholeHole(name, size, strategy) ==
    LET hole == Hole(size, strategy) IN
    /\ hole # NULL
    /\ Size(hole) = size
    /\ block' = [block EXCEPT ![hole].name = name]
    /\ answer' = 0
    /\ UNCHANGED <<live, mem, mem_size>>

RequestPart(name, size, strategy) ==
    LET hole == Hole(size, strategy) IN
    /\ hole # NULL
    /\ Size(hole) # size
    /\ \E node \in Nodes \ live :
           /\ block' = Split(hole, node, name, size)
           /\ live' = live \cup {node}
    /\ answer' = 0
    /\ UNCHANGED <<mem, mem_size>>

request_memory(name, size, strategy) ==
    \/ RequestFails(size, strategy)
    \/ RequestWholeHole(name, size, strategy)
    \/ RequestPart(name, size, strategy)

UnknownStrategy == answer' = -1 /\ UNCHANGED <<block, live, mem, mem_size>>
-----------------------------------------------------------------------------
(* release_memory and compact_memory.  Both walk along the list; what they *)
(* change behind the cursor does not change its way.                       *)

(* The block before c is unused: it exists and has no name.                *)
HoleBefore(h, c) ==
    LET p == h.block[c].prev IN p # NULL /\ h.block[p].name = NULL

(* The block before c is taken into c and freed.                           *)
Absorb(h, c) ==
    LET p == h.block[c].prev
        before == h.block[p].prev
    IN [mem |-> h.mem,
        live |-> h.live \ {p},
        block |-> [b \in Nodes |->
            CASE b = p -> Blank
              [] b = c -> [h.block[b] EXCEPT !.prev = before, !.lo = h.block[p].lo]
              [] b = before /\ b \notin {p, c} -> [h.block[b] EXCEPT !.next = c]
              [] OTHER -> h.block[b]]]

WithBlock(h, c, b) == [mem |-> h.mem, live |-> h.live, block |-> [h.block EXCEPT ![c] = b]]

Mark(h, c, name) ==
    IF h.block[c].name = name THEN WithBlock(h, c, [h.block[c] EXCEPT !.name = NULL]) ELSE h

Merge(h, c) ==
    IF h.block[c].name = NULL /\ HoleBefore(h, c) THEN Absorb(h, c) ELSE h

FirstKept(h, c) == h
FirstUpdated(h, c) ==
    IF h.block[c].prev = NULL THEN [mem |-> c, live |-> h.live, block |-> h.block] ELSE h

Released(name) == Walk(LAMBDA h, c : FirstUpdated(Merge(Mark(h, c, name), c), c), Heap)

release_memory(name) ==
    /\ Become(Released(name))
    /\ answer' = IF \E b \in Nodes : Contains(Chain, b) /\ block[b].name = name THEN 0 ELSE 1
    /\ UNCHANGED mem_size

(* A used block after an unused one: the two are swapped by exchanging the *)
(* name and moving the border between them.                                *)
SwapWithoutBorder(h, c) ==
    LET p == h.block[c].prev IN
    IF h.block[c].name # NULL /\ HoleBefore(h, c)
    THEN WithBlock(WithBlock(h, p, [h.block[p] EXCEPT !.name = h.block[c].name]),
                   c, [h.block[c] EXCEPT !.name = NULL])
    ELSE h

Swap(h, c) ==
    LET p == h.block[c].prev
        border == Wrap(h.block[p].lo + (h.block[c].hi - h.block[c].lo))
    IN IF h.block[c].name # NULL /\ HoleBefore(h, c)
       THEN WithBlock(
                WithBlock(h, p, [h.block[p] EXCEPT !.hi = border, !.name = h.block[c].name]),
                c, [h.block[c] EXCEPT !.lo = Wrap(border + 1), !.name = NULL])
       ELSE h

Compacted == Walk(LAMBDA h, c : Merge(Swap(h, c), c), Heap)

compact_memory ==
    /\ Become(Compacted)
    /\ UNCHANGED <<mem_size, answer>>
-----------------------------------------------------------------------------
Init ==
    /\ mem_size \in MemSizes
    /\ mem \in Nodes
    /\ live = {mem}
    /\ block = [b \in Nodes |-> IF b = mem THEN [Blank EXCEPT !.hi = Wrap(mem_size - 1)]
                                ELSE Blank]
    /\ answer = 0

Next ==
    \/ \E name \in Processes, size \in Sizes, strategy \in {"F", "B", "W"} :
           request_memory(name, size, strategy)
    \/ UnknownStrategy
    \/ \E name \in Processes : release_memory(name)
    \/ compact_memory

Spec == Init /\ [][Next]_vars
-----------------------------------------------------------------------------
(* Properties.                                                             *)

TypeOK ==
    /\ mem_size \in MemSizes
    /\ answer \in {0, 1, -1, -2}
    /\ mem \in live /\ live \subseteq Nodes
    /\ block \in [Nodes -> [lo : 0 .. SIZE_MAX, hi : 0 .. SIZE_MAX,
                            name : Processes \cup {NULL},
                            prev : Nodes \cup {NULL}, next : Nodes \cup {NULL}]]

(* The list: mem is its first block, prev undoes next, and what can be     *)
(* reached is what was not freed.  compact_memory frees blocks but never   *)
(* moves mem; it is right only because it never frees the first one.       *)
ListIsSound ==
    /\ ToSet(Chain) = live
    /\ block[mem].prev = NULL
    /\ block[Last(Chain)].next = NULL
    /\ \A k \in 1 .. Len(Chain) - 1 :
           /\ block[Chain[k]].next = Chain[k + 1]
           /\ block[Chain[k + 1]].prev = Chain[k]

(* The blocks cover the memory from 0 to mem_size - 1 without a gap or an  *)
(* overlap, and no two holes are side by side: release_memory merges every *)
(* pair, so a request that would fit a merged hole never fails.            *)
BlocksTileMemory ==
    /\ block[mem].lo = 0
    /\ block[Last(Chain)].hi = Wrap(mem_size - 1)
    /\ \A k \in 1 .. Len(Chain) - 1 :
           /\ block[Chain[k + 1]].lo = Wrap(block[Chain[k]].hi + 1)
           /\ ~(Unused(Chain[k]) /\ Unused(Chain[k + 1]))
    /\ Walk(LAMBDA sum, b : sum + Size(b), 0) = mem_size

(* After any sequence of splits, merges and swaps, also for a memory of    *)
(* zero bytes, whose hi wraps around.  (memory_allocator.c:103-157)        *)
ListTilesMemory == TypeOK /\ ListIsSound /\ BlocksTileMemory

(* README.md:28-30: each strategy finds a hole that is large enough if     *)
(* there is one: the first, the smallest, the largest.  A request for no   *)
(* bytes is left out: worst fit, which starts from size - 1, refuses it.   *)
StrategiesChooseRightHole ==
    \A size \in Sizes \ {0} :
        LET Fits == {b \in live : Unused(b) /\ Size(b) >= size}
            Best == BestFit(size)
            Worst == WorstFit(size)
        IN IF Fits = {}
           THEN {FirstFit(size), Best, Worst} = {NULL}
           ELSE /\ {FirstFit(size), Best, Worst} \subseteq Fits
                /\ \A b \in Fits : /\ block[FirstFit(size)].lo <= block[b].lo
                                   /\ Size(Best) <= Size(b) /\ Size(b) <= Size(Worst)

(* The owner of each byte, as the list of blocks tells it.                 *)
OwnerOf(a) == LET covers == {b \in live : block[b].lo <= a /\ a <= block[b].hi /\ Size(b) > 0}
              IN block[CHOOSE b \in covers : TRUE].name

Bytes == INSTANCE AddressSpace WITH
    Nobody <- NULL,
    owner <- [a \in 1 .. mem_size |-> OwnerOf(a - 1)]

(* Splitting, merging and swapping blocks do to every byte what a request, *)
(* a release or a compaction should, and nothing to the other bytes.       *)
ImplementsAddressSpace == Bytes!Spec
=============================================================================
