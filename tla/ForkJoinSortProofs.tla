------------------------- MODULE ForkJoinSortProofs -------------------------
(***************************************************************************)
(* What the sorts of Project-3 do, for every input, any threshold and any  *)
(* width of int: no two calls touch the same element, and each call leaves *)
(* its slice sorted and with the elements it began with.                   *)
(***************************************************************************)
EXTENDS ForkJoinSort, Counting, FunctionTheorems

(* The paths that name calls, and the tree they form.                      *)
Paths == Seq({1, 2})
Kid(t, k) == t \o <<k>>
Under(t, u) == Len(t) < Len(u) /\ \A x \in 1 .. Len(t) : u[x] = t[x]

LEMMA KidPath ==
    ASSUME NEW t \in Paths, NEW k \in {1, 2}
    PROVE  /\ Kid(t, k) \in Paths /\ Kid(t, k) # main /\ Kid(t, k) # t
           /\ Front(Kid(t, k)) = t
<1>1. /\ Kid(t, k) \in Paths /\ Len(Kid(t, k)) = Len(t) + 1
      /\ \A x \in 1 .. Len(t) : Kid(t, k)[x] = t[x]
  BY DEF Paths, Kid
<1>2. Front(Kid(t, k)) = t
  <2>1. Front(Kid(t, k)) = SubSeq(Kid(t, k), 1, Len(t))
    BY <1>1 DEF Front
  <2> DEFINE s == SubSeq(Kid(t, k), 1, Len(t))
  <2>2. s \in Paths /\ Len(s) = Len(t) /\ \A x \in 1 .. Len(t) : s[x] = t[x]
    BY <1>1 DEF Paths
  <2>3. s = t
    <3> HIDE DEF s
    <3> QED BY <2>2, SeqEqual DEF Paths
  <2> QED BY <2>1, <2>3
<1>3. Len(Kid(t, k)) # Len(main) /\ Len(Kid(t, k)) # Len(t)
  BY <1>1 DEF main, Paths
<1> QED BY <1>1, <1>2, <1>3

LEMMA KidInjective ==
    ASSUME NEW t \in Paths, NEW u \in Paths, NEW k \in {1, 2}, NEW l \in {1, 2},
           Kid(t, k) = Kid(u, l)
    PROVE  t = u /\ k = l
<1>1. t = u
  BY KidPath
<1>2. Kid(t, k)[Len(t) + 1] = k /\ Kid(u, l)[Len(u) + 1] = l
  BY DEF Kid, Paths
<1> QED BY <1>1, <1>2

LEMMA EveryKid ==
    ASSUME NEW u \in Paths, u # main
    PROVE  Front(u) \in Paths /\ \E k \in {1, 2} : u = Kid(Front(u), k)
<1> DEFINE n == Len(u)
           s == SubSeq(u, 1, n - 1)
           k == u[n]
<1>1. n \in Nat /\ n >= 1
  BY DEF Paths, main
<1>2. /\ s \in Paths /\ Len(s) = n - 1 /\ \A x \in 1 .. n - 1 : s[x] = u[x]
      /\ k \in {1, 2}
  <2>1. k \in {1, 2}
    BY <1>1 DEF Paths
  <2>2. s \in Paths /\ Len(s) = n - 1 /\ \A x \in 1 .. n - 1 : s[x] = u[x]
    <3> DEFINE m == n - 1
    <3>1. m \in 0 .. n - 1 /\ m \in 0 .. Len(u)
      BY <1>1
    <3> HIDE DEF k, m
    <3>2. /\ SubSeq(u, 1, m) \in Seq({1, 2}) /\ Len(SubSeq(u, 1, m)) = m
          /\ \A x \in 1 .. m : SubSeq(u, 1, m)[x] = u[x]
      BY <1>1, <3>1 DEF Paths
    <3> QED BY <3>2 DEF m, Paths
  <2> QED BY <2>1, <2>2
<1>3. /\ Kid(s, k) \in Paths /\ Len(Kid(s, k)) = n
      /\ \A x \in 1 .. n : Kid(s, k)[x] = u[x]
  <2> HIDE DEF s, k
  <2>1. /\ Kid(s, k) \in Paths /\ Len(Kid(s, k)) = n
        /\ \A x \in 1 .. n - 1 : Kid(s, k)[x] = s[x]
        /\ Kid(s, k)[n] = k
    BY <1>1, <1>2 DEF Paths, Kid
  <2>2. \A x \in 1 .. n : x = n \/ x \in 1 .. n - 1
    BY <1>1
  <2> QED BY <2>1, <2>2, <1>2 DEF k
<1>4. Kid(s, k) = u
  <2> HIDE DEF s, k
  <2> QED BY <1>3, SeqEqual DEF Paths
<1> QED BY <1>2, <1>4 DEF Front

LEMMA UnderKid ==
    ASSUME NEW t \in Paths, NEW u \in Paths, NEW k \in {1, 2}
    PROVE  Under(t, Kid(u, k)) <=> t = u \/ Under(t, u)
<1> DEFINE c == Kid(u, k)
<1>1. /\ c \in Paths /\ Len(c) = Len(u) + 1 /\ Len(u) \in Nat /\ Len(t) \in Nat
      /\ \A x \in 1 .. Len(u) : c[x] = u[x]
  BY DEF Paths, Kid
<1> HIDE DEF c
<1>2. t = u \/ Under(t, u) => Under(t, c)
  BY <1>1 DEF Under
<1>3. ASSUME Under(t, c) PROVE t = u \/ Under(t, u)
  <2>1. CASE Len(t) = Len(u)
    <3>1. \A x \in 1 .. Len(t) : t[x] = u[x]
      BY <1>1, <1>3, <2>1 DEF Under
    <3> QED BY <3>1, <2>1, SeqEqual DEF Paths
  <2>2. CASE Len(t) < Len(u)
    BY <1>1, <1>3, <2>2 DEF Under
  <2> QED BY <2>1, <2>2, <1>1, <1>3 DEF Under
<1> QED BY <1>2, <1>3 DEF c

LEMMA UnderFirst ==
    ASSUME NEW t \in Paths, NEW u \in Paths, Under(t, u)
    PROVE  \E k \in {1, 2} : u = Kid(t, k) \/ Under(Kid(t, k), u)
<1> DEFINE k == u[Len(t) + 1]
           c == Kid(t, k)
<1>1. k \in {1, 2} /\ Len(t) \in Nat /\ Len(u) \in Nat /\ Len(t) < Len(u)
  BY DEF Under, Paths
<1>2. c \in Paths /\ Len(c) = Len(t) + 1 /\ \A x \in 1 .. Len(c) : c[x] = u[x]
  <2> HIDE DEF k
  <2>1. /\ c \in Paths /\ Len(c) = Len(t) + 1 /\ c[Len(t) + 1] = k
        /\ \A x \in 1 .. Len(t) : c[x] = t[x]
    BY <1>1 DEF Paths, Kid
  <2>2. \A x \in 1 .. Len(c) : x = Len(t) + 1 \/ x \in 1 .. Len(t)
    BY <1>1, <2>1
  <2> HIDE DEF c
  <2> QED BY <2>1, <2>2 DEF Under, k
<1> HIDE DEF c, k
<1>3. CASE Len(c) = Len(u)
  <2>1. c = u
    BY <1>2, <1>3, SeqEqual DEF Paths
  <2> QED BY <1>1, <2>1 DEF c
<1>4. CASE Len(c) < Len(u)
  <2>1. Under(c, u)
    BY <1>2, <1>4 DEF Under
  <2> QED BY <1>1, <2>1 DEF c
<1> QED BY <1>1, <1>2, <1>3, <1>4

LEMMA UnderOrder ==
    /\ \A t \in Paths : ~ Under(t, t) /\ ~ Under(t, main)
    /\ \A t, u \in Paths : Under(t, u) => ~ Under(u, t)
    /\ \A t, u, v \in Paths : Under(t, u) /\ Under(u, v) => Under(t, v)
    /\ \A t \in Paths : t # main => Under(main, t)
  BY DEF Under, Paths, main

(* Neither of two parts is under the other.                                *)
LEMMA KidsApart ==
    ASSUME NEW t \in Paths, NEW k \in {1, 2}, NEW l \in {1, 2}
    PROVE  ~ Under(Kid(t, k), Kid(t, l))
<1>1. ~ Under(Kid(t, k), t) /\ Kid(t, k) # t
  BY KidPath, UnderKid, UnderOrder
<1> QED BY <1>1, KidPath, UnderKid

LEMMA KidAbove ==
    ASSUME NEW t \in Paths, NEW u \in Paths, NEW k \in {1, 2}, Under(Kid(t, k), u)
    PROVE  Under(t, u)
<1>1. Under(t, Kid(t, k)) /\ Kid(t, k) \in Paths
  BY UnderKid, KidPath
<1> QED BY <1>1, UnderOrder
-----------------------------------------------------------------------------
Kids(t) == {k \in {1, 2} : Kid(t, k) \in DOMAIN task}

Labels == {"start", "sort", "partition", "go", "wait", "merge", "copy", "done"}
Calls == [pc : Labels, low : Nat, high : Nat, wg : Int, i : Nat, j : Nat,
          cut : Nat \X Nat, out : Seq(Int), before : Seq(Int)]

TypeOK ==
    /\ program \in {"selection", "merge", "quick", "threads"}
    /\ \E n \in Nat : arr \in [0 .. n - 1 -> Int]
    /\ DOMAIN task \subseteq Paths /\ main \in DOMAIN task
    /\ task \in [DOMAIN task -> Calls]

(* Where the indices of a call are.                                        *)
Cut(t) ==
    /\ task[t].low <= task[t].cut[1] /\ task[t].cut[2] <= task[t].high
    /\ task[t].cut[2] = IF program = "quick" THEN task[t].cut[1] + 1 ELSE task[t].cut[1]

Indices(t) ==
    /\ task[t].low <= task[t].high /\ Slice(t) \subseteq DOMAIN arr
    /\ Len(task[t].before) = Size(t)
    /\ task[t].pc = "start" => task[t].i = task[t].low /\ task[t].j = task[t].low
    /\ task[t].pc \in {"start", "sort", "partition", "go", "wait"} => task[t].out = <<>>
    /\ task[t].pc = "sort" => task[t].low <= task[t].i /\ task[t].i <= task[t].high
    /\ task[t].pc = "partition" =>
           /\ task[t].low <= task[t].j /\ task[t].j <= task[t].i
           /\ task[t].j < task[t].high /\ task[t].i <= task[t].high
    /\ task[t].pc \in {"go", "wait", "merge", "copy"} => Cut(t)
    /\ task[t].pc = "merge" =>
           /\ task[t].low <= task[t].i /\ task[t].i <= task[t].cut[1]
           /\ task[t].cut[1] <= task[t].j /\ task[t].j <= task[t].high
           /\ Len(task[t].out) = (task[t].i - task[t].low) + (task[t].j - task[t].cut[1])
    /\ task[t].pc = "copy" =>
           /\ task[t].low <= task[t].i /\ task[t].i <= task[t].high
           /\ Len(task[t].out) = Size(t)

(* Which labels the programs have.                                         *)
Places(t) ==
    /\ program = "selection" => task[t].pc \in {"start", "sort", "done"}
    /\ program = "quick" => task[t].pc \notin {"merge", "copy"}
    /\ program = "merge" => task[t].pc # "partition"
    /\ program = "threads" => task[t].pc \notin {"sort", "partition", "copy"}
    /\ program = "threads" /\ t # main => task[t].pc \in {"start", "done"}

(* The calls that a call has started.                                      *)
Started(t) ==
    /\ task[t].pc \in {"start", "sort", "partition"} => Kids(t) = {}
    /\ task[t].pc = "go" => Kids(t) \subseteq {1}
    /\ task[t].pc \in {"wait", "merge", "copy"} => Kids(t) = {1, 2}
    /\ program = "threads" /\ t # main => Kids(t) = {}

(* Their slices.                                                           *)
PartsOf(t) ==
    \A k \in Kids(t) :
        /\ Cut(t)
        /\ task[Kid(t, k)].low = IF k = 1 THEN task[t].low ELSE task[t].cut[2]
        /\ task[Kid(t, k)].high = IF k = 1 THEN task[t].cut[1] ELSE task[t].high

(* The WaitGroup counts the calls that are not through, or not started yet.*)
Pending(t) == {k \in {1, 2} : k \in Kids(t) => task[Kid(t, k)].pc # "done"}
Awaited(t) ==
    task[t].pc \in {"go", "wait"} =>
        task[t].wg = (IF 1 \in Pending(t) THEN 1 ELSE 0) + (IF 2 \in Pending(t) THEN 1 ELSE 0)

(* The tree: who started a call is there, and waits for it; the slices of  *)
(* two calls are disjoint unless one is under the other.                   *)
Tree ==
    /\ \A u \in DOMAIN task, t \in Paths : Under(t, u) => t \in DOMAIN task
    /\ \A t, u \in DOMAIN task : Under(t, u) =>
           /\ task[u].pc # "done" => task[t].pc \in {"go", "wait"}
           /\ task[t].low <= task[u].low /\ task[u].high <= task[t].high
    /\ \A t, u \in DOMAIN task : t # u /\ ~Under(t, u) /\ ~Under(u, t) =>
           task[t].high <= task[u].low \/ task[u].high <= task[t].low

TInv ==
    /\ TypeOK /\ Tree
    /\ \A t \in DOMAIN task :
           Indices(t) /\ Places(t) /\ Started(t) /\ PartsOf(t) /\ Awaited(t)
-----------------------------------------------------------------------------
(* What a step of the call u leaves alone.                                 *)
Moves(u) ==
    /\ u \in DOMAIN task /\ task[u].pc # "done"
    /\ program' = program /\ arr' \in [DOMAIN arr -> Int]
    /\ \A x \in DOMAIN arr : arr'[x] # arr[x] =>
           x \in Slice(u) /\ task[u].pc \in {"start", "sort", "partition", "copy"}
    /\ DOMAIN task \subseteq DOMAIN task' /\ task' \in [DOMAIN task' -> Calls]
    /\ \A t \in DOMAIN task : /\ task'[t].low = task[t].low /\ task'[t].high = task[t].high
                              /\ task'[t].before = task[t].before
    /\ \A t \in DOMAIN task \ {u} :
           /\ task'[t].pc = task[t].pc /\ task'[t].i = task[t].i /\ task'[t].j = task[t].j
           /\ task'[t].cut = task[t].cut /\ task'[t].out = task[t].out
    /\ Kids(u) # {} => task'[u].cut = task[u].cut
    /\ task[u].pc = "copy" => task'[u].pc \in {"copy", "done"}
    /\ task'[u].pc \in {"go", "wait"} =>
           task[u].pc \in {"start", "partition", "go", "wait"}

(* It starts no call; if it returns its caller is told.                    *)
Told(t, u) == task'[u].pc = "done" /\ u # main /\ t = Front(u)
Tells(u) ==
    /\ DOMAIN task' = DOMAIN task
    /\ \A t \in DOMAIN task \ {u} :
           task'[t].wg = IF Told(t, u) THEN task[t].wg - 1 ELSE task[t].wg

(* Every call under u is through.                                          *)
Over(u) == \A w \in DOMAIN task : Under(u, w) => task[w].pc = "done"

(* The indices of a call and the elements of its slice are numbers.        *)
LEMMA Span ==
    ASSUME TInv, NEW u \in DOMAIN task
    PROVE  /\ task[u].low \in Nat /\ task[u].high \in Nat /\ task[u].low <= task[u].high
           /\ Slice(u) = task[u].low .. task[u].high - 1 /\ Slice(u) \subseteq DOMAIN arr
           /\ Size(u) = task[u].high - task[u].low /\ Size(u) \in Nat
           /\ Len(task[u].before) = Size(u) /\ task[u].before \in Seq(Int)
           /\ task[u].i \in Nat /\ task[u].j \in Nat /\ task[u].cut \in Nat \X Nat
           /\ task[u].out \in Seq(Int)
           /\ \A x \in Slice(u) : arr[x] \in Int
<1>1. task[u] \in Calls /\ Indices(u) /\ arr \in [DOMAIN arr -> Int]
  BY DEF TInv, TypeOK
<1>2. /\ task[u].low \in Nat /\ task[u].high \in Nat /\ task[u].i \in Nat /\ task[u].j \in Nat
      /\ task[u].cut \in Nat \X Nat /\ task[u].out \in Seq(Int) /\ task[u].before \in Seq(Int)
  BY <1>1 DEF Calls
<1>3. /\ task[u].low <= task[u].high /\ Slice(u) \subseteq DOMAIN arr
      /\ Len(task[u].before) = Size(u)
  BY <1>1 DEF Indices
<1>4. Slice(u) = task[u].low .. task[u].high - 1 /\ Size(u) = task[u].high - task[u].low
  BY DEF Slice, Size
<1>5. Size(u) \in Nat /\ \A x \in Slice(u) : arr[x] \in Int
  BY <1>1, <1>2, <1>3, <1>4
<1> QED BY <1>2, <1>3, <1>4, <1>5

(* The parts of a call are there, and under it.                            *)
LEMMA PartsThere ==
    ASSUME TInv, NEW t \in DOMAIN task, NEW k \in Kids(t)
    PROVE  /\ t \in Paths /\ k \in {1, 2} /\ Kid(t, k) \in DOMAIN task /\ Kid(t, k) # t
           /\ Under(t, Kid(t, k)) /\ Front(Kid(t, k)) = t /\ Kid(t, k) # main
<1>1. t \in Paths /\ k \in {1, 2} /\ Kid(t, k) \in DOMAIN task
  BY DEF TInv, TypeOK, Kids
<1> QED BY <1>1, KidPath, UnderKid

(* What is under a call is one of its parts or under one.                  *)
LEMMA UnderPart ==
    ASSUME TInv, NEW t \in DOMAIN task, NEW w \in DOMAIN task, Under(t, w)
    PROVE  \E k \in Kids(t) : w = Kid(t, k) \/ Under(Kid(t, k), w)
<1>1. t \in Paths /\ w \in Paths
  BY DEF TInv, TypeOK
<1>2. PICK k \in {1, 2} : w = Kid(t, k) \/ Under(Kid(t, k), w)
  BY <1>1, UnderFirst
<1>3. Kid(t, k) \in DOMAIN task
  BY <1>1, <1>2, KidPath DEF TInv, Tree
<1> QED BY <1>2, <1>3 DEF Kids

(* A call that has not divided its slice, or has joined its parts.         *)
LEMMA OverUnlessGo ==
    ASSUME TInv, NEW u \in DOMAIN task, task[u].pc \notin {"go", "wait"}
    PROVE  Over(u)
  BY DEF TInv, Tree, Over

LEMMA OverWhenJoined ==
    ASSUME TInv, NEW u \in DOMAIN task, task[u].pc = "wait", Joined(u)
    PROVE  Over(u) /\ \A k \in {1, 2} : k \in Kids(u) /\ task[Kid(u, k)].pc = "done"
<1>1. Kids(u) = {1, 2} /\ Awaited(u)
  BY DEF TInv, Started
<1>2. Pending(u) = {}
  BY <1>1 DEF Awaited, Joined, Pending
<1>3. \A k \in {1, 2} : k \in Kids(u) /\ task[Kid(u, k)].pc = "done"
  BY <1>1, <1>2 DEF Pending
<1>4. ASSUME NEW w \in DOMAIN task, Under(u, w) PROVE task[w].pc = "done"
  <2>1. PICK k \in Kids(u) : w = Kid(u, k) \/ Under(Kid(u, k), w)
    BY <1>4, UnderPart
  <2>2. task[Kid(u, k)].pc = "done" /\ Kid(u, k) \in DOMAIN task
    BY <1>1, <1>3, <2>1, PartsThere
  <2> QED BY <2>1, <2>2 DEF TInv, Tree
<1> QED BY <1>3, <1>4 DEF Over

(* An element of two slices: one call is under the other.                  *)
LEMMA SharedSlice ==
    ASSUME TInv, NEW t \in DOMAIN task, NEW u \in DOMAIN task, t # u,
           NEW x \in Slice(t), x \in Slice(u)
    PROVE  Under(t, u) \/ Under(u, t)
<1>1. task[t] \in Calls /\ task[u] \in Calls
  BY DEF TInv, TypeOK
<1>2. /\ task[t].low \in Nat /\ task[t].high \in Nat
      /\ task[u].low \in Nat /\ task[u].high \in Nat
  BY <1>1 DEF Calls
<1>3. ~ (task[t].high <= task[u].low \/ task[u].high <= task[t].low)
  BY <1>2 DEF Slice
<1> QED BY <1>3 DEF TInv, Tree
-----------------------------------------------------------------------------
(* The tree after a step that starts no call.                              *)
LEMMA SameTree ==
    ASSUME TInv, NEW u, Moves(u), Tells(u), task'[u].pc \in {"go", "wait"} \/ Over(u)
    PROVE  Tree'
<1>1. /\ u \in DOMAIN task /\ DOMAIN task' = DOMAIN task /\ task[u].pc # "done"
      /\ \A t \in DOMAIN task : task'[t].low = task[t].low /\ task'[t].high = task[t].high
      /\ \A t \in DOMAIN task \ {u} : task'[t].pc = task[t].pc
      /\ DOMAIN task \subseteq Paths
  BY DEF Moves, Tells, TInv, TypeOK
<1>2. \A w \in DOMAIN task', t \in Paths : Under(t, w) => t \in DOMAIN task'
  BY <1>1 DEF TInv, Tree
<1>3. ASSUME NEW t \in DOMAIN task', NEW w \in DOMAIN task', Under(t, w)
      PROVE  /\ task'[w].pc # "done" => task'[t].pc \in {"go", "wait"}
             /\ task'[t].low <= task'[w].low /\ task'[w].high <= task'[t].high
  <2>1. /\ task[w].pc # "done" => task[t].pc \in {"go", "wait"}
        /\ task[t].low <= task[w].low /\ task[w].high <= task[t].high
    BY <1>1, <1>3 DEF TInv, Tree
  <2>2. task'[w].pc # "done" => task[w].pc # "done"
    BY <1>1
  <2>3. t = u /\ task'[w].pc # "done" => task'[u].pc \in {"go", "wait"}
    <3>1. t = u => w # u
      BY <1>1, <1>3, UnderOrder
    <3> QED BY <1>1, <1>3, <3>1 DEF Over
  <2> QED BY <1>1, <2>1, <2>2, <2>3
<1>4. \A t, w \in DOMAIN task' : t # w /\ ~Under(t, w) /\ ~Under(w, t) =>
           task'[t].high <= task'[w].low \/ task'[w].high <= task'[t].low
  BY <1>1 DEF TInv, Tree
<1> QED BY <1>2, <1>3, <1>4 DEF Tree

(* What the other calls have to be stays true of them.                     *)
LEMMA OthersKeep ==
    ASSUME TInv, NEW u, Moves(u), NEW t \in DOMAIN task, t # u
    PROVE  Indices(t)' /\ Places(t)'
<1> DEFINE a == task[t]
           b == task'[t]
<1>1. /\ b.pc = a.pc /\ b.low = a.low /\ b.high = a.high /\ b.i = a.i /\ b.j = a.j
      /\ b.cut = a.cut /\ b.out = a.out /\ b.before = a.before
      /\ program' = program /\ DOMAIN arr' = DOMAIN arr
  BY DEF Moves
<1>2. Slice(t)' = Slice(t) /\ Size(t)' = Size(t) /\ Cut(t)' = Cut(t)
  BY <1>1 DEF Slice, Size, Cut
<1>3. Indices(t) /\ Places(t)
  BY DEF TInv
<1>4. Indices(t)'
  BY <1>1, <1>2, <1>3 DEF Indices
<1>5. Places(t)'
  BY <1>1, <1>3 DEF Places
<1> QED BY <1>4, <1>5

LEMMA PartsKeep ==
    ASSUME TInv, NEW u, Moves(u), NEW t \in DOMAIN task, Kids(t)' = Kids(t)
    PROVE  PartsOf(t)' /\ (t # u => Started(t)')
<1>1. /\ program' = program
      /\ \A v \in DOMAIN task : task'[v].low = task[v].low /\ task'[v].high = task[v].high
      /\ t # u => task'[t].pc = task[t].pc
      /\ Kids(t) # {} => task'[t].cut = task[t].cut
  BY DEF Moves
<1>2. \A k \in Kids(t) : Kid(t, k) \in DOMAIN task
  BY DEF Kids
<1>3. PartsOf(t) /\ Started(t)
  BY DEF TInv
<1>4. Kids(t) # {} => Cut(t)' = Cut(t)
  BY <1>1 DEF Cut
<1>5. PartsOf(t)'
  BY <1>1, <1>2, <1>3, <1>4 DEF PartsOf
<1>6. t # u => Started(t)'
  BY <1>1, <1>3 DEF Started
<1> QED BY <1>5, <1>6

(* The WaitGroup of another call.                                          *)
LEMMA CountKept ==
    ASSUME TInv, NEW u, Moves(u), Tells(u), NEW t \in DOMAIN task, t # u
    PROVE  Awaited(t)'
<1>1. /\ u \in DOMAIN task /\ DOMAIN task' = DOMAIN task /\ task[u].pc # "done"
      /\ \A v \in DOMAIN task \ {u} : task'[v].pc = task[v].pc
      /\ DOMAIN task \subseteq Paths
      /\ task'[t].wg = IF Told(t, u) THEN task[t].wg - 1 ELSE task[t].wg
      /\ task'[t].pc = task[t].pc
  BY DEF Moves, Tells, TInv, TypeOK
<1>2. Kids(t)' = Kids(t)
  BY <1>1 DEF Kids
<1>3. Awaited(t) /\ task[t].wg \in Int
  BY DEF TInv, TypeOK, Calls
<1>4. CASE Told(t, u)
  <2>1. PICK k \in {1, 2} : u = Kid(t, k)
    BY <1>1, <1>4, EveryKid DEF Told
  <2>2. k \in Pending(t) /\ Pending(t)' = Pending(t) \ {k}
    <3>1. k \in Pending(t)
      BY <1>1, <2>1 DEF Pending
    <3>2. k \notin Pending(t)'
      BY <1>1, <1>2, <1>4, <2>1 DEF Pending, Told, Kids
    <3>3. \A l \in {1, 2} : l # k => Kid(t, l) # u
      BY <1>1, <2>1, KidInjective
    <3>4. \A l \in {1, 2} : l # k => (l \in Pending(t)' <=> l \in Pending(t))
      BY <1>1, <1>2, <3>3 DEF Pending, Kids
    <3>5. Pending(t) \subseteq {1, 2} /\ Pending(t)' \subseteq {1, 2}
      BY DEF Pending
    <3> QED BY <3>1, <3>2, <3>4, <3>5
  <2>3. k = 1 \/ k = 2
    OBVIOUS
  <2> QED BY <1>1, <1>3, <1>4, <2>2, <2>3 DEF Awaited
<1>5. CASE ~ Told(t, u)
  <2>1. Pending(t)' = Pending(t)
    <3>1. ASSUME NEW k \in Kids(t) PROVE task'[Kid(t, k)].pc = "done" <=> task[Kid(t, k)].pc = "done"
      <4>1. Kid(t, k) \in DOMAIN task /\ Front(Kid(t, k)) = t /\ Kid(t, k) # main
        BY PartsThere
      <4> QED BY <1>1, <1>5, <4>1 DEF Told
    <3> QED BY <1>2, <3>1 DEF Pending
  <2> QED BY <1>1, <1>3, <1>5, <2>1 DEF Awaited
<1> QED BY <1>4, <1>5

(* All of it, when u has what it must have.                                *)
LEMMA SameCalls ==
    ASSUME TInv, NEW u, Moves(u), Tells(u), task'[u].pc \in {"go", "wait"} \/ Over(u),
           Indices(u)', Places(u)', Started(u)', Awaited(u)'
    PROVE  TInv'
<1>1. /\ u \in DOMAIN task /\ DOMAIN task' = DOMAIN task /\ program' = program
      /\ arr' \in [DOMAIN arr -> Int] /\ task' \in [DOMAIN task' -> Calls]
  BY DEF Moves, Tells
<1>2. TypeOK'
  <2>1. PICK n \in Nat : arr \in [0 .. n - 1 -> Int]
    BY DEF TInv, TypeOK
  <2>2. arr' \in [0 .. n - 1 -> Int]
    BY <1>1, <2>1
  <2> QED BY <1>1, <2>2 DEF TInv, TypeOK
<1>3. Tree'
  BY SameTree
<1>4. ASSUME NEW t \in DOMAIN task'
      PROVE  Indices(t)' /\ Places(t)' /\ Started(t)' /\ PartsOf(t)' /\ Awaited(t)'
  <2>1. t \in DOMAIN task /\ Kids(t)' = Kids(t)
    BY <1>1 DEF Kids
  <2>2. PartsOf(t)' /\ (t # u => Started(t)')
    BY <2>1, PartsKeep
  <2>3. CASE t = u
    BY <2>2, <2>3
  <2>4. CASE t # u
    BY <2>1, <2>2, <2>4, OthersKeep, CountKept
  <2> QED BY <2>3, <2>4
<1> QED BY <1>2, <1>3, <1>4 DEF TInv
-----------------------------------------------------------------------------
(* The array changes, if at all, in the slice of u.                        *)
Rearranges(u) ==
    /\ program' = program /\ arr' \in [DOMAIN arr -> Int]
    /\ \A x \in DOMAIN arr : arr'[x] # arr[x] =>
           x \in Slice(u) /\ task[u].pc \in {"start", "sort", "partition", "copy"}

(* r is the record of u after a step in which it does not return.          *)
Goes(u, r) ==
    /\ r \in Calls /\ r.pc # "done" /\ task' = [task EXCEPT ![u] = r]
    /\ r.low = task[u].low /\ r.high = task[u].high /\ r.before = task[u].before
    /\ Kids(u) # {} => r.cut = task[u].cut
    /\ task[u].pc = "copy" => r.pc = "copy"
    /\ r.pc \in {"go", "wait"} => task[u].pc \in {"start", "partition", "go", "wait"}

LEMMA GoesMoves ==
    ASSUME TInv, NEW u \in DOMAIN task, NEW r, Goes(u, r), Rearranges(u), task[u].pc # "done"
    PROVE  Moves(u) /\ Tells(u) /\ task'[u] = r
<1>1. task \in [DOMAIN task -> Calls]
  BY DEF TInv, TypeOK
<1>2. /\ r \in Calls /\ r.pc # "done" /\ task' = [task EXCEPT ![u] = r]
      /\ r.low = task[u].low /\ r.high = task[u].high /\ r.before = task[u].before
      /\ Kids(u) # {} => r.cut = task[u].cut
      /\ task[u].pc = "copy" => r.pc = "copy"
      /\ r.pc \in {"go", "wait"} => task[u].pc \in {"start", "partition", "go", "wait"}
  BY DEF Goes
<1>3. /\ DOMAIN task' = DOMAIN task /\ task' \in [DOMAIN task' -> Calls] /\ task'[u] = r
      /\ \A t \in DOMAIN task \ {u} : task'[t] = task[t]
  BY <1>1, <1>2
<1>4. Moves(u)
  BY <1>1, <1>2, <1>3 DEF Moves, Rearranges
<1>5. Tells(u)
  BY <1>2, <1>3 DEF Tells, Told
<1> QED BY <1>3, <1>4, <1>5

LEMMA DoneMoves ==
    ASSUME TInv, NEW u \in DOMAIN task, task' = Done(u), Rearranges(u), task[u].pc # "done"
    PROVE  Moves(u) /\ Tells(u) /\ task'[u] = [task[u] EXCEPT !.pc = "done"]
<1>1. task \in [DOMAIN task -> Calls] /\ DOMAIN task \subseteq Paths
  BY DEF TInv, TypeOK
<1>2. DOMAIN task' = DOMAIN task /\ task'[u] = [task[u] EXCEPT !.pc = "done"]
  BY DEF Done
<1>3. ASSUME NEW t \in DOMAIN task \ {u}
      PROVE  task'[t] = IF u # main /\ t = Front(u)
                        THEN [task[t] EXCEPT !.wg = @ - 1] ELSE task[t]
  BY DEF Done
<1>4. /\ task'[u] \in Calls /\ task'[u].pc = "done"
      /\ task'[u].low = task[u].low /\ task'[u].high = task[u].high
      /\ task'[u].before = task[u].before /\ task'[u].cut = task[u].cut
  <2>1. task[u] \in Calls
    BY <1>1
  <2> QED BY <1>2, <2>1 DEF Calls, Labels
<1>5. ASSUME NEW t \in DOMAIN task \ {u}
      PROVE  /\ task'[t] \in Calls
             /\ task'[t].wg = IF Told(t, u) THEN task[t].wg - 1 ELSE task[t].wg
             /\ task'[t].pc = task[t].pc /\ task'[t].i = task[t].i /\ task'[t].j = task[t].j
             /\ task'[t].cut = task[t].cut /\ task'[t].out = task[t].out
             /\ task'[t].low = task[t].low /\ task'[t].high = task[t].high
             /\ task'[t].before = task[t].before
  <2>1. task[t] \in Calls
    BY <1>1
  <2>2. CASE u # main /\ t = Front(u)
    <3>1. task'[t] = [task[t] EXCEPT !.wg = @ - 1] /\ Told(t, u)
      BY <1>3, <1>4, <2>2 DEF Told
    <3> DEFINE a == task[t]
               w == a.wg - 1
    <3>2. a \in Calls /\ w \in Int /\ task'[t] = [a EXCEPT !.wg = w]
      BY <2>1, <3>1 DEF Calls
    <3> HIDE DEF a, w
    <3>3. [a EXCEPT !.wg = w] \in Calls
      BY <3>2 DEF Calls
    <3>4. /\ [a EXCEPT !.wg = w].wg = w
          /\ [a EXCEPT !.wg = w].pc = a.pc /\ [a EXCEPT !.wg = w].i = a.i
          /\ [a EXCEPT !.wg = w].j = a.j /\ [a EXCEPT !.wg = w].cut = a.cut
          /\ [a EXCEPT !.wg = w].out = a.out /\ [a EXCEPT !.wg = w].low = a.low
          /\ [a EXCEPT !.wg = w].high = a.high /\ [a EXCEPT !.wg = w].before = a.before
      BY <3>2 DEF Calls
    <3> QED BY <3>1, <3>2, <3>3, <3>4 DEF a, w
  <2>3. CASE ~(u # main /\ t = Front(u))
    BY <1>3, <2>1, <2>3 DEF Told
  <2> QED BY <2>2, <2>3
<1>6. task' \in [DOMAIN task' -> Calls]
  <2>1. \A t \in DOMAIN task' : task'[t] \in Calls
    BY <1>2, <1>4, <1>5
  <2>2. task' = [t \in DOMAIN task' |-> task'[t]]
    BY DEF Done
  <2> QED BY <2>1, <2>2
<1>7. Moves(u)
  BY <1>2, <1>4, <1>5, <1>6 DEF Moves, Rearranges
<1>8. Tells(u)
  BY <1>2, <1>5 DEF Tells
<1> QED BY <1>2, <1>7, <1>8

(* A call that returns when all that is under it has.                      *)
LEMMA DoneTInv ==
    ASSUME TInv, NEW u \in DOMAIN task, task' = Done(u), Rearranges(u), task[u].pc # "done",
           Over(u)
    PROVE  TInv'
<1>1. Moves(u) /\ Tells(u) /\ task'[u] = [task[u] EXCEPT !.pc = "done"]
  BY DoneMoves
<1>2. /\ task[u] \in Calls /\ Indices(u) /\ Started(u)
  BY DEF TInv, TypeOK
<1>3. /\ task'[u].pc = "done" /\ task'[u].low = task[u].low /\ task'[u].high = task[u].high
      /\ task'[u].before = task[u].before
  BY <1>1, <1>2 DEF Calls
<1>4. DOMAIN arr' = DOMAIN arr /\ program' = program /\ DOMAIN task' = DOMAIN task
  BY <1>1 DEF Moves, Tells
<1>5. Indices(u)'
  BY <1>2, <1>3, <1>4 DEF Indices, Slice, Size
<1>6. Places(u)'
  BY <1>3 DEF Places
<1>7. Started(u)'
  BY <1>2, <1>3, <1>4 DEF Started, Kids
<1>8. Awaited(u)'
  BY <1>3 DEF Awaited
<1> QED BY <1>1, <1>5, <1>6, <1>7, <1>8, SameCalls
-----------------------------------------------------------------------------
(* The first of the least elements from a to b: there is one.              *)
LEMMA LeastPosition ==
    ASSUME NEW a \in Nat, NEW b \in Nat, a <= b, NEW f, \A x \in a .. b : f[x] \in Int
    PROVE  \E p \in a .. b : \A q \in a .. b : f[p] < f[q] \/ (f[p] = f[q] /\ p <= q)
<1> DEFINE First(p, n) == \A q \in a .. a + n : f[p] < f[q] \/ (f[p] = f[q] /\ p <= q)
           S == {n \in 0 .. b - a : \E p \in a .. a + n : First(p, n)}
<1>1. 0 \in S
  <2>1. a \in a .. a + 0 /\ \A q \in a .. a + 0 : q = a
    OBVIOUS
  <2>2. First(a, 0) /\ 0 \in 0 .. b - a
    BY <2>1
  <2> QED BY <2>1, <2>2
<1>2. ASSUME NEW n \in 1 .. b - a, n - 1 \in S PROVE n \in S
  <2>1. PICK p \in a .. a + (n - 1) : First(p, n - 1)
    BY <1>2
  <2> DEFINE m == a + n
  <2>2. /\ m \in a .. b /\ p \in a .. m /\ p < m /\ n \in 0 .. b - a
        /\ \A q \in a .. m : q = m \/ q \in a .. a + (n - 1)
    OBVIOUS
  <2>3. CASE f[p] <= f[m]
    <3>1. ASSUME NEW q \in a .. m PROVE f[p] < f[q] \/ (f[p] = f[q] /\ p <= q)
      <4>1. f[p] \in Int /\ f[q] \in Int
        BY <2>2
      <4> QED BY <2>1, <2>2, <2>3, <4>1
    <3>2. First(p, n)
      BY <3>1
    <3> QED BY <2>2, <3>2
  <2>4. CASE f[m] < f[p]
    <3>1. ASSUME NEW q \in a .. m PROVE f[m] < f[q] \/ (f[m] = f[q] /\ m <= q)
      <4>1. f[p] \in Int /\ f[q] \in Int /\ f[m] \in Int
        BY <2>2
      <4>2. CASE q = m
        BY <4>1, <4>2
      <4>3. CASE q \in a .. a + (n - 1)
        <5>1. f[p] <= f[q]
          BY <2>1, <4>1, <4>3
        <5> QED BY <2>4, <4>1, <5>1
      <4> QED BY <2>2, <4>2, <4>3
    <3>2. First(m, n)
      BY <3>1
    <3> QED BY <2>2, <3>2
  <2>5. f[p] \in Int /\ f[m] \in Int
    BY <2>2
  <2> QED BY <2>3, <2>4, <2>5
<1>3. b - a \in Nat
  OBVIOUS
<1> DEFINE N == b - a
<1>4. \A n \in 0 .. N : n \in S
  <2>1. N \in Nat /\ 0 \in S /\ \A n \in 1 .. N : n - 1 \in S => n \in S
    BY <1>1, <1>2, <1>3
  <2> HIDE DEF S, N
  <2> QED BY <2>1, InductionTo
<1>5. N \in S
  <2>1. N \in 0 .. N
    BY <1>3
  <2> HIDE DEF S, N
  <2> QED BY <1>4, <2>1
<1>6. a + N = b
  OBVIOUS
<1> QED BY <1>5, <1>6

(* Two elements of its slice are swapped.                                  *)
LEMMA SwapMoves ==
    ASSUME TInv, NEW u \in DOMAIN task, NEW a \in Slice(u), NEW b \in Slice(u),
           arr' = Swapped(a, b), program' = program,
           task[u].pc \in {"start", "sort", "partition", "copy"}
    PROVE  /\ Rearranges(u) /\ a \in DOMAIN arr /\ b \in DOMAIN arr
           /\ \A x \in DOMAIN arr :
                  arr'[x] = IF x = a THEN arr[b] ELSE IF x = b THEN arr[a] ELSE arr[x]
<1>1. Slice(u) \subseteq DOMAIN arr /\ arr \in [DOMAIN arr -> Int]
  BY DEF TInv, TypeOK, Indices
<1>2. arr' = [arr EXCEPT ![a] = arr[b], ![b] = arr[a]]
  BY DEF Swapped
<1>3. \A x \in DOMAIN arr :
          arr'[x] = IF x = a THEN arr[b] ELSE IF x = b THEN arr[a] ELSE arr[x]
  BY <1>1, <1>2
<1>4. arr' \in [DOMAIN arr -> Int]
  BY <1>1, <1>2
<1>5. Rearranges(u)
  BY <1>3, <1>4 DEF Rearranges
<1> QED BY <1>1, <1>3, <1>5

LEMMA NoneMoved ==
    ASSUME TInv, arr' = arr, program' = program, NEW u
    PROVE  Rearranges(u)
  BY DEF TInv, TypeOK, Rearranges
-----------------------------------------------------------------------------
(* The actions, one by one.                                                *)
LEMMA SortShortTInv ==
    ASSUME TInv, NEW u \in DOMAIN task, SortShort(u)
    PROVE  /\ TInv' /\ Moves(u) /\ Tells(u) /\ arr' = arr
           /\ task'[u] = [task[u] EXCEPT !.pc = "sort"]
<1> DEFINE r == [task[u] EXCEPT !.pc = "sort"]
<1>1. /\ task[u] \in Calls /\ task[u].pc = "start" /\ Short(u)
      /\ task' = [task EXCEPT ![u] = r] /\ arr' = arr /\ program' = program
      /\ Indices(u) /\ Started(u) /\ Places(u)
  BY DEF SortShort, TInv, TypeOK
<1>2. /\ r \in Calls /\ r.pc = "sort" /\ r.low = task[u].low /\ r.high = task[u].high
      /\ r.before = task[u].before /\ r.cut = task[u].cut /\ r.i = task[u].i
      /\ r.j = task[u].j /\ r.out = task[u].out
  BY <1>1 DEF Calls, Labels
<1> HIDE DEF r
<1>3. Goes(u, r) /\ Rearranges(u)
  BY <1>1, <1>2, NoneMoved DEF Goes
<1>4. Moves(u) /\ Tells(u) /\ task'[u] = r
  BY <1>1, <1>3, GoesMoves
<1>5. DOMAIN task' = DOMAIN task
  BY <1>4 DEF Tells
<1>6. Indices(u)'
  BY <1>1, <1>2, <1>4 DEF Indices, Slice, Size, Calls
<1>7. Places(u)'
  BY <1>1, <1>2, <1>4 DEF Places, Short
<1>8. Started(u)' /\ Awaited(u)'
  BY <1>1, <1>2, <1>4, <1>5 DEF Started, Awaited, Kids
<1>9. Over(u)
  BY <1>1, OverUnlessGo
<1> QED BY <1>1, <1>4, <1>6, <1>7, <1>8, <1>9, SameCalls DEF r

(* What SelectMinimum does: it swaps i with a position of a least element. *)
Least(p, a, b) == p \in a .. b /\ \A q \in a .. b : arr[p] <= arr[q]

LEMMA SelectMinimumTInv ==
    ASSUME TInv, NEW u \in DOMAIN task, SelectMinimum(u)
    PROVE  /\ TInv' /\ Moves(u) /\ Tells(u)
           /\ \/ /\ task[u].i = task[u].high /\ arr' = arr
                 /\ task'[u] = [task[u] EXCEPT !.pc = "done"]
              \/ /\ task[u].i \in Slice(u)
                 /\ task'[u] = [task[u] EXCEPT !.i = task[u].i + 1]
                 /\ \E p \in Slice(u) :
                        /\ Least(p, task[u].i, task[u].high - 1)
                        /\ \A x \in DOMAIN arr :
                               arr'[x] = IF x = task[u].i THEN arr[p]
                                         ELSE IF x = p THEN arr[task[u].i] ELSE arr[x]
<1> DEFINE i == task[u].i
           j == i + 1
           high == task[u].high
           h == high - 1
           rest == i .. h
           Good(p) == \A q \in rest : arr[p] < arr[q] \/ (arr[p] = arr[q] /\ p <= q)
           min_pos == CHOOSE p \in rest : Good(p)
           r == [task[u] EXCEPT !.i = j]
<1>1. /\ task[u].pc = "sort" /\ program' = program
      /\ IF rest = {} THEN task' = Done(u) /\ arr' = arr
         ELSE arr' = Swapped(i, min_pos) /\ task' = [task EXCEPT ![u] = r]
  BY DEF SelectMinimum
<1>2. /\ task[u] \in Calls /\ Indices(u) /\ Started(u) /\ Places(u)
      /\ arr \in [DOMAIN arr -> Int]
  BY DEF TInv, TypeOK
<1>3. /\ i \in Nat /\ j \in Nat /\ high \in Nat /\ h \in Int /\ task[u].low \in Nat
      /\ task[u].low <= i /\ i <= high
      /\ Slice(u) \subseteq DOMAIN arr /\ rest \subseteq Slice(u)
  BY <1>1, <1>2 DEF Calls, Indices, Slice
<1>4. Over(u)
  BY <1>1, OverUnlessGo
<1>5. CASE rest = {}
  <2>1. task' = Done(u) /\ arr' = arr
    BY <1>1, <1>5
  <2>2. Rearranges(u)
    BY <1>1, <2>1, NoneMoved
  <2>3. TInv'
    BY <1>1, <1>4, <2>1, <2>2, DoneTInv
  <2>4. Moves(u) /\ Tells(u) /\ task'[u] = [task[u] EXCEPT !.pc = "done"]
    BY <1>1, <2>1, <2>2, DoneMoves
  <2>5. i = high
    BY <1>3, <1>5
  <2> QED BY <2>1, <2>3, <2>4, <2>5
<1>6. CASE rest # {}
  <2>1. arr' = Swapped(i, min_pos) /\ task' = [task EXCEPT ![u] = r]
    BY <1>1, <1>6
  <2>2. i <= h /\ h \in Nat
    BY <1>3, <1>6
  <2>3. \E p \in rest : Good(p)
    <3>1. \A x \in rest : arr[x] \in Int
      BY <1>2, <1>3
    <3> HIDE DEF i, h
    <3> QED BY <1>3, <2>2, <3>1, LeastPosition
  <2>4. min_pos \in rest /\ Good(min_pos)
    <3> HIDE DEF rest, Good
    <3> QED BY <2>3
  <2> HIDE DEF min_pos
  <2>5. i \in Slice(u) /\ min_pos \in Slice(u)
    BY <1>3, <2>2, <2>4
  <2>6. /\ Rearranges(u)
        /\ \A x \in DOMAIN arr :
               arr'[x] = IF x = i THEN arr[min_pos] ELSE IF x = min_pos THEN arr[i] ELSE arr[x]
    <3> HIDE DEF i
    <3> QED BY <1>1, <2>1, <2>5, SwapMoves
  <2>7. /\ r \in Calls /\ r.pc = "sort" /\ r.low = task[u].low /\ r.high = task[u].high
        /\ r.before = task[u].before /\ r.cut = task[u].cut /\ r.i = j /\ r.out = task[u].out
    <3> HIDE DEF j
    <3> QED BY <1>1, <1>2, <1>3 DEF Calls, Labels
  <2> HIDE DEF r
  <2>8. Goes(u, r)
    BY <1>1, <2>1, <2>7 DEF Goes
  <2>9. Moves(u) /\ Tells(u) /\ task'[u] = r
    BY <1>1, <2>6, <2>8, GoesMoves
  <2>10. DOMAIN task' = DOMAIN task /\ DOMAIN arr' = DOMAIN arr /\ program' = program
    BY <2>9 DEF Tells, Moves
  <2>11. Indices(u)'
    <3>1. Slice(u)' = Slice(u) /\ Size(u)' = Size(u)
      BY <2>7, <2>9 DEF Slice, Size
    <3>2. /\ task[u].low <= task[u].high /\ Slice(u) \subseteq DOMAIN arr
          /\ Len(task[u].before) = Size(u) /\ task[u].out = <<>>
      BY <1>1, <1>2 DEF Indices
    <3>3. r.low <= r.i /\ r.i <= r.high
      BY <1>3, <2>2, <2>7
    <3> QED BY <2>7, <2>9, <2>10, <3>1, <3>2, <3>3 DEF Indices
  <2>12. Places(u)'
    BY <1>1, <1>2, <2>7, <2>9, <2>10 DEF Places
  <2>13. Started(u)' /\ Awaited(u)'
    BY <1>1, <1>2, <2>7, <2>9, <2>10 DEF Started, Awaited, Kids
  <2>14. TInv'
    BY <1>4, <2>9, <2>11, <2>12, <2>13, SameCalls
  <2>15. Least(min_pos, i, h)
    BY <1>2, <1>3, <2>4 DEF Least
  <2> QED BY <2>5, <2>6, <2>9, <2>14, <2>15 DEF r
<1> QED BY <1>5, <1>6

LEMMA RunnerTInv ==
    ASSUME TInv, NEW u \in DOMAIN task, runner(u)
    PROVE  /\ TInv' /\ Moves(u) /\ Tells(u) /\ task[u].pc = "start"
           /\ task'[u] = [task[u] EXCEPT !.pc = "done"] /\ program = "threads" /\ u # main
           /\ \E order \in [Slice(u) -> Slice(u)] :
                  /\ \A p, q \in Slice(u) : p # q => order[p] # order[q]
                  /\ \A x \in Slice(u) : arr'[x] = arr[order[x]]
                  /\ \A p, q \in Slice(u) : p < q =>
                         \/ Overflows({arr[k] : k \in Slice(u)})
                         \/ cmp(arr'[p], arr'[q]) <= 0
<1>1. /\ program = "threads" /\ u # main /\ task[u].pc = "start"
      /\ task' = Done(u) /\ program' = program
  BY DEF runner
<1>2. Slice(u) \subseteq DOMAIN arr /\ arr \in [DOMAIN arr -> Int]
  BY DEF TInv, TypeOK, Indices
<1>3. PICK order \in [Slice(u) -> Slice(u)] :
          LET sorted == [k \in DOMAIN arr |-> arr[IF k \in Slice(u) THEN order[k] ELSE k]]
          IN /\ \A p, q \in Slice(u) : p # q => order[p] # order[q]
             /\ \A p, q \in Slice(u) : p < q =>
                    Overflows({arr[k] : k \in Slice(u)}) \/ cmp(sorted[p], sorted[q]) <= 0
             /\ arr' = sorted
  BY DEF runner
<1>4. /\ \A p, q \in Slice(u) : p # q => order[p] # order[q]
      /\ arr' = [k \in DOMAIN arr |-> arr[IF k \in Slice(u) THEN order[k] ELSE k]]
      /\ \A p, q \in Slice(u) : p < q =>
             Overflows({arr[k] : k \in Slice(u)}) \/ cmp(arr'[p], arr'[q]) <= 0
  BY <1>3
<1>5. \A x \in Slice(u) : arr'[x] = arr[order[x]]
  BY <1>2, <1>4
<1>6. Rearranges(u)
  <2>1. arr' \in [DOMAIN arr -> Int]
    BY <1>2, <1>4
  <2>2. \A x \in DOMAIN arr : arr'[x] # arr[x] => x \in Slice(u)
    BY <1>4
  <2> QED BY <1>1, <2>1, <2>2 DEF Rearranges
<1>7. Over(u)
  BY <1>1, OverUnlessGo
<1>8. TInv'
  BY <1>1, <1>6, <1>7, DoneTInv
<1>9. Moves(u) /\ Tells(u) /\ task'[u] = [task[u] EXCEPT !.pc = "done"]
  BY <1>1, <1>6, DoneMoves
<1> QED BY <1>1, <1>4, <1>5, <1>8, <1>9

(* The record of a call when its slice is divided at c.                    *)
AtCut(a, c, w) == [a EXCEPT !.cut = c, !.wg = w, !.pc = "go"]

LEMMA WithCut ==
    ASSUME NEW a \in Calls, NEW c \in Nat \X Nat, NEW w \in Int,
           NEW r, r = AtCut(a, c, w)
    PROVE  /\ r \in Calls /\ r.pc = "go" /\ r.low = a.low /\ r.high = a.high
           /\ r.before = a.before /\ r.out = a.out /\ r.wg = w /\ r.cut = c
<1> DEFINE b == [a EXCEPT !.cut = c]
           d == [b EXCEPT !.wg = w]
<1>1. /\ b \in Calls /\ b.low = a.low /\ b.high = a.high /\ b.before = a.before
      /\ b.out = a.out /\ b.cut = c
  BY DEF Calls
<1>2. /\ d \in Calls /\ d.low = a.low /\ d.high = a.high /\ d.before = a.before
      /\ d.out = a.out /\ d.cut = c /\ d.wg = w
  <2> HIDE DEF b
  <2> QED BY <1>1 DEF Calls
<1>3. r = [d EXCEPT !.pc = "go"]
  BY DEF Calls, AtCut
<1> HIDE DEF d
<1> QED BY <1>2, <1>3 DEF Calls, Labels

LEMMA HalveTInv ==
    ASSUME TInv, NEW u \in DOMAIN task, Halve(u)
    PROVE  /\ TInv' /\ Moves(u) /\ Tells(u) /\ arr' = arr /\ task[u].pc = "start"
           /\ program \in {"merge", "threads"} /\ task'[u].pc = "go" /\ Kids(u) = {}
<1> DEFINE middle == task[u].low + Size(u) \div 2
           c == <<middle, middle>>
           two == 2
           r == AtCut(task[u], c, two)
<1>1. /\ task[u].pc = "start" /\ program' = program /\ arr' = arr
      /\ program = "merge" \/ (program = "threads" /\ u = main)
      /\ task' = [task EXCEPT ![u] = r]
  BY DEF Halve, AtCut
<1>2. /\ task[u] \in Calls /\ Indices(u) /\ Started(u) /\ Places(u)
  BY DEF TInv, TypeOK
<1>3. /\ middle \in Nat /\ task[u].low <= middle /\ middle <= task[u].high
      /\ task[u].low \in Nat /\ task[u].high \in Nat
  <2> DEFINE a == task[u].low
             b == task[u].high
  <2>1. a \in Nat /\ b \in Nat /\ a <= b
    BY <1>2 DEF Calls, Indices
  <2> HIDE DEF a, b
  <2>2. (b - a) \div 2 \in Nat /\ (b - a) \div 2 <= b - a
    BY <2>1
  <2> QED BY <2>1, <2>2 DEF Size, a, b
<1> HIDE DEF middle
<1>4. /\ r \in Calls /\ r.pc = "go" /\ r.low = task[u].low /\ r.high = task[u].high
      /\ r.before = task[u].before /\ r.out = task[u].out /\ r.wg = 2
      /\ r.cut[1] = middle /\ r.cut[2] = middle
  <2>1. c \in Nat \X Nat /\ c[1] = middle /\ c[2] = middle
    BY <1>3
  <2>2. two \in Int /\ two = 2
    OBVIOUS
  <2> HIDE DEF c, two
  <2>3. /\ r \in Calls /\ r.pc = "go" /\ r.low = task[u].low /\ r.high = task[u].high
        /\ r.before = task[u].before /\ r.out = task[u].out /\ r.wg = two /\ r.cut = c
    BY <1>2, <2>1, <2>2, WithCut
  <2> QED BY <2>1, <2>2, <2>3
<1> HIDE DEF r
<1>5. Kids(u) = {}
  BY <1>1, <1>2 DEF Started
<1>6. Goes(u, r) /\ Rearranges(u)
  BY <1>1, <1>4, <1>5, NoneMoved DEF Goes
<1>7. Moves(u) /\ Tells(u) /\ task'[u] = r
  BY <1>1, <1>6, GoesMoves
<1>8. DOMAIN task' = DOMAIN task /\ Kids(u)' = {}
  BY <1>5, <1>7 DEF Tells, Kids
<1>9. Indices(u)'
  BY <1>1, <1>2, <1>3, <1>4, <1>7 DEF Indices, Slice, Size, Cut
<1>10. Places(u)' /\ Started(u)'
  BY <1>1, <1>2, <1>4, <1>7, <1>8 DEF Places, Started
<1>11. Awaited(u)'
  <2>1. Pending(u)' = {1, 2}
    BY <1>8 DEF Pending
  <2> QED BY <1>4, <1>7, <2>1 DEF Awaited
<1>12. TInv'
  BY <1>4, <1>7, <1>9, <1>10, <1>11, SameCalls
<1> QED BY <1>1, <1>4, <1>5, <1>7, <1>12

LEMMA ChoosePivotTInv ==
    ASSUME TInv, NEW u \in DOMAIN task, ChoosePivot(u)
    PROVE  /\ TInv' /\ Moves(u) /\ Tells(u)
           /\ task[u].pc = "start" /\ task'[u] = [task[u] EXCEPT !.pc = "partition"]
           /\ task[u].high - 1 \in Slice(u)
           /\ \E pivot \in Slice(u) : \A x \in DOMAIN arr :
                  arr'[x] = IF x = task[u].high - 1 THEN arr[pivot]
                            ELSE IF x = pivot THEN arr[task[u].high - 1] ELSE arr[x]
<1> DEFINE r == [task[u] EXCEPT !.pc = "partition"]
           hi == task[u].high - 1
<1>1. /\ task[u].pc = "start" /\ program' = program /\ program = "quick" /\ ~ Short(u)
      /\ task' = [task EXCEPT ![u] = r] /\ \E pivot \in Slice(u) : arr' = Swapped(hi, pivot)
  BY DEF ChoosePivot
<1>2. /\ task[u] \in Calls /\ Indices(u) /\ Started(u) /\ Places(u)
  BY DEF TInv, TypeOK
<1>3. PICK pivot \in Slice(u) : arr' = Swapped(hi, pivot)
  BY <1>1
<1>4. /\ hi \in Slice(u) /\ task[u].low < task[u].high
      /\ task[u].low \in Nat /\ task[u].high \in Nat
  BY <1>2, <1>3 DEF Calls, Slice
<1>5. /\ Rearranges(u)
      /\ \A x \in DOMAIN arr :
             arr'[x] = IF x = hi THEN arr[pivot] ELSE IF x = pivot THEN arr[hi] ELSE arr[x]
  <2> HIDE DEF hi
  <2> QED BY <1>1, <1>3, <1>4, SwapMoves
<1>6. /\ r \in Calls /\ r.pc = "partition" /\ r.low = task[u].low /\ r.high = task[u].high
      /\ r.before = task[u].before /\ r.out = task[u].out /\ r.cut = task[u].cut
      /\ r.i = task[u].i /\ r.j = task[u].j
  BY <1>2 DEF Calls, Labels
<1> HIDE DEF r
<1>7. Goes(u, r)
  BY <1>1, <1>6 DEF Goes
<1>8. Moves(u) /\ Tells(u) /\ task'[u] = r
  BY <1>1, <1>5, <1>7, GoesMoves
<1>9. DOMAIN task' = DOMAIN task /\ DOMAIN arr' = DOMAIN arr /\ Kids(u)' = Kids(u)
  BY <1>8 DEF Tells, Kids, Moves
<1>10. Indices(u)'
  BY <1>1, <1>2, <1>4, <1>6, <1>8, <1>9 DEF Indices, Slice, Size
<1>11. Places(u)' /\ Started(u)' /\ Awaited(u)'
  BY <1>1, <1>2, <1>6, <1>8, <1>9 DEF Places, Started, Awaited
<1>12. Over(u)
  BY <1>1, OverUnlessGo
<1>13. TInv'
  BY <1>8, <1>10, <1>11, <1>12, SameCalls
<1> QED BY <1>1, <1>4, <1>5, <1>8, <1>13 DEF r

LEMMA PartitionTInv ==
    ASSUME TInv, NEW u \in DOMAIN task, Partition(u)
    PROVE  /\ TInv' /\ Moves(u) /\ Tells(u) /\ task[u].pc = "partition" /\ Kids(u) = {}
           /\ program = "quick"
           /\ \/ LET i == task[u].i
                     lo == task[u].j
                     hi == task[u].high - 1
                 IN /\ i \in Slice(u) /\ lo \in Slice(u) /\ hi \in Slice(u)
                    /\ task'[u].pc = "partition" /\ task'[u].i = i + 1
                    /\ \/ /\ arr[i] < arr[hi] /\ task'[u].j = lo + 1
                          /\ \A x \in DOMAIN arr :
                                arr'[x] = IF x = lo THEN arr[i]
                                          ELSE IF x = i THEN arr[lo] ELSE arr[x]
                       \/ arr[i] >= arr[hi] /\ arr' = arr /\ task'[u].j = lo
              \/ LET lo == task[u].j
                     hi == task[u].high - 1
                 IN /\ task[u].i = task[u].high /\ lo \in Slice(u) /\ hi \in Slice(u)
                    /\ task'[u].pc = "go" /\ task'[u].cut = <<lo, lo + 1>>
                    /\ \A x \in DOMAIN arr :
                           arr'[x] = IF x = lo THEN arr[hi]
                                     ELSE IF x = hi THEN arr[lo] ELSE arr[x]
<1> DEFINE i == task[u].i
           lo == task[u].j
           hi == task[u].high - 1
           ii == i + 1
           ll == lo + 1
           smaller == arr[i] < arr[hi]
<1>1. /\ task[u].pc = "partition" /\ program' = program
      /\ IF i <= hi
          THEN /\ arr' = IF smaller THEN Swapped(lo, i) ELSE arr
               /\ task' = [task EXCEPT ![u].i = ii, ![u].j = IF smaller THEN ll ELSE lo]
          ELSE /\ arr' = Swapped(lo, hi)
               /\ task' = [task EXCEPT ![u].cut = <<lo, ll>>, ![u].wg = 2, ![u].pc = "go"]
  BY DEF Partition
<1>2. /\ task[u] \in Calls /\ Indices(u) /\ Started(u) /\ Places(u)
      /\ arr \in [DOMAIN arr -> Int]
  BY DEF TInv, TypeOK
<1>3. /\ i \in Nat /\ lo \in Nat /\ hi \in Int /\ task[u].high \in Nat /\ task[u].low \in Nat
      /\ task[u].low <= lo /\ lo <= i /\ lo <= hi /\ i <= task[u].high /\ hi < task[u].high
      /\ lo \in Slice(u) /\ hi \in Slice(u) /\ (i <= hi => i \in Slice(u))
      /\ Slice(u) \subseteq DOMAIN arr
      /\ ii \in Nat /\ ll \in Nat /\ ll <= task[u].high /\ ii = i + 1 /\ ll = lo + 1
      /\ task[u].high = hi + 1
  <2>1. /\ task[u].low \in Nat /\ task[u].high \in Nat /\ i \in Nat /\ lo \in Nat
        /\ Slice(u) = task[u].low .. task[u].high - 1 /\ Slice(u) \subseteq DOMAIN arr
    BY Span
  <2>2. /\ task[u].low <= lo /\ lo <= i /\ lo < task[u].high /\ i <= task[u].high
    BY <1>1, <1>2 DEF Indices
  <2> DEFINE low == task[u].low
             high == task[u].high
  <2> HIDE DEF i, lo, low, high
  <2> QED BY <2>1, <2>2 DEF low, high
<1>4. Over(u) /\ Kids(u) = {}
  BY <1>1, <1>2, OverUnlessGo DEF Started
<1>5. program = "quick"
  <2>1. program \in {"selection", "merge", "quick", "threads"}
    BY DEF TInv, TypeOK
  <2> QED BY <1>1, <1>2, <2>1 DEF Places
<1>6. CASE i <= hi
  <2> DEFINE l == IF smaller THEN ll ELSE lo
             r == [task[u] EXCEPT !.i = ii, !.j = l]
  <2>1. task' = [task EXCEPT ![u] = r] /\ arr' = IF smaller THEN Swapped(lo, i) ELSE arr
    BY <1>1, <1>6
  <2>2. smaller => lo < hi
    <3>1. arr[i] \in Int /\ arr[hi] \in Int
      BY <1>2, <1>3, <1>6
    <3>2. smaller => i # hi
      BY <3>1
    <3> QED BY <1>3, <1>6, <3>2
  <2>3. l \in Nat /\ task[u].low <= l /\ l <= ii /\ l < task[u].high /\ ii <= task[u].high
    <3> HIDE DEF i, lo, hi, ii, ll, smaller
    <3> QED BY <1>3, <1>6, <2>2
  <2>4. /\ r \in Calls /\ r.pc = "partition" /\ r.low = task[u].low /\ r.high = task[u].high
        /\ r.before = task[u].before /\ r.out = task[u].out /\ r.cut = task[u].cut
        /\ r.i = ii /\ r.j = l
    <3> HIDE DEF l, ii
    <3> QED BY <1>1, <1>2, <1>3, <2>3 DEF Calls, Labels
  <2> HIDE DEF r, l
  <2>5. Goes(u, r)
    BY <1>1, <2>1, <2>4 DEF Goes
  <2>6. /\ Rearranges(u)
        /\ \/ /\ smaller /\ l = ll
              /\ \A x \in DOMAIN arr :
                    arr'[x] = IF x = lo THEN arr[i] ELSE IF x = i THEN arr[lo] ELSE arr[x]
           \/ ~ smaller /\ arr' = arr /\ l = lo
    <3>1. CASE smaller
      <4>1. arr' = Swapped(lo, i)
        BY <2>1, <3>1
      <4>2. i \in Slice(u) /\ lo \in Slice(u)
        BY <1>3, <1>6
      <4>3. /\ Rearranges(u)
            /\ \A x \in DOMAIN arr :
                  arr'[x] = IF x = lo THEN arr[i] ELSE IF x = i THEN arr[lo] ELSE arr[x]
        <5> HIDE DEF i, lo
        <5> QED BY <1>1, <4>1, <4>2, SwapMoves
      <4> QED BY <3>1, <4>3 DEF l
    <3>2. CASE ~ smaller
      <4>1. arr' = arr
        BY <2>1, <3>2
      <4> QED BY <1>1, <3>2, <4>1, NoneMoved DEF l
    <3> QED BY <3>1, <3>2
  <2>7. Moves(u) /\ Tells(u) /\ task'[u] = r
    BY <1>1, <2>5, <2>6, GoesMoves
  <2>8. DOMAIN task' = DOMAIN task /\ DOMAIN arr' = DOMAIN arr /\ Kids(u)' = Kids(u)
    BY <2>7 DEF Tells, Kids, Moves
  <2>9. Indices(u)'
    <3> HIDE DEF ii, ll
    <3> QED BY <1>1, <1>2, <1>3, <2>3, <2>4, <2>7, <2>8 DEF Indices, Slice, Size
  <2>10. Places(u)' /\ Started(u)' /\ Awaited(u)'
    BY <1>1, <1>2, <2>4, <2>7, <2>8 DEF Places, Started, Awaited
  <2>11. TInv'
    BY <1>4, <2>7, <2>9, <2>10, SameCalls
  <2>12. ~ smaller => arr[i] >= arr[hi]
    <3>1. arr[i] \in Int /\ arr[hi] \in Int
      BY <1>2, <1>3, <1>6
    <3> QED BY <3>1
  <2>13. i \in Slice(u) /\ lo \in Slice(u) /\ hi \in Slice(u)
    BY <1>3, <1>6
  <2>14. task'[u].pc = "partition" /\ task'[u].i = i + 1 /\ task'[u].j = l
    BY <2>4, <2>7
  <2>15. \/ /\ arr[i] < arr[hi] /\ task'[u].j = lo + 1
            /\ \A x \in DOMAIN arr :
                  arr'[x] = IF x = lo THEN arr[i] ELSE IF x = i THEN arr[lo] ELSE arr[x]
         \/ arr[i] >= arr[hi] /\ arr' = arr /\ task'[u].j = lo
    BY <2>6, <2>12, <2>14
  <2> QED BY <1>1, <1>4, <1>5, <2>7, <2>11, <2>13, <2>14, <2>15
<1>7. CASE ~ (i <= hi)
  <2> DEFINE c == <<lo, ll>>
             two == 2
             r == AtCut(task[u], c, two)
  <2>1. task' = [task EXCEPT ![u] = r] /\ arr' = Swapped(lo, hi)
    BY <1>1, <1>7 DEF AtCut
  <2>2. i = task[u].high
    BY <1>3, <1>7
  <2>3. /\ r \in Calls /\ r.pc = "go" /\ r.low = task[u].low /\ r.high = task[u].high
        /\ r.before = task[u].before /\ r.out = task[u].out /\ r.wg = 2
        /\ r.cut = <<lo, ll>>
    <3>1. c \in Nat \X Nat
      BY <1>3
    <3>2. c = <<lo, ll>> /\ two \in Int /\ two = 2
      OBVIOUS
    <3> HIDE DEF c, two
    <3>3. /\ r \in Calls /\ r.pc = "go" /\ r.low = task[u].low /\ r.high = task[u].high
          /\ r.before = task[u].before /\ r.out = task[u].out /\ r.wg = two /\ r.cut = c
      <4>1. task[u] \in Calls /\ two \in Int
        BY <1>2, <3>2
      <4> QED BY <4>1, <3>1, WithCut
    <3> QED BY <3>2, <3>3
  <2> HIDE DEF r
  <2>4. /\ Rearranges(u)
        /\ \A x \in DOMAIN arr :
              arr'[x] = IF x = lo THEN arr[hi] ELSE IF x = hi THEN arr[lo] ELSE arr[x]
    <3> HIDE DEF lo, hi
    <3> QED BY <1>1, <1>3, <2>1, SwapMoves
  <2>5. Goes(u, r)
    BY <1>1, <1>4, <2>1, <2>3 DEF Goes
  <2>6. Moves(u) /\ Tells(u) /\ task'[u] = r
    BY <1>1, <2>4, <2>5, GoesMoves
  <2>7. /\ DOMAIN task' = DOMAIN task /\ DOMAIN arr' = DOMAIN arr /\ Kids(u)' = {}
        /\ program' = program
    BY <1>4, <2>6 DEF Tells, Kids, Moves
  <2>8. Indices(u)'
    <3>1. /\ r.cut[1] = lo /\ r.cut[2] = ll /\ task'[u].pc = "go" /\ task'[u].cut = r.cut
          /\ task'[u].low = task[u].low /\ task'[u].high = task[u].high
          /\ task'[u].out = <<>> /\ task'[u].before = task[u].before
      BY <1>1, <1>2, <2>3, <2>6 DEF Indices
    <3> HIDE DEF ll, lo
    <3>2. Cut(u)'
      BY <1>3, <1>5, <2>7, <3>1 DEF Cut
    <3> QED BY <1>2, <1>3, <2>7, <3>1, <3>2 DEF Indices, Slice, Size
  <2>9. Places(u)' /\ Started(u)'
    BY <1>1, <1>2, <1>5, <2>3, <2>6, <2>7 DEF Places, Started
  <2>10. Awaited(u)'
    <3>1. Pending(u)' = {1, 2}
      BY <2>7 DEF Pending
    <3> QED BY <2>3, <2>6, <3>1 DEF Awaited
  <2>11. TInv'
    BY <1>4, <2>6, <2>8, <2>9, <2>10, SameCalls
  <2>12. task'[u].pc = "go" /\ task'[u].cut = <<lo, lo + 1>>
    BY <2>3, <2>6
  <2> QED BY <1>1, <1>3, <1>4, <1>5, <2>2, <2>4, <2>6, <2>11, <2>12
<1> QED BY <1>6, <1>7
-----------------------------------------------------------------------------
(* A new call, for the slice from lo to hi - 1.                            *)
Fresh(c, lo, hi) ==
    /\ c \in Calls /\ c.pc = "start" /\ c.low = lo /\ c.high = hi
    /\ c.i = lo /\ c.j = lo /\ c.out = <<>> /\ Len(c.before) = hi - lo
    /\ \A x \in lo .. hi - 1 : c.before[x - lo + 1] = arr[x]

LEMMA NewCall ==
    ASSUME arr \in [DOMAIN arr -> Int],
           NEW lo \in Nat, NEW hi \in Nat, lo <= hi, lo .. hi - 1 \subseteq DOMAIN arr
    PROVE  Fresh(Call(lo, hi), lo, hi)
<1> DEFINE n == hi - lo
           before == [k \in 1 .. n |-> arr[lo + k - 1]]
           out == << >>
           zero == 0
           cut == <<lo, lo>>
<1>1. arr \in [DOMAIN arr -> Int] /\ n \in Nat
  OBVIOUS
<1>2. \A k \in 1 .. n : lo + k - 1 \in lo .. hi - 1
  OBVIOUS
<1>3. before \in [1 .. n -> Int]
  BY <1>1, <1>2
<1>4. before \in Seq(Int) /\ Len(before) = n
  <2> HIDE DEF n, before
  <2> QED BY <1>1, <1>3
<1>5. ASSUME NEW x \in lo .. hi - 1 PROVE before[x - lo + 1] = arr[x]
  <2>1. x - lo + 1 \in 1 .. n /\ lo + (x - lo + 1) - 1 = x
    OBVIOUS
  <2> QED BY <2>1
<1>6. out \in Seq(Int) /\ zero \in Int /\ cut \in Nat \X Nat
  OBVIOUS
<1>7. Call(lo, hi) = [pc |-> "start", low |-> lo, high |-> hi, wg |-> zero, i |-> lo,
                      j |-> lo, cut |-> cut, out |-> out, before |-> before]
  BY DEF Call
<1>8. out = <<>>
  OBVIOUS
<1> HIDE DEF before, out, zero, cut
<1> QED BY <1>4, <1>5, <1>6, <1>7, <1>8 DEF Fresh, Calls, Labels

(* The call u starts its part k.                                           *)
Starts(u, k) ==
    /\ task[u].pc = "go" /\ Cut(u)
    /\ k \in {1, 2} /\ k \notin Kids(u) /\ Kids(u) \subseteq {1} /\ (k = 2 <=> 1 \in Kids(u))
    /\ DOMAIN task' = DOMAIN task \cup {Kid(u, k)}
    /\ task'[Kid(u, k)] = Part(u, k)
    /\ task'[u] \in Calls /\ task'[u].pc = IF k = 2 THEN "wait" ELSE "go"
    /\ task'[u].low = task[u].low /\ task'[u].high = task[u].high
    /\ task'[u].before = task[u].before /\ task'[u].wg = task[u].wg
    /\ task'[u].i = task[u].i /\ task'[u].j = task[u].j
    /\ task'[u].cut = task[u].cut /\ task'[u].out = task[u].out
    /\ \A t \in DOMAIN task \ {u} : task'[t] = task[t]
    /\ arr' = arr /\ program' = program
    /\ task' \in [DOMAIN task' -> Calls]

(* The part and where it is.                                               *)
NewPart(u, k) ==
    LET c == task'[Kid(u, k)]
    IN /\ c \in Calls /\ c.pc = "start" /\ c.out = <<>> /\ c.i = c.low /\ c.j = c.low
       /\ c.low = (IF k = 1 THEN task[u].low ELSE task[u].cut[2])
       /\ c.high = (IF k = 1 THEN task[u].cut[1] ELSE task[u].high)
       /\ task[u].low <= c.low /\ c.low <= c.high /\ c.high <= task[u].high
       /\ Len(c.before) = c.high - c.low
       /\ \A x \in c.low .. c.high - 1 : c.before[x - c.low + 1] = arr[x]

LEMMA GoStarts ==
    ASSUME TInv, NEW u \in DOMAIN task, Go(u)
    PROVE  Moves(u) /\ \E k \in {1, 2} : Starts(u, k) /\ NewPart(u, k)
<1>1. /\ task \in [DOMAIN task -> Calls] /\ task[u] \in Calls /\ u \in Paths
      /\ Indices(u) /\ Started(u) /\ arr \in [DOMAIN arr -> Int]
  BY DEF TInv, TypeOK
<1>2. /\ task[u].pc = "go" /\ Cut(u) /\ Kids(u) \subseteq {1}
      /\ arr' = arr /\ program' = program
  BY <1>1 DEF Go, Indices, Started
<1> DEFINE k == IF Kid(u, 1) \in DOMAIN task THEN 2 ELSE 1
<1>3. task' = [v \in DOMAIN task \cup {Kid(u, k)} |->
                    CASE v = Kid(u, k) -> Part(u, k)
                      [] v = u /\ k = 2 -> [task[u] EXCEPT !.pc = "wait"]
                      [] OTHER -> task[v]]
  BY DEF Go, Kid
<1>4. k \in {1, 2} /\ k \notin Kids(u) /\ (k = 2 <=> 1 \in Kids(u))
  BY <1>2 DEF Kids
<1> HIDE DEF k
<1>5. Kid(u, k) \notin DOMAIN task /\ Kid(u, k) # u
  BY <1>1, <1>4, KidPath DEF Kids
<1>6. /\ DOMAIN task' = DOMAIN task \cup {Kid(u, k)} /\ task'[Kid(u, k)] = Part(u, k)
      /\ task'[u] = IF k = 2 THEN [task[u] EXCEPT !.pc = "wait"] ELSE task[u]
      /\ \A t \in DOMAIN task \ {u} : task'[t] = task[t]
  BY <1>3, <1>5
<1>7. /\ task'[u] \in Calls /\ task'[u].pc = IF k = 2 THEN "wait" ELSE "go"
      /\ task'[u].low = task[u].low /\ task'[u].high = task[u].high
      /\ task'[u].before = task[u].before /\ task'[u].wg = task[u].wg
      /\ task'[u].i = task[u].i /\ task'[u].j = task[u].j
      /\ task'[u].cut = task[u].cut /\ task'[u].out = task[u].out
  <2>1. CASE k = 2
    <3>1. task'[u] = [task[u] EXCEPT !.pc = "wait"] /\ task[u] \in Calls
      BY <1>1, <1>6, <2>1
    <3> QED BY <3>1, <2>1 DEF Calls, Labels
  <2>2. CASE k # 2
    BY <1>1, <1>2, <1>6, <2>2
  <2> QED BY <2>1, <2>2
<1> DEFINE lo == IF k = 1 THEN task[u].low ELSE task[u].cut[2]
           hi == IF k = 1 THEN task[u].cut[1] ELSE task[u].high
<1>8. /\ lo \in Nat /\ hi \in Nat /\ lo <= hi /\ task[u].low <= lo /\ hi <= task[u].high
      /\ lo .. hi - 1 \subseteq DOMAIN arr
  <2>1. /\ task[u].low \in Nat /\ task[u].high \in Nat
        /\ task[u].cut[1] \in Nat /\ task[u].cut[2] \in Nat
    BY <1>1 DEF Calls
  <2>2. /\ task[u].low <= task[u].cut[1] /\ task[u].cut[2] <= task[u].high
        /\ task[u].cut[1] <= task[u].cut[2]
    BY <1>2, <2>1 DEF Cut
  <2>3. lo \in Nat /\ hi \in Nat /\ lo <= hi /\ task[u].low <= lo /\ hi <= task[u].high
    BY <2>1, <2>2
  <2>4. lo .. hi - 1 \subseteq Slice(u)
    <3> HIDE DEF lo, hi
    <3> QED BY <2>1, <2>3 DEF Slice
  <2> QED BY <1>1, <2>3, <2>4 DEF Indices
<1>9. Part(u, k) = Call(lo, hi)
  BY DEF Part
<1> HIDE DEF lo, hi
<1>10. NewPart(u, k)
  <2> DEFINE c == Call(lo, hi)
  <2>1. Fresh(c, lo, hi)
    BY <1>1, <1>8, NewCall
  <2>2. task'[Kid(u, k)] = c
    BY <1>6, <1>9
  <2> HIDE DEF c
  <2> QED BY <1>8, <2>1, <2>2 DEF NewPart, Fresh, lo, hi
<1>11. task' \in [DOMAIN task' -> Calls]
  <2>1. task'[Kid(u, k)] \in Calls
    BY <1>10 DEF NewPart
  <2>2. \A t \in DOMAIN task' : task'[t] \in Calls
    BY <1>1, <1>6, <1>7, <2>1
  <2>3. task' = [t \in DOMAIN task' |-> task'[t]]
    BY <1>3
  <2> QED BY <2>2, <2>3
<1>12. Starts(u, k)
  BY <1>2, <1>4, <1>6, <1>7, <1>11 DEF Starts
<1>13. Moves(u)
  <2>1. task[u].pc # "done" /\ DOMAIN task \subseteq DOMAIN task' /\ task'[u].pc \in {"go", "wait"}
    BY <1>2, <1>6, <1>7
  <2>2. \A t \in DOMAIN task : /\ task'[t].low = task[t].low /\ task'[t].high = task[t].high
                               /\ task'[t].before = task[t].before
    BY <1>6, <1>7
  <2>3. arr' \in [DOMAIN arr -> Int]
    BY <1>1, <1>2
  <2> QED BY <1>2, <1>6, <1>7, <1>11, <2>1, <2>2, <2>3 DEF Moves
<1> QED BY <1>4, <1>10, <1>12, <1>13

(* The tree with the new call.                                             *)
LEMMA NewTree ==
    ASSUME TInv, NEW u \in DOMAIN task, NEW k, Starts(u, k), NewPart(u, k)
    PROVE  Tree'
<1> DEFINE c == Kid(u, k)
           D == DOMAIN task
<1>1. /\ k \in {1, 2} /\ k \notin Kids(u) /\ Kids(u) \subseteq {1} /\ DOMAIN task' = D \cup {c}
      /\ \A t \in D : task'[t].low = task[t].low /\ task'[t].high = task[t].high
      /\ task[u].pc = "go" /\ task'[u].pc \in {"go", "wait"}
      /\ \A t \in D \ {u} : task'[t].pc = task[t].pc
  BY DEF Starts
<1>2. /\ u \in Paths /\ D \subseteq Paths /\ c \in Paths /\ c # u /\ c # main /\ c \notin D
      /\ Under(u, c)
  <2>1. u \in Paths /\ D \subseteq Paths
    BY DEF TInv, TypeOK
  <2> QED BY <1>1, <2>1, KidPath, UnderKid DEF Kids
<1>3. \A t \in Paths : Under(t, c) <=> t = u \/ Under(t, u)
  BY <1>1, <1>2, UnderKid
<1>4. /\ task'[c].pc = "start" /\ task[u].low <= task'[c].low /\ task'[c].high <= task[u].high
      /\ task'[c].low = (IF k = 1 THEN task[u].low ELSE task[u].cut[2])
      /\ task'[c].high = (IF k = 1 THEN task[u].cut[1] ELSE task[u].high)
      /\ task'[c] \in Calls
  BY DEF NewPart
<1>5. \A t \in D : task[t].low \in Nat /\ task[t].high \in Nat
  BY DEF TInv, TypeOK, Calls
<1>6. task'[c].low \in Nat /\ task'[c].high \in Nat
  BY <1>4 DEF Calls
<1> HIDE DEF c
<1>7. \A w \in D, t \in Paths : Under(t, w) => t \in D
  BY DEF TInv, Tree
<1>8. \A t, w \in D : Under(t, w) =>
           /\ task[w].pc # "done" => task[t].pc \in {"go", "wait"}
           /\ task[t].low <= task[w].low /\ task[w].high <= task[t].high
  BY DEF TInv, Tree
<1>9. \A t, w \in D : t # w /\ ~Under(t, w) /\ ~Under(w, t) =>
           task[t].high <= task[w].low \/ task[w].high <= task[t].low
  BY DEF TInv, Tree
<1>10. \A w \in D \cup {c}, t \in Paths : Under(t, w) => t \in D
  BY <1>3, <1>7
<1>11. ASSUME NEW t \in D \cup {c}, NEW w \in D \cup {c}, Under(t, w)
       PROVE  /\ task'[w].pc # "done" => task'[t].pc \in {"go", "wait"}
              /\ task'[t].low <= task'[w].low /\ task'[w].high <= task'[t].high
  <2>1. t \in D
    BY <1>2, <1>10, <1>11
  <2>2. CASE w \in D
    BY <1>1, <1>8, <1>11, <2>1, <2>2
  <2>3. CASE w = c
    <3>1. CASE t = u
      BY <1>1, <1>4, <2>3, <3>1
    <3>2. CASE Under(t, u)
      <4>1. /\ task[t].pc \in {"go", "wait"}
            /\ task[t].low <= task[u].low /\ task[u].high <= task[t].high
        BY <1>1, <1>8, <2>1, <3>2
      <4>2. t # u
        BY <1>2, <3>2, UnderOrder
      <4>3. task[t].low <= task'[c].low /\ task'[c].high <= task[t].high
        BY <1>4, <1>5, <1>6, <2>1, <4>1
      <4> QED BY <1>1, <2>1, <2>3, <4>1, <4>2, <4>3
    <3> QED BY <1>2, <1>3, <1>11, <2>1, <2>3, <3>1, <3>2
  <2> QED BY <2>2, <2>3
<1>12. ASSUME NEW t \in D, ~ Under(t, c), ~ Under(c, t)
       PROVE  task[t].high <= task'[c].low \/ task'[c].high <= task[t].low
  <2>1. t \in Paths /\ t # u /\ ~ Under(t, u)
    BY <1>2, <1>3, <1>12
  <2>2. CASE Under(u, t)
    <3>1. PICK l \in Kids(u) : t = Kid(u, l) \/ Under(Kid(u, l), t)
      BY <2>2, UnderPart
    <3>2. l = 1 /\ k = 2
      BY <1>1, <3>1
    <3> DEFINE v == Kid(u, 1)
    <3>3. v \in D /\ task[v].high = task[u].cut[1] /\ Cut(u)
      BY <3>1, <3>2 DEF Kids, TInv, PartsOf
    <3>4. task[t].high <= task[v].high
      BY <1>5, <1>8, <3>1, <3>2, <3>3
    <3>5. task[u].cut[1] \in Nat /\ task[u].cut[2] \in Nat
      BY DEF TInv, TypeOK, Calls
    <3>6. task[u].cut[1] <= task[u].cut[2]
      BY <3>3, <3>5 DEF Cut
    <3>7. task'[c].low = task[u].cut[2] /\ task[t].high \in Nat
      BY <1>4, <1>5, <3>2
    <3> QED BY <3>3, <3>4, <3>5, <3>6, <3>7
  <2>3. CASE ~ Under(u, t)
    <3>1. task[t].high <= task[u].low \/ task[u].high <= task[t].low
      BY <1>9, <2>1, <2>3
    <3> QED BY <1>4, <1>5, <1>6, <3>1
  <2> QED BY <2>2, <2>3
<1>13. ASSUME NEW t \in D \cup {c}, NEW w \in D \cup {c}, t # w, ~ Under(t, w), ~ Under(w, t)
       PROVE  task'[t].high <= task'[w].low \/ task'[w].high <= task'[t].low
  <2>1. CASE t \in D /\ w \in D
    BY <1>1, <1>9, <1>13, <2>1
  <2>2. CASE t \in D /\ w = c
    BY <1>1, <1>12, <1>13, <2>2
  <2>3. CASE t = c /\ w \in D
    BY <1>1, <1>12, <1>13, <2>3
  <2> QED BY <1>13, <2>1, <2>2, <2>3
<1>14. DOMAIN task' = D \cup {c}
  BY <1>1 DEF c
<1> QED BY <1>10, <1>11, <1>13, <1>14 DEF Tree

LEMMA GoTInv ==
    ASSUME TInv, NEW u \in DOMAIN task, NEW k, Starts(u, k), NewPart(u, k), Moves(u)
    PROVE  TInv'
<1> DEFINE c == Kid(u, k)
           D == DOMAIN task
<1>1. /\ k \in {1, 2} /\ k \notin Kids(u) /\ Kids(u) \subseteq {1} /\ (k = 2 <=> 1 \in Kids(u))
      /\ DOMAIN task' = D \cup {c} /\ task[u].pc = "go"
      /\ task'[u].pc = IF k = 2 THEN "wait" ELSE "go"
      /\ task'[u].low = task[u].low /\ task'[u].high = task[u].high
      /\ task'[u].before = task[u].before /\ task'[u].wg = task[u].wg
      /\ task'[u].cut = task[u].cut /\ task'[u].out = task[u].out
      /\ \A t \in D \ {u} : task'[t] = task[t]
      /\ arr' = arr /\ program' = program /\ Cut(u)
      /\ task' \in [DOMAIN task' -> Calls]
  BY DEF Starts
<1>2. /\ u \in Paths /\ D \subseteq Paths /\ c \in Paths /\ c # u /\ c # main /\ c \notin D
      /\ \A t \in Paths : \A l \in {1, 2} : Kid(t, l) = c => t = u /\ l = k
      /\ \A l \in {1, 2} : Kid(c, l) \notin D /\ Kid(c, l) # c
      /\ Front(c) = u
  <2>1. u \in Paths /\ D \subseteq Paths
    BY DEF TInv, TypeOK
  <2>2. c \in Paths /\ c # u /\ c # main /\ c \notin D /\ Front(c) = u
    BY <1>1, <2>1, KidPath DEF Kids
  <2>3. \A t \in Paths : \A l \in {1, 2} : Kid(t, l) = c => t = u /\ l = k
    BY <1>1, <2>1, KidInjective
  <2> HIDE DEF c
  <2>4. ASSUME NEW l \in {1, 2} PROVE Kid(c, l) \notin D /\ Kid(c, l) # c
    <3>1. Under(c, Kid(c, l)) /\ Kid(c, l) # c
      BY <2>2, UnderKid, KidPath
    <3> QED BY <2>2, <3>1 DEF TInv, Tree
  <2> QED BY <2>1, <2>2, <2>3, <2>4
<1>3. /\ task'[c] \in Calls /\ task'[c].pc = "start" /\ task'[c].out = <<>>
      /\ task'[c].i = task'[c].low /\ task'[c].j = task'[c].low
      /\ task'[c].low = (IF k = 1 THEN task[u].low ELSE task[u].cut[2])
      /\ task'[c].high = (IF k = 1 THEN task[u].cut[1] ELSE task[u].high)
      /\ task[u].low <= task'[c].low /\ task'[c].low <= task'[c].high
      /\ task'[c].high <= task[u].high
      /\ Len(task'[c].before) = task'[c].high - task'[c].low
  BY DEF NewPart
<1>4. Kids(u)' = Kids(u) \cup {k}
  BY <1>1, <1>2 DEF Kids
<1> HIDE DEF c
<1>5. Kids(c)' = {}
  BY <1>1, <1>2 DEF Kids, c
<1>6. \A t \in D \ {u} : Kids(t)' = Kids(t)
  BY <1>1, <1>2 DEF Kids, c
<1>7. TypeOK'
  BY <1>1, <1>2 DEF TInv, TypeOK, c
<1>8. Tree'
  BY NewTree
<1>9. Indices(u) /\ Places(u) /\ Started(u) /\ PartsOf(u) /\ Awaited(u) /\ task[u] \in Calls
  BY DEF TInv, TypeOK
<1>10. Cut(u)'
  BY <1>1 DEF Cut
<1>11. Indices(u)' /\ Places(u)' /\ Started(u)' /\ PartsOf(u)' /\ Awaited(u)'
  <2>1. Indices(u)'
    BY <1>1, <1>9, <1>10 DEF Indices, Slice, Size
  <2>2. Places(u)'
    BY <1>1, <1>9 DEF Places
  <2>3. Started(u)'
    BY <1>1, <1>4, <1>9 DEF Started, Places
  <2>4. PartsOf(u)'
    <3> SUFFICES ASSUME NEW l \in Kids(u)'
                 PROVE  /\ task'[Kid(u, l)].low = IF l = 1 THEN task[u].low ELSE task[u].cut[2]
                        /\ task'[Kid(u, l)].high = IF l = 1 THEN task[u].cut[1] ELSE task[u].high
      BY <1>1, <1>10 DEF PartsOf
    <3>1. CASE l = k
      BY <1>3, <3>1 DEF c
    <3>2. CASE l # k
      <4>1. l \in Kids(u) /\ Kid(u, l) \in D /\ Kid(u, l) # u
        BY <1>4, <3>2, PartsThere
      <4> QED BY <1>1, <1>9, <4>1 DEF PartsOf
    <3> QED BY <3>1, <3>2
  <2>5. Awaited(u)'
    <3>1. ASSUME NEW l \in {1, 2} PROVE l \in Pending(u)' <=> l \in Pending(u)
      <4>1. CASE l = k
        BY <1>1, <1>3, <4>1 DEF Pending, c
      <4>2. CASE l # k
        <5>1. l \in Kids(u)' <=> l \in Kids(u)
          BY <1>4, <4>2
        <5>2. l \in Kids(u) => Kid(u, l) \in D /\ Kid(u, l) # u
          BY PartsThere
        <5> QED BY <1>1, <5>1, <5>2 DEF Pending
      <4> QED BY <4>1, <4>2
    <3>2. Pending(u)' = Pending(u)
      BY <3>1 DEF Pending
    <3> QED BY <1>1, <1>9, <3>2 DEF Awaited
  <2> QED BY <2>1, <2>2, <2>3, <2>4, <2>5
<1>12. Indices(c)' /\ Places(c)' /\ Started(c)' /\ PartsOf(c)' /\ Awaited(c)'
  <2>1. /\ task[u].low \in Nat /\ task[u].high \in Nat
        /\ task'[c].low \in Nat /\ task'[c].high \in Nat
    BY <1>3, <1>9 DEF Calls
  <2>2. Slice(c)' \subseteq Slice(u)
    BY <1>3, <2>1 DEF Slice
  <2>3. Indices(c)'
    BY <1>1, <1>3, <1>9, <2>2 DEF Indices, Size
  <2>4. Places(c)' /\ Started(c)' /\ PartsOf(c)' /\ Awaited(c)'
    BY <1>3, <1>5 DEF Places, Started, PartsOf, Awaited
  <2> QED BY <2>3, <2>4
<1>13. ASSUME NEW t \in D, t # u
       PROVE  Indices(t)' /\ Places(t)' /\ Started(t)' /\ PartsOf(t)' /\ Awaited(t)'
  <2>1. Kids(t)' = Kids(t)
    BY <1>6, <1>13
  <2>2. Indices(t)' /\ Places(t)' /\ PartsOf(t)' /\ Started(t)'
    BY <1>13, <2>1, OthersKeep, PartsKeep
  <2>3. Pending(t)' = Pending(t)
    <3>1. ASSUME NEW l \in Kids(t) PROVE task'[Kid(t, l)].pc = "done" <=> task[Kid(t, l)].pc = "done"
      <4>1. Kid(t, l) \in D
        BY PartsThere
      <4> QED BY <1>1, <4>1
    <3> QED BY <2>1, <3>1 DEF Pending
  <2>4. Awaited(t) /\ task'[t] = task[t]
    BY <1>1, <1>13 DEF TInv
  <2> QED BY <2>2, <2>3, <2>4 DEF Awaited
<1>14. DOMAIN task' = D \cup {c}
  BY <1>1 DEF c
<1> QED BY <1>7, <1>8, <1>11, <1>12, <1>13, <1>14 DEF TInv
-----------------------------------------------------------------------------
(* Where the indices of a call are that merges, or copies back.            *)
MergesAt(r, low, high) ==
    /\ low <= r.i /\ r.i <= r.cut[1] /\ r.cut[1] <= r.j /\ r.j <= high
    /\ Len(r.out) = (r.i - low) + (r.j - r.cut[1])
CopiesAt(r, low, high) == low <= r.i /\ r.i <= high /\ Len(r.out) = high - low

LEMMA IndicesOfMerge ==
    ASSUME TInv, NEW u \in DOMAIN task, Moves(u), Cut(u)',
           task'[u].pc \in {"merge", "copy"}, NEW r, r = task'[u],
           NEW low, low = task[u].low, NEW high, high = task[u].high,
           r.pc = "merge" => MergesAt(r, low, high), r.pc = "copy" => CopiesAt(r, low, high)
    PROVE  Indices(u)'
<1>1. /\ task'[u].low = task[u].low /\ task'[u].high = task[u].high
      /\ task'[u].before = task[u].before /\ DOMAIN arr' = DOMAIN arr
  BY DEF Moves
<1>2. /\ task[u].low <= task[u].high /\ Slice(u) \subseteq DOMAIN arr
      /\ Len(task[u].before) = Size(u)
  BY DEF TInv, Indices
<1>3. Slice(u)' = Slice(u) /\ Size(u)' = Size(u) /\ Size(u) = task[u].high - task[u].low
  BY <1>1 DEF Slice, Size
<1> QED BY <1>1, <1>2, <1>3 DEF Indices, MergesAt, CopiesAt

LEMMA WaitTInv ==
    ASSUME TInv, NEW u \in DOMAIN task, Wait(u)
    PROVE  /\ TInv' /\ Moves(u) /\ Tells(u) /\ arr' = arr /\ task[u].pc = "wait"
           /\ Over(u) /\ Cut(u) /\ task[u].out = <<>>
           /\ \A k \in {1, 2} : k \in Kids(u) /\ task[Kid(u, k)].pc = "done"
           /\ \/ program = "quick" /\ task'[u] = [task[u] EXCEPT !.pc = "done"]
              \/ /\ program # "quick" /\ task'[u].pc = "merge" /\ task'[u].i = task[u].low
                 /\ task'[u].j = task[u].cut[1] /\ task'[u].cut = task[u].cut
                 /\ task'[u].out = <<>>
<1> DEFINE low == task[u].low
           mid == task[u].cut[1]
           r == [task[u] EXCEPT !.pc = "merge", !.i = low, !.j = mid]
<1>1. /\ task[u].pc = "wait" /\ Joined(u) /\ arr' = arr /\ program' = program
      /\ task' = IF program = "quick" THEN Done(u) ELSE [task EXCEPT ![u] = r]
  BY DEF Wait
<1>2. /\ task[u] \in Calls /\ Indices(u) /\ Started(u) /\ Places(u)
  BY DEF TInv, TypeOK
<1>3. Over(u) /\ \A k \in {1, 2} : k \in Kids(u) /\ task[Kid(u, k)].pc = "done"
  BY <1>1, OverWhenJoined
<1>4. Cut(u) /\ task[u].out = <<>> /\ Rearranges(u)
  BY <1>1, <1>2, NoneMoved DEF Indices
<1>5. CASE program = "quick"
  <2>1. task' = Done(u)
    BY <1>1, <1>5
  <2>2. TInv' /\ Moves(u) /\ Tells(u) /\ task'[u] = [task[u] EXCEPT !.pc = "done"]
    BY <1>1, <1>3, <1>4, <2>1, DoneTInv, DoneMoves
  <2> QED BY <1>1, <1>3, <1>4, <1>5, <2>2
<1>6. CASE program # "quick"
  <2>1. task' = [task EXCEPT ![u] = r]
    BY <1>1, <1>6
  <2>2. /\ low \in Nat /\ mid \in Nat /\ task[u].high \in Nat
        /\ low <= mid /\ mid <= task[u].high
    BY <1>2, <1>4, <1>6 DEF Calls, Cut
  <2>3. /\ r \in Calls /\ r.pc = "merge" /\ r.low = task[u].low /\ r.high = task[u].high
        /\ r.before = task[u].before /\ r.out = task[u].out /\ r.cut = task[u].cut
        /\ r.i = low /\ r.j = mid
    <3> HIDE DEF low, mid
    <3> QED BY <1>2, <2>2 DEF Calls, Labels
  <2> HIDE DEF r
  <2>4. Goes(u, r)
    BY <1>1, <2>1, <2>3 DEF Goes
  <2>5. Moves(u) /\ Tells(u) /\ task'[u] = r
    BY <1>1, <1>4, <2>4, GoesMoves
  <2>6. DOMAIN task' = DOMAIN task /\ Kids(u)' = Kids(u)
    BY <2>5 DEF Tells, Kids
  <2>7. Cut(u)'
    BY <1>1, <1>4, <2>3, <2>5 DEF Cut
  <2>8. Indices(u)'
    <3>1. Len(r.out) = 0 /\ r.pc = "merge"
      BY <1>4, <2>3
    <3>2. MergesAt(r, low, task[u].high)
      <4>1. r.i = low /\ r.j = mid /\ r.cut[1] = mid
        BY <2>3
      <4> HIDE DEF low, mid
      <4> QED BY <2>2, <3>1, <4>1 DEF MergesAt
    <3> QED BY <2>5, <2>7, <3>1, <3>2, IndicesOfMerge
  <2>9. Places(u)' /\ Started(u)' /\ Awaited(u)'
    BY <1>1, <1>2, <1>6, <2>3, <2>5, <2>6 DEF Places, Started, Awaited
  <2>10. TInv'
    BY <1>3, <2>5, <2>8, <2>9, SameCalls
  <2> QED BY <1>1, <1>3, <1>4, <1>6, <2>3, <2>5, <2>10
<1> QED BY <1>5, <1>6

(* What Merge does to the record.                                          *)
LEMMA MergeTInv ==
    ASSUME TInv, NEW u \in DOMAIN task, Merge(u)
    PROVE  /\ TInv' /\ Moves(u) /\ Tells(u) /\ arr' = arr /\ task[u].pc = "merge" /\ Cut(u)
           /\ program # "quick"
           /\ LET lo1 == task[u].i
                  hi1 == task[u].cut[1]
                  lo2 == task[u].j
                  hi2 == task[u].high
              IN \/ /\ lo1 < hi1 /\ (lo2 < hi2 => arr[lo1] < arr[lo2])
                    /\ task'[u].pc = "merge" /\ task'[u].out = Append(task[u].out, arr[lo1])
                    /\ task'[u].i = lo1 + 1 /\ task'[u].j = lo2 /\ task'[u].cut = task[u].cut
                 \/ /\ lo2 < hi2 /\ (lo1 < hi1 => arr[lo2] <= arr[lo1])
                    /\ task'[u].pc = "merge" /\ task'[u].out = Append(task[u].out, arr[lo2])
                    /\ task'[u].i = lo1 /\ task'[u].j = lo2 + 1 /\ task'[u].cut = task[u].cut
                 \/ /\ lo1 = hi1 /\ lo2 = hi2 /\ program = "threads"
                    /\ task'[u] = [task[u] EXCEPT !.pc = "done"]
                 \/ /\ lo1 = hi1 /\ lo2 = hi2 /\ program = "merge" /\ task'[u].pc = "copy"
                    /\ task'[u].i = task[u].low /\ task'[u].out = task[u].out
<1> DEFINE low == task[u].low
           lo1 == task[u].i
           hi1 == task[u].cut[1]
           lo2 == task[u].j
           hi2 == task[u].high
           next1 == lo1 + 1
           next2 == lo2 + 1
           out1 == Append(task[u].out, arr[lo1])
           out2 == Append(task[u].out, arr[lo2])
           r1 == [task[u] EXCEPT !.out = out1, !.i = next1]
           r2 == [task[u] EXCEPT !.out = out2, !.j = next2]
           rc == [task[u] EXCEPT !.pc = "copy", !.i = low]
<1>1. /\ task[u].pc = "merge" /\ arr' = arr /\ program' = program
      /\ task' = CASE lo1 < hi1 /\ lo2 < hi2 -> IF arr[lo1] < arr[lo2]
                                                THEN [task EXCEPT ![u] = r1]
                                                ELSE [task EXCEPT ![u] = r2]
                   [] lo1 < hi1 /\ lo2 >= hi2 -> [task EXCEPT ![u] = r1]
                   [] lo1 >= hi1 /\ lo2 < hi2 -> [task EXCEPT ![u] = r2]
                   [] OTHER -> IF program = "threads" THEN Done(u)
                               ELSE [task EXCEPT ![u] = rc]
  BY DEF Merge
<1>2. /\ task[u] \in Calls /\ Indices(u) /\ Started(u) /\ Places(u)
      /\ arr \in [DOMAIN arr -> Int]
  BY DEF TInv, TypeOK
<1>3. /\ low \in Nat /\ lo1 \in Nat /\ hi1 \in Nat /\ lo2 \in Nat /\ hi2 \in Nat
      /\ low <= lo1 /\ lo1 <= hi1 /\ hi1 <= lo2 /\ lo2 <= hi2
      /\ next1 \in Nat /\ next2 \in Nat /\ next1 = lo1 + 1 /\ next2 = lo2 + 1
      /\ Len(task[u].out) = (lo1 - low) + (lo2 - hi1) /\ task[u].out \in Seq(Int)
      /\ Cut(u)
  BY <1>1, <1>2 DEF Calls, Indices
<1>4. lo1 < hi1 => lo1 \in Slice(u) /\ arr[lo1] \in Int
  <2>1. Slice(u) = low .. hi2 - 1 /\ \A x \in Slice(u) : arr[x] \in Int
    BY Span
  <2> HIDE DEF low, lo1, hi1, lo2, hi2, next1, next2
  <2> QED BY <1>3, <2>1
<1>5. lo2 < hi2 => lo2 \in Slice(u) /\ arr[lo2] \in Int
  <2>1. Slice(u) = low .. hi2 - 1 /\ \A x \in Slice(u) : arr[x] \in Int
    BY Span
  <2> HIDE DEF low, lo1, hi1, lo2, hi2, next1, next2
  <2> QED BY <1>3, <2>1
<1>6. Over(u) /\ Rearranges(u)
  BY <1>1, OverUnlessGo, NoneMoved
<1>7. program # "quick" /\ (program = "threads" \/ program = "merge")
  <2>1. program \in {"selection", "merge", "quick", "threads"}
    BY DEF TInv, TypeOK
  <2> QED BY <1>1, <1>2, <2>1 DEF Places
<1>9. ASSUME NEW r, Goes(u, r)
      PROVE  Moves(u) /\ Tells(u) /\ task'[u] = r
  BY <1>1, <1>6, <1>9, GoesMoves
<1>8. ASSUME NEW r, Goes(u, r), r.pc = "merge" \/ (r.pc = "copy" /\ program = "merge"),
             r.cut = task[u].cut, Indices(u)'
      PROVE  TInv'
  <2>1. Moves(u) /\ Tells(u) /\ task'[u] = r
    BY <1>9, <1>8
  <2>2. DOMAIN task' = DOMAIN task /\ Kids(u)' = Kids(u)
    BY <2>1 DEF Tells, Kids
  <2>3. Places(u)' /\ Started(u)' /\ Awaited(u)'
    BY <1>1, <1>2, <1>7, <1>8, <2>1, <2>2 DEF Places, Started, Awaited
  <2> QED BY <1>6, <1>8, <2>1, <2>3, SameCalls

<1>10. CASE lo1 < hi1 /\ (lo2 < hi2 => arr[lo1] < arr[lo2])
  <2>1. task' = [task EXCEPT ![u] = r1]
    <3> HIDE DEF lo1, hi1, lo2, hi2, r1, r2, rc
    <3> QED BY <1>1, <1>3, <1>10
  <2>2. out1 \in Seq(Int) /\ Len(out1) = Len(task[u].out) + 1
    BY <1>3, <1>4, <1>10
  <2>3. /\ r1 \in Calls /\ r1.pc = "merge" /\ r1.low = task[u].low /\ r1.high = task[u].high
        /\ r1.before = task[u].before /\ r1.out = out1 /\ r1.cut = task[u].cut
        /\ r1.i = next1 /\ r1.j = task[u].j
    <3> HIDE DEF out1, next1
    <3> QED BY <1>1, <1>2, <1>3, <2>2 DEF Calls
  <2> HIDE DEF r1
  <2>4. Goes(u, r1)
    BY <1>1, <2>1, <2>3 DEF Goes
  <2>5. task'[u] = r1 /\ Moves(u) /\ Tells(u)
    BY <1>9, <2>4
  <2>6. Cut(u)'
    BY <1>1, <1>3, <2>3, <2>5 DEF Cut
  <2>7. Indices(u)'
    <3>1. /\ r1.i = next1 /\ r1.j = lo2 /\ r1.cut[1] = hi1 /\ r1.out = out1
          /\ r1.pc = "merge"
      BY <2>3
    <3>2. MergesAt(r1, low, hi2)
      <4> HIDE DEF out1, low, lo1, hi1, lo2, hi2, next1, next2
      <4> QED BY <1>3, <1>10, <2>2, <3>1 DEF MergesAt
    <3> QED BY <2>5, <2>6, <3>1, <3>2, IndicesOfMerge
  <2>8. TInv'
    BY <1>8, <2>3, <2>4, <2>7
  <2> QED BY <1>1, <1>3, <1>7, <1>10, <2>3, <2>5, <2>8
<1>11. CASE lo2 < hi2 /\ (lo1 < hi1 => arr[lo2] <= arr[lo1])
  <2>1. task' = [task EXCEPT ![u] = r2]
    <3>1. lo1 < hi1 /\ lo2 < hi2 => ~ (arr[lo1] < arr[lo2])
      BY <1>4, <1>5, <1>11
    <3> HIDE DEF lo1, hi1, lo2, hi2, r1, r2, rc
    <3> QED BY <1>1, <1>3, <1>11, <3>1
  <2>2. out2 \in Seq(Int) /\ Len(out2) = Len(task[u].out) + 1
    BY <1>3, <1>5, <1>11
  <2>3. /\ r2 \in Calls /\ r2.pc = "merge" /\ r2.low = task[u].low /\ r2.high = task[u].high
        /\ r2.before = task[u].before /\ r2.out = out2 /\ r2.cut = task[u].cut
        /\ r2.i = task[u].i /\ r2.j = next2
    <3> HIDE DEF out2, next2
    <3> QED BY <1>1, <1>2, <1>3, <2>2 DEF Calls
  <2> HIDE DEF r2
  <2>4. Goes(u, r2)
    BY <1>1, <2>1, <2>3 DEF Goes
  <2>5. task'[u] = r2 /\ Moves(u) /\ Tells(u)
    BY <1>9, <2>4
  <2>6. Cut(u)'
    BY <1>1, <1>3, <2>3, <2>5 DEF Cut
  <2>7. Indices(u)'
    <3>1. /\ r2.i = lo1 /\ r2.j = next2 /\ r2.cut[1] = hi1 /\ r2.out = out2
          /\ r2.pc = "merge"
      BY <2>3
    <3>2. MergesAt(r2, low, hi2)
      <4> HIDE DEF out2, low, lo1, hi1, lo2, hi2, next1, next2
      <4> QED BY <1>3, <1>11, <2>2, <3>1 DEF MergesAt
    <3> QED BY <2>5, <2>6, <3>1, <3>2, IndicesOfMerge
  <2>8. TInv'
    BY <1>8, <2>3, <2>4, <2>7
  <2> QED BY <1>1, <1>3, <1>7, <1>11, <2>3, <2>5, <2>8
<1>12. CASE ~ (lo1 < hi1) /\ ~ (lo2 < hi2)
  <2>1. lo1 = hi1 /\ lo2 = hi2
    BY <1>3, <1>12
  <2>2. task' = IF program = "threads" THEN Done(u) ELSE [task EXCEPT ![u] = rc]
    <3> HIDE DEF lo1, hi1, lo2, hi2, r1, r2, rc
    <3> QED BY <1>1, <1>3, <1>12
  <2>3. CASE program = "threads"
    <3>1. task' = Done(u)
      BY <2>2, <2>3
    <3>2. TInv' /\ Moves(u) /\ Tells(u) /\ task'[u] = [task[u] EXCEPT !.pc = "done"]
      BY <1>1, <1>6, <3>1, DoneTInv, DoneMoves
    <3> QED BY <1>1, <1>3, <1>7, <2>1, <2>3, <3>2
  <2>4. CASE program = "merge"
    <3>1. task' = [task EXCEPT ![u] = rc]
      BY <2>2, <2>4
    <3>2. /\ rc \in Calls /\ rc.pc = "copy" /\ rc.low = task[u].low /\ rc.high = task[u].high
          /\ rc.before = task[u].before /\ rc.out = task[u].out /\ rc.cut = task[u].cut
          /\ rc.i = low
      <4> HIDE DEF low
      <4> QED BY <1>1, <1>2, <1>3 DEF Calls, Labels
    <3> HIDE DEF rc
    <3>3. Goes(u, rc)
      BY <1>1, <3>1, <3>2 DEF Goes
    <3>4. task'[u] = rc /\ Moves(u) /\ Tells(u)
      BY <1>9, <3>3
    <3>5. Cut(u)'
      BY <1>1, <1>3, <3>2, <3>4 DEF Cut
    <3>6. Indices(u)'
      <4>1. rc.pc = "copy" /\ rc.i = low /\ rc.out = task[u].out
        BY <3>2
      <4>2. CopiesAt(rc, low, hi2)
        <5> HIDE DEF low, lo1, hi1, lo2, hi2
        <5> QED BY <1>3, <2>1, <4>1 DEF CopiesAt
      <4> QED BY <3>4, <3>5, <4>1, <4>2, IndicesOfMerge
    <3>7. TInv'
      BY <1>8, <2>4, <3>2, <3>3, <3>6
    <3> QED BY <1>1, <1>3, <1>7, <2>1, <2>4, <3>2, <3>4, <3>7
  <2> QED BY <1>7, <2>3, <2>4
<1>13. lo1 < hi1 /\ lo2 < hi2 => arr[lo1] < arr[lo2] \/ arr[lo2] <= arr[lo1]
  BY <1>4, <1>5
<1> QED BY <1>10, <1>11, <1>12, <1>13

LEMMA CopyBackTInv ==
    ASSUME TInv, NEW u \in DOMAIN task, CopyBack(u)
    PROVE  /\ TInv' /\ Moves(u) /\ Tells(u) /\ task[u].pc = "copy" /\ program # "threads"
           /\ \/ /\ task[u].i = task[u].high /\ arr' = arr
                 /\ task'[u] = [task[u] EXCEPT !.pc = "done"]
              \/ /\ task[u].i \in Slice(u)
                 /\ task'[u] = [task[u] EXCEPT !.i = task[u].i + 1]
                 /\ \A x \in DOMAIN arr :
                        arr'[x] = IF x = task[u].i THEN task[u].out[x - task[u].low + 1]
                                  ELSE arr[x]
<1> DEFINE i == task[u].i
           j == i + 1
           r == [task[u] EXCEPT !.i = j]
           e == task[u].out[i - task[u].low + 1]
<1>1. /\ task[u].pc = "copy" /\ program' = program
      /\ IF i < task[u].high
         THEN arr' = [arr EXCEPT ![i] = e] /\ task' = [task EXCEPT ![u] = r]
         ELSE task' = Done(u) /\ arr' = arr
  BY DEF CopyBack
<1>2. /\ task[u] \in Calls /\ Indices(u) /\ Started(u) /\ Places(u)
      /\ arr \in [DOMAIN arr -> Int]
  BY DEF TInv, TypeOK
<1>3. /\ i \in Nat /\ j \in Nat /\ task[u].high \in Nat /\ task[u].low \in Nat
      /\ task[u].low <= i /\ i <= task[u].high /\ Len(task[u].out) = Size(u)
      /\ task[u].out \in Seq(Int) /\ Cut(u) /\ j = i + 1
  <2>1. /\ task[u].low \in Nat /\ task[u].high \in Nat /\ i \in Nat
        /\ task[u].out \in Seq(Int)
    BY Span
  <2>2. /\ task[u].low <= i /\ i <= task[u].high /\ Len(task[u].out) = Size(u) /\ Cut(u)
    BY <1>1, <1>2 DEF Indices
  <2> HIDE DEF i
  <2> QED BY <2>1, <2>2
<1>4. Over(u) /\ program # "threads"
  BY <1>1, <1>2, OverUnlessGo DEF Places
<1>5. CASE ~ (i < task[u].high)
  <2>1. task' = Done(u) /\ arr' = arr
    BY <1>1, <1>5
  <2>2. Rearranges(u)
    BY <1>1, <2>1, NoneMoved
  <2>3. TInv' /\ Moves(u) /\ Tells(u) /\ task'[u] = [task[u] EXCEPT !.pc = "done"]
    BY <1>1, <1>4, <2>1, <2>2, DoneTInv, DoneMoves
  <2>4. i = task[u].high
    BY <1>3, <1>5
  <2> QED BY <1>1, <1>4, <2>1, <2>3, <2>4
<1>6. CASE i < task[u].high
  <2>1. arr' = [arr EXCEPT ![i] = e] /\ task' = [task EXCEPT ![u] = r]
    BY <1>1, <1>6
  <2>2. i \in Slice(u) /\ Slice(u) \subseteq DOMAIN arr
    BY <1>2, <1>3, <1>6 DEF Slice, Indices
  <2>3. e \in Int
    <3>1. i - task[u].low + 1 \in 1 .. Len(task[u].out)
      BY <1>3, <1>6 DEF Size
    <3> QED BY <1>3, <3>1
  <2> HIDE DEF e
  <2>4. arr' \in [DOMAIN arr -> Int] /\ \A x \in DOMAIN arr : arr'[x] = IF x = i THEN e ELSE arr[x]
    BY <1>2, <2>1, <2>2, <2>3
  <2>5. Rearranges(u)
    BY <1>1, <2>2, <2>4 DEF Rearranges
  <2>6. /\ r \in Calls /\ r.pc = "copy" /\ r.low = task[u].low /\ r.high = task[u].high
        /\ r.before = task[u].before /\ r.cut = task[u].cut /\ r.i = j /\ r.out = task[u].out
    <3> HIDE DEF j
    <3> QED BY <1>1, <1>2, <1>3 DEF Calls, Labels
  <2> HIDE DEF r
  <2>7. Goes(u, r)
    BY <1>1, <2>1, <2>6 DEF Goes
  <2>8. Moves(u) /\ Tells(u) /\ task'[u] = r
    BY <1>1, <2>5, <2>7, GoesMoves
  <2>9. /\ DOMAIN task' = DOMAIN task /\ DOMAIN arr' = DOMAIN arr /\ program' = program
        /\ Kids(u)' = Kids(u)
    BY <2>8 DEF Tells, Moves, Kids
  <2>10. Cut(u)'
    BY <1>3, <2>6, <2>8, <2>9 DEF Cut
  <2>11. Indices(u)'
    BY <1>1, <1>2, <1>3, <1>6, <2>6, <2>8, <2>9, <2>10 DEF Indices, Slice, Size
  <2>12. Places(u)' /\ Started(u)' /\ Awaited(u)'
    BY <1>1, <1>2, <2>6, <2>8, <2>9 DEF Places, Started, Awaited
  <2>13. TInv'
    BY <1>4, <2>8, <2>11, <2>12, SameCalls
  <2> QED BY <1>1, <1>4, <2>2, <2>4, <2>8, <2>13 DEF e, r
<1> QED BY <1>5, <1>6
-----------------------------------------------------------------------------
LEMMA StepTInv ==
    ASSUME TInv, NEW u \in DOMAIN task, Step(u)
    PROVE  TInv' /\ Moves(u)
<1>1. CASE SortShort(u)
  BY <1>1, SortShortTInv
<1>2. CASE SelectMinimum(u)
  BY <1>2, SelectMinimumTInv
<1>3. CASE runner(u)
  BY <1>3, RunnerTInv
<1>4. CASE Halve(u)
  BY <1>4, HalveTInv
<1>5. CASE ChoosePivot(u)
  BY <1>5, ChoosePivotTInv
<1>6. CASE Partition(u)
  BY <1>6, PartitionTInv
<1>7. CASE Go(u)
  BY <1>7, GoStarts, GoTInv
<1>8. CASE Wait(u)
  BY <1>8, WaitTInv
<1>9. CASE Merge(u)
  BY <1>9, MergeTInv
<1>10. CASE CopyBack(u)
  BY <1>10, CopyBackTInv
<1> QED BY <1>1, <1>2, <1>3, <1>4, <1>5, <1>6, <1>7, <1>8, <1>9, <1>10 DEF Step

(* At the beginning there is the call of main, for all of the input.       *)
LEMMA InitialCall ==
    ASSUME Init
    PROVE  /\ DOMAIN task = {main} /\ Fresh(task[main], 0, task[main].high)
           /\ task[main].high \in Nat /\ DOMAIN arr = 0 .. task[main].high - 1
           /\ arr \in [DOMAIN arr -> Int]
           /\ program \in {"selection", "merge", "quick", "threads"}
<1>1. PICK sort \in Sorts :
          /\ program = sort.program
          /\ arr = [k \in 0 .. Len(sort.input) - 1 |-> sort.input[k + 1]]
          /\ task = [t \in {main} |-> Call(0, Len(sort.input))]
  BY DEF Init
<1> DEFINE n == Len(sort.input)
           zero == 0
           c == Call(zero, n)
<1>2. /\ n \in Nat /\ program \in {"selection", "merge", "quick", "threads"}
      /\ sort.input \in Seq(Int)
  BY <1>1, SortAssumption
<1>3. DOMAIN arr = zero .. n - 1 /\ arr \in [DOMAIN arr -> Int]
  <2>1. \A k \in 0 .. n - 1 : sort.input[k + 1] \in Int
    BY <1>2
  <2> QED BY <1>1, <2>1
<1>4. zero \in Nat /\ zero <= n
  BY <1>2
<1>5. DOMAIN task = {main} /\ task[main] = c
  BY <1>1
<1>6. Fresh(c, zero, n)
  <2> HIDE DEF zero, n
  <2> QED BY <1>3, <1>4, <1>2, NewCall
<1>7. task[main].high = n
  BY <1>5, <1>6 DEF Fresh
<1> QED BY <1>2, <1>3, <1>5, <1>6, <1>7

LEMMA InitialTInv ==
    ASSUME Init
    PROVE  TInv
<1> DEFINE n == task[main].high
<1>1. /\ DOMAIN task = {main} /\ Fresh(task[main], 0, n) /\ n \in Nat
      /\ DOMAIN arr = 0 .. n - 1 /\ arr \in [DOMAIN arr -> Int]
      /\ program \in {"selection", "merge", "quick", "threads"}
  BY InitialCall
<1>2. /\ task[main] \in Calls /\ task[main].pc = "start" /\ task[main].low = 0
      /\ task[main].i = 0 /\ task[main].j = 0 /\ task[main].out = <<>>
      /\ Len(task[main].before) = n - 0
  BY <1>1 DEF Fresh
<1>3. main \in Paths /\ \A k \in {1, 2} : Kid(main, k) # main
  <2>1. main \in Paths
    BY DEF main, Paths
  <2> QED BY <2>1, KidPath
<1>4. TypeOK
  <2>1. task \in [DOMAIN task -> Calls]
    <3>1. task = [t \in DOMAIN task |-> task[t]]
      BY DEF Init
    <3> QED BY <1>1, <1>2, <3>1
  <2> QED BY <1>1, <1>3, <2>1 DEF TypeOK
<1>5. Kids(main) = {}
  BY <1>1, <1>3 DEF Kids
<1>6. Tree
  <2>1. \A t \in Paths : ~ Under(t, main)
    BY UnderOrder
  <2> QED BY <1>1, <1>3, <2>1 DEF Tree
<1>7. Indices(main)
  <2>1. Slice(main) = DOMAIN arr
    BY <1>1, <1>2 DEF Slice
  <2> QED BY <1>1, <1>2, <2>1 DEF Indices, Size
<1>8. Places(main) /\ Started(main) /\ PartsOf(main) /\ Awaited(main)
  BY <1>2, <1>5 DEF Places, Started, PartsOf, Awaited
<1> QED BY <1>1, <1>4, <1>6, <1>7, <1>8 DEF TInv

(* The calls form a tree, in every reachable state.                        *)
THEOREM TreeInvariance == Spec => []TInv
<1>1. ASSUME TInv, [Next]_vars PROVE TInv'
  <2>1. CASE UNCHANGED vars
    BY <1>1, <2>1 DEF vars, TInv, TypeOK, Tree, Indices, Cut, Places, Started, PartsOf, Awaited,
                      Kids, Pending, Slice, Size
  <2>2. CASE Exited
    BY <1>1, <2>1, <2>2 DEF Exited
  <2>3. CASE \E t \in DOMAIN task : Step(t)
    BY <1>1, <2>3, StepTInv
  <2> QED BY <1>1, <2>1, <2>2, <2>3 DEF Next, Exited
<1> QED BY <1>1, InitialTInv, PTL DEF Spec

(* No two calls touch the same element: the slices of two calls that are   *)
(* not one under the other are disjoint, and a call waits for those under  *)
(* it.  (sort.go:49-56, 86-95)                                             *)
LEMMA NoneShared ==
    ASSUME TInv
    PROVE  NoSharedElements
<1> SUFFICES ASSUME NEW t \in DOMAIN task, NEW u \in DOMAIN task, t # u,
                    NEW x \in Touched(t), x \in Touched(u)
             PROVE  FALSE
  BY DEF NoSharedElements
<1>1. /\ x \in Slice(t) /\ x \in Slice(u)
      /\ task[t].pc \in {"start", "sort", "partition", "merge", "copy"}
      /\ task[u].pc \in {"start", "sort", "partition", "merge", "copy"}
  BY DEF Touched
<1>2. Under(t, u) \/ Under(u, t)
  BY <1>1, SharedSlice
<1> QED BY <1>1, <1>2 DEF TInv, Tree

THEOREM NoDataRace == Spec => []NoSharedElements
  BY TreeInvariance, NoneShared, PTL
-----------------------------------------------------------------------------
(* f has on S the values of g, in another order.                           *)
Bijects(p, S, T) ==
    /\ p \in [S -> T] /\ \A x, y \in S : p[x] = p[y] => x = y
    /\ \A y \in T : \E x \in S : p[x] = y
Permutes(f, g, S) == \E p : Bijects(p, S, S) /\ \A x \in S : f[x] = g[p[x]]
Ascending(f, S) == \A x, y \in S : x < y => f[x] <= f[y]
(* out has the values f has on M.                                          *)
Gathered(out, f, M) ==
    \E p : Bijects(p, 1 .. Len(out), M) /\ \A k \in 1 .. Len(out) : out[k] = f[p[k]]

Before(t) == [x \in Slice(t) |-> task[t].before[x - task[t].low + 1]]
Out(t) == [x \in Slice(t) |-> task[t].out[x - task[t].low + 1]]

(* The slice as it was divided: with what the calls were given.            *)
Held(t) ==
    [x \in Slice(t) |->
        IF 1 \in Kids(t) /\ x < task[t].cut[1] THEN Before(Kid(t, 1))[x]
        ELSE IF 2 \in Kids(t) /\ x >= task[t].cut[2] THEN Before(Kid(t, 2))[x]
        ELSE arr[x]]

(* What is merged so far.                                                  *)
Merged(t) == task[t].low .. task[t].i - 1 \cup task[t].cut[1] .. task[t].j - 1

Unordered(t) == program = "threads" /\ Overflows(Range(task[t].before))
PartUnordered(t) == program = "threads" /\ \E k \in Kids(t) : Unordered(Kid(t, k))

(* Its caller still needs the result of the call.                          *)
Live(t) == t # main => task[Front(t)].pc \in {"go", "wait"}

Sorted(t) ==
    IF program = "threads" /\ t = main
    THEN /\ Len(task[t].out) = Size(t) /\ Permutes(Out(t), Before(t), Slice(t))
         /\ PartUnordered(t) \/ Ascending(Out(t), Slice(t))
    ELSE /\ Permutes(arr, Before(t), Slice(t))
         /\ (program = "threads" /\ Unordered(t)) \/ Ascending(arr, Slice(t))

Selecting(t) ==
    /\ Permutes(arr, Before(t), Slice(t))
    /\ \A p \in task[t].low .. task[t].i - 1, q \in Slice(t) : p < q => arr[p] <= arr[q]

Partitioning(t) ==
    LET hi == task[t].high - 1 IN
    /\ Permutes(arr, Before(t), Slice(t))
    /\ \A x \in task[t].low .. task[t].j - 1 : arr[x] <= arr[hi]
    /\ \A x \in task[t].j .. task[t].i - 1 : arr[x] >= arr[hi]

Divided(t) ==
    /\ Permutes(Held(t), Before(t), Slice(t))
    /\ program = "quick" =>
           /\ \A x \in task[t].low .. task[t].cut[1] - 1 : Held(t)[x] <= arr[task[t].cut[1]]
           /\ \A x \in task[t].cut[2] .. task[t].high - 1 : Held(t)[x] >= arr[task[t].cut[1]]

Merging(t) ==
    LET out == task[t].out
        left == task[t].i .. task[t].cut[1] - 1
        right == task[t].j .. task[t].high - 1
    IN /\ Permutes(arr, Before(t), Slice(t))
       /\ Gathered(out, arr, Merged(t))
       /\ PartUnordered(t) \/ /\ Ascending(arr, left) /\ Ascending(arr, right)
                              /\ Ascending(out, 1 .. Len(out))
                              /\ \A k \in 1 .. Len(out), x \in left \cup right : out[k] <= arr[x]

Copying(t) ==
    /\ Len(task[t].out) = Size(t) /\ Permutes(Out(t), Before(t), Slice(t))
    /\ Ascending(Out(t), Slice(t))
    /\ \A x \in task[t].low .. task[t].i - 1 : arr[x] = Out(t)[x]

Data(t) ==
    /\ task[t].pc = "start" => \A x \in Slice(t) : arr[x] = Before(t)[x]
    /\ task[t].pc = "sort" => Selecting(t)
    /\ task[t].pc = "partition" => Partitioning(t)
    /\ task[t].pc \in {"go", "wait"} => Divided(t)
    /\ task[t].pc = "merge" => Merging(t)
    /\ task[t].pc = "copy" => Copying(t)
    /\ task[t].pc = "done" /\ Live(t) => Sorted(t)

IInv == TInv /\ \A t \in DOMAIN task : Data(t)
-----------------------------------------------------------------------------
(* Permutations.                                                           *)
LEMMA PermSame ==
    ASSUME NEW S, NEW f, NEW g, \A x \in S : f[x] = g[x]
    PROVE  Permutes(f, g, S)
<1> DEFINE p == [x \in S |-> x]
<1>1. Bijects(p, S, S) /\ \A x \in S : f[x] = g[p[x]]
  BY DEF Bijects
<1> HIDE DEF p
<1> QED BY <1>1 DEF Permutes

LEMMA PermTrans ==
    ASSUME NEW S, NEW f, NEW g, NEW h, Permutes(f, g, S), Permutes(g, h, S)
    PROVE  Permutes(f, h, S)
<1>1. PICK p : Bijects(p, S, S) /\ \A x \in S : f[x] = g[p[x]]
  BY DEF Permutes
<1>2. PICK q : Bijects(q, S, S) /\ \A x \in S : g[x] = h[q[x]]
  BY DEF Permutes
<1> DEFINE r == [x \in S |-> q[p[x]]]
<1>3. \A x \in S : p[x] \in S /\ q[x] \in S
  BY <1>1, <1>2 DEF Bijects
<1>4. Bijects(r, S, S)
  <2>1. r \in [S -> S]
    BY <1>3
  <2>2. \A x, y \in S : r[x] = r[y] => x = y
    BY <1>1, <1>2, <1>3 DEF Bijects
  <2>3. ASSUME NEW y \in S PROVE \E x \in S : r[x] = y
    <3>1. PICK z \in S : q[z] = y
      BY <1>2 DEF Bijects
    <3>2. PICK x \in S : p[x] = z
      BY <1>1 DEF Bijects
    <3> QED BY <3>1, <3>2
  <2> QED BY <2>1, <2>2, <2>3 DEF Bijects
<1>5. \A x \in S : f[x] = h[r[x]]
  BY <1>1, <1>2, <1>3
<1> HIDE DEF r
<1> QED BY <1>4, <1>5 DEF Permutes

(* Two values are swapped.                                                 *)
LEMMA PermSwap ==
    ASSUME NEW S, NEW f, NEW g, NEW h, NEW a \in S, NEW b \in S, Permutes(f, h, S),
           \A x \in S : g[x] = IF x = a THEN f[b] ELSE IF x = b THEN f[a] ELSE f[x]
    PROVE  Permutes(g, h, S)
<1> DEFINE p == [x \in S |-> IF x = a THEN b ELSE IF x = b THEN a ELSE x]
<1>1. Bijects(p, S, S)
  <2>1. p \in [S -> S] /\ \A x \in S : p[p[x]] = x
    OBVIOUS
  <2> HIDE DEF p
  <2>2. \A x, y \in S : p[x] = p[y] => x = y
    BY <2>1
  <2>3. \A y \in S : \E x \in S : p[x] = y
    BY <2>1
  <2> QED BY <2>1, <2>2, <2>3 DEF Bijects
<1>2. \A x \in S : g[x] = f[p[x]]
  OBVIOUS
<1> HIDE DEF p
<1>3. Permutes(g, f, S)
  BY <1>1, <1>2 DEF Permutes
<1> QED BY <1>3, PermTrans

(* Of two sets that share nothing.                                         *)
LEMMA PermJoin ==
    ASSUME NEW S, NEW T, NEW f, NEW g, Permutes(f, g, S), Permutes(f, g, T),
           \A x \in S : x \notin T
    PROVE  Permutes(f, g, S \cup T)
<1>1. PICK p : Bijects(p, S, S) /\ \A x \in S : f[x] = g[p[x]]
  BY DEF Permutes
<1>2. PICK q : Bijects(q, T, T) /\ \A x \in T : f[x] = g[q[x]]
  BY DEF Permutes
<1> DEFINE r == [x \in S \cup T |-> IF x \in S THEN p[x] ELSE q[x]]
<1>3. (\A x \in S : p[x] \in S) /\ (\A x \in T : q[x] \in T)
  BY <1>1, <1>2 DEF Bijects
<1>4. (\A x \in S : r[x] = p[x]) /\ (\A x \in T : r[x] = q[x])
  OBVIOUS
<1>5. r \in [S \cup T -> S \cup T]
  BY <1>3
<1> HIDE DEF r
<1>6. Bijects(r, S \cup T, S \cup T)
  <2>1. ASSUME NEW x \in S \cup T, NEW y \in S \cup T, r[x] = r[y] PROVE x = y
    <3>1. CASE x \in S /\ y \in S
      BY <1>1, <1>4, <2>1, <3>1 DEF Bijects
    <3>2. CASE x \in T /\ y \in T
      BY <1>2, <1>4, <2>1, <3>2 DEF Bijects
    <3>3. CASE (x \in S /\ y \in T) \/ (x \in T /\ y \in S)
      BY <1>3, <1>4, <2>1, <3>3
    <3> QED BY <3>1, <3>2, <3>3
  <2>2. ASSUME NEW y \in S \cup T PROVE \E x \in S \cup T : r[x] = y
    <3>1. CASE y \in S
      BY <1>1, <1>4, <3>1 DEF Bijects
    <3>2. CASE y \in T
      BY <1>2, <1>4, <3>2 DEF Bijects
    <3> QED BY <3>1, <3>2
  <2> QED BY <1>5, <2>1, <2>2 DEF Bijects
<1>7. \A x \in S \cup T : f[x] = g[r[x]]
  BY <1>1, <1>2, <1>4
<1> QED BY <1>6, <1>7 DEF Permutes

(* Its values are values of the other.                                     *)
LEMMA PermValue ==
    ASSUME NEW S, NEW f, NEW g, Permutes(f, g, S), NEW x \in S
    PROVE  \E y \in S : f[x] = g[y]
  BY DEF Permutes, Bijects

LEMMA PermAgree ==
    ASSUME NEW S, NEW f, NEW g, NEW ff, NEW gg, Permutes(f, g, S),
           \A x \in S : ff[x] = f[x], \A x \in S : gg[x] = g[x]
    PROVE  Permutes(ff, gg, S)
<1>1. PICK p : Bijects(p, S, S) /\ \A x \in S : f[x] = g[p[x]]
  BY DEF Permutes
<1>2. \A x \in S : ff[x] = gg[p[x]]
  BY <1>1 DEF Bijects
<1> QED BY <1>1, <1>2 DEF Permutes
-----------------------------------------------------------------------------
(* What a step of u leaves of another call t.                              *)
Same(t) ==
    /\ program' = program /\ Kids(t)' = Kids(t)
    /\ task'[t].pc = task[t].pc /\ task'[t].low = task[t].low /\ task'[t].high = task[t].high
    /\ task'[t].i = task[t].i /\ task'[t].j = task[t].j /\ task'[t].cut = task[t].cut
    /\ task'[t].out = task[t].out /\ task'[t].before = task[t].before
    /\ \A k \in Kids(t) :
           /\ task'[Kid(t, k)].low = task[Kid(t, k)].low
           /\ task'[Kid(t, k)].high = task[Kid(t, k)].high
           /\ task'[Kid(t, k)].before = task[Kid(t, k)].before

LEMMA MovesSame ==
    ASSUME NEW u, Moves(u), NEW t \in DOMAIN task, t # u, Kids(t)' = Kids(t)
    PROVE  Same(t)
<1>1. \A k \in Kids(t) : Kid(t, k) \in DOMAIN task
  BY DEF Kids
<1> QED BY <1>1 DEF Moves, Same

LEMMA SameViews ==
    ASSUME NEW t, Same(t)
    PROVE  /\ Slice(t)' = Slice(t) /\ Size(t)' = Size(t) /\ Merged(t)' = Merged(t)
           /\ Before(t)' = Before(t) /\ Out(t)' = Out(t)
           /\ Unordered(t)' = Unordered(t) /\ PartUnordered(t)' = PartUnordered(t)
           /\ \A k \in Kids(t) : Before(Kid(t, k))' = Before(Kid(t, k))
<1>1. \A k \in Kids(t) : Unordered(Kid(t, k))' = Unordered(Kid(t, k))
  BY DEF Same, Unordered
<1>2. PartUnordered(t)' = PartUnordered(t)
  BY <1>1 DEF Same, PartUnordered
<1>3. Slice(t)' = Slice(t) /\ Size(t)' = Size(t) /\ Merged(t)' = Merged(t)
  BY DEF Same, Slice, Size, Merged
<1>4. Before(t)' = Before(t) /\ Out(t)' = Out(t)
  BY <1>3 DEF Same, Before, Out
<1>5. Unordered(t)' = Unordered(t)
  BY DEF Same, Unordered
<1>6. \A k \in Kids(t) : Before(Kid(t, k))' = Before(Kid(t, k))
  BY DEF Same, Before, Slice
<1> QED BY <1>2, <1>3, <1>4, <1>5, <1>6

(* A call whose result is needed after the step was needed before.         *)
LEMMA LiveBefore ==
    ASSUME TInv, NEW u, Moves(u), NEW t \in DOMAIN task, Live(t)'
    PROVE  Live(t)
<1> SUFFICES ASSUME t # main PROVE task[Front(t)].pc \in {"go", "wait"}
  BY DEF Live
<1> DEFINE p == Front(t)
<1>1. t \in Paths
  BY DEF TInv, TypeOK
<1>2. PICK k \in {1, 2} : p \in Paths /\ t = Kid(p, k)
  BY <1>1, EveryKid
<1>3. Under(p, t)
  BY <1>2, UnderKid
<1>4. p \in DOMAIN task
  BY <1>2, <1>3 DEF TInv, Tree
<1>5. task'[p].pc \in {"go", "wait"}
  BY DEF Live
<1>6. CASE p # u
  BY <1>4, <1>5, <1>6 DEF Moves
<1>7. CASE p = u
  <2>1. task[u].pc \in {"start", "partition", "go", "wait"}
    BY <1>5, <1>7 DEF Moves
  <2>2. Kids(u) # {} /\ Started(u)
    BY <1>2, <1>4, <1>7 DEF Kids, TInv
  <2> QED BY <1>7, <2>1, <2>2 DEF Started
<1> QED BY <1>6, <1>7

(* The elements of another call that works, or is still needed, stay.      *)
LEMMA SliceKept ==
    ASSUME TInv, NEW u, Moves(u), NEW t \in DOMAIN task, t # u,
           task[t].pc \notin {"go", "wait"}, task[t].pc = "done" => Live(t)',
           NEW x \in Slice(t)
    PROVE  arr'[x] = arr[x]
<1> SUFFICES ASSUME arr'[x] # arr[x] PROVE FALSE
  OBVIOUS
<1>1. x \in DOMAIN arr
  BY DEF TInv, Indices
<1>2. /\ u \in DOMAIN task /\ x \in Slice(u)
      /\ task[u].pc \in {"start", "sort", "partition", "copy"}
  BY <1>1 DEF Moves
<1>3. ~ Under(t, u)
  BY <1>2 DEF TInv, Tree
<1>4. Under(u, t)
  BY <1>2, <1>3, SharedSlice
<1>5. task[t].pc = "done" /\ Live(t)'
  BY <1>2, <1>4 DEF TInv, Tree
<1>6. task[u].pc = "copy"
  <2>1. PICK k \in Kids(u) : t = Kid(u, k) \/ Under(Kid(u, k), t)
    BY <1>2, <1>4, UnderPart
  <2> QED BY <1>2, <2>1 DEF TInv, Started
<1>7. task'[u].pc \in {"copy", "done"}
  BY <1>6 DEF Moves
<1>8. t \in Paths /\ u \in Paths /\ t # main
  <2>1. t \in Paths /\ u \in Paths
    BY <1>2 DEF TInv, TypeOK
  <2> QED BY <1>4, <2>1, UnderOrder
<1> DEFINE p == Front(t)
<1>9. PICK k \in {1, 2} : p \in Paths /\ t = Kid(p, k)
  BY <1>8, EveryKid
<1>10. u = p \/ Under(u, p)
  BY <1>4, <1>8, <1>9, UnderKid
<1>11. task'[p].pc \in {"go", "wait"}
  BY <1>5, <1>8 DEF Live
<1>12. CASE u = p
  BY <1>7, <1>11, <1>12
<1>13. CASE Under(u, p)
  <2>1. p \in DOMAIN task
    <3>1. Under(p, t)
      BY <1>9, UnderKid
    <3> QED BY <1>9, <3>1 DEF TInv, Tree
  <2>2. task[p].pc = "done"
    BY <1>2, <1>6, <1>13, <2>1 DEF TInv, Tree
  <2>3. p # u
    BY <1>8, <1>13, UnderOrder
  <2> QED BY <1>11, <2>1, <2>2, <2>3 DEF Moves
<1> QED BY <1>10, <1>12, <1>13

(* A caller that waits keeps what it held, whatever its parts do.          *)
LEMMA HeldKept ==
    ASSUME TInv, NEW u, Moves(u), NEW t \in DOMAIN task, t # u, Same(t), Cut(t),
           task[t].pc \in {"go", "wait"}
    PROVE  /\ Held(t)' = Held(t)
           /\ program = "quick" => arr'[task[t].cut[1]] = arr[task[t].cut[1]]
<1> DEFINE low == task[t].low
           high == task[t].high
           c1 == task[t].cut[1]
           c2 == task[t].cut[2]
<1>1. low \in Nat /\ high \in Nat /\ c1 \in Nat /\ c2 \in Nat /\ Slice(t) = low .. high - 1
  BY DEF TInv, TypeOK, Calls, Slice
<1>2. low <= c1 /\ c2 <= high /\ (program = "quick" => c2 = c1 + 1)
  BY DEF Cut
<1>3. Slice(t)' = Slice(t) /\ \A k \in Kids(t) : Before(Kid(t, k))' = Before(Kid(t, k))
  BY SameViews
<1>4. ASSUME NEW x \in Slice(t), ~ (1 \in Kids(t) /\ x < c1), ~ (2 \in Kids(t) /\ x >= c2)
      PROVE  arr'[x] = arr[x]
  <2> SUFFICES ASSUME arr'[x] # arr[x] PROVE FALSE
    OBVIOUS
  <2>1. x \in DOMAIN arr
    BY DEF TInv, Indices
  <2>2. /\ u \in DOMAIN task /\ x \in Slice(u)
        /\ task[u].pc \in {"start", "sort", "partition", "copy"}
    BY <2>1 DEF Moves
  <2>3. ~ Under(u, t)
    BY <2>2 DEF TInv, Tree
  <2>4. Under(t, u)
    BY <2>2, <2>3, SharedSlice
  <2>5. PICK k \in Kids(t) : u = Kid(t, k) \/ Under(Kid(t, k), u)
    BY <2>2, <2>4, UnderPart
  <2> DEFINE c == Kid(t, k)
  <2>6. c \in DOMAIN task /\ k \in {1, 2}
    BY DEF Kids
  <2>7. /\ task[c].low = (IF k = 1 THEN low ELSE c2)
        /\ task[c].high = (IF k = 1 THEN c1 ELSE high)
    BY DEF TInv, PartsOf
  <2> HIDE DEF c
  <2>8. /\ task[c].low \in Nat /\ task[c].high \in Nat
        /\ task[u].low \in Nat /\ task[u].high \in Nat
    BY <2>2, <2>6 DEF TInv, TypeOK, Calls
  <2>9. task[c].low <= task[u].low /\ task[u].high <= task[c].high
    BY <2>2, <2>5, <2>6, <2>8 DEF TInv, Tree, c
  <2>10. x \in Int /\ task[c].low <= x /\ x < task[c].high
    BY <2>2, <2>8, <2>9 DEF Slice
  <2> HIDE DEF c1, c2, low, high
  <2> QED BY <1>1, <1>4, <2>6, <2>7, <2>10
<1>5. Held(t)' = Held(t)
  <2> DEFINE F(x) == IF 1 \in Kids(t) /\ x < c1 THEN Before(Kid(t, 1))[x]
                     ELSE IF 2 \in Kids(t) /\ x >= c2 THEN Before(Kid(t, 2))[x]
                     ELSE arr[x]
             G(x) == IF 1 \in Kids(t) /\ x < c1 THEN Before(Kid(t, 1))[x]
                     ELSE IF 2 \in Kids(t) /\ x >= c2 THEN Before(Kid(t, 2))[x]
                     ELSE arr'[x]
  <2>1. \A x \in Slice(t) : F(x) = G(x)
    BY <1>4
  <2>2. Held(t) = [x \in Slice(t) |-> F(x)]
    BY DEF Held
  <2>3. Held(t)' = [x \in Slice(t) |-> G(x)]
    <3>1. Kids(t)' = Kids(t) /\ task'[t].cut = task[t].cut
      BY DEF Same
    <3> QED BY <1>3, <3>1 DEF Held
  <2> HIDE DEF F, G
  <2> QED BY <2>1, <2>2, <2>3
<1>6. ASSUME program = "quick" PROVE arr'[c1] = arr[c1]
  <2>1. c1 \in Slice(t) /\ ~ (c1 < c1) /\ ~ (c1 >= c2)
    BY <1>1, <1>2, <1>6
  <2> HIDE DEF c1, c2
  <2> QED BY <1>4, <2>1
<1> QED BY <1>5, <1>6

(* So what holds of the data of another call stays true.                   *)
LEMMA OthersData ==
    ASSUME TInv, NEW u, Moves(u), NEW t \in DOMAIN task, t # u, Kids(t)' = Kids(t), Data(t)
    PROVE  Data(t)'
<1> DEFINE a == task[t]
           b == task'[t]
           S == Slice(t)
<1>1. Same(t)
  BY MovesSame
<1>2. /\ program' = program /\ b.pc = a.pc /\ b.low = a.low /\ b.high = a.high
      /\ b.i = a.i /\ b.j = a.j /\ b.cut = a.cut /\ b.out = a.out /\ b.before = a.before
  BY <1>1 DEF Same
<1>3. /\ S' = S /\ Size(t)' = Size(t) /\ Merged(t)' = Merged(t)
      /\ Before(t)' = Before(t) /\ Out(t)' = Out(t)
      /\ Unordered(t)' = Unordered(t) /\ PartUnordered(t)' = PartUnordered(t)
  BY <1>1, SameViews
<1>4. /\ a \in Calls /\ Indices(t) /\ S = a.low .. a.high - 1
  BY DEF TInv, TypeOK, Slice
<1>5. a.low \in Nat /\ a.high \in Nat /\ a.i \in Nat /\ a.j \in Nat /\ a.cut \in Nat \X Nat
  BY <1>4 DEF Calls
<1> DEFINE Kept == \A x \in S : arr'[x] = arr[x]
<1>6. a.pc \notin {"go", "wait", "done"} => Kept
  BY SliceKept
<1>7. a.pc = "done" /\ Live(t)' => Kept /\ Live(t)
  BY SliceKept, LiveBefore
<1> HIDE DEF a, b, S
<1>8. ASSUME Kept, Permutes(arr, Before(t), S) PROVE Permutes(arr', Before(t)', S')
  BY <1>3, <1>8, PermAgree
<1>9. ASSUME b.pc = "start" PROVE \A x \in S' : arr'[x] = Before(t)'[x]
  <2>1. \A x \in S : arr[x] = Before(t)[x]
    BY <1>2, <1>9 DEF Data, a, S
  <2> QED BY <1>2, <1>3, <1>6, <1>9, <2>1
<1>10. ASSUME b.pc = "sort" PROVE Selecting(t)'
  <2>1. Selecting(t) /\ Kept
    BY <1>2, <1>6, <1>10 DEF Data, a
  <2>2. a.low .. a.i - 1 \subseteq S
    BY <1>2, <1>4, <1>5, <1>10 DEF Indices, a
  <2>3. \A p \in a.low .. a.i - 1, q \in S : p < q => arr[p] <= arr[q]
    BY <2>1 DEF Selecting, a, S
  <2>4. \A p \in a.low .. a.i - 1, q \in S : p < q => arr'[p] <= arr'[q]
    BY <2>1, <2>2, <2>3
  <2>5. Permutes(arr', Before(t)', S')
    BY <1>8, <2>1 DEF Selecting, S
  <2> QED BY <1>2, <1>3, <2>4, <2>5 DEF Selecting, a, b, S
<1>11. ASSUME b.pc = "partition" PROVE Partitioning(t)'
  <2>1. Partitioning(t) /\ Kept
    BY <1>2, <1>6, <1>11 DEF Data, a
  <2>2. /\ a.low .. a.j - 1 \subseteq S /\ a.j .. a.i - 1 \subseteq S /\ a.high - 1 \in S
    BY <1>2, <1>4, <1>5, <1>11 DEF Indices, a
  <2>3. /\ \A x \in a.low .. a.j - 1 : arr[x] <= arr[a.high - 1]
        /\ \A x \in a.j .. a.i - 1 : arr[x] >= arr[a.high - 1]
    BY <2>1 DEF Partitioning, a
  <2>4. /\ \A x \in a.low .. a.j - 1 : arr'[x] <= arr'[a.high - 1]
        /\ \A x \in a.j .. a.i - 1 : arr'[x] >= arr'[a.high - 1]
    BY <2>1, <2>2, <2>3
  <2>5. Permutes(arr', Before(t)', S')
    BY <1>8, <2>1 DEF Partitioning, S
  <2> QED BY <1>2, <1>3, <2>4, <2>5 DEF Partitioning, a, b, S
<1>12. ASSUME b.pc \in {"go", "wait"} PROVE Divided(t)'
  <2>1. Divided(t)
    BY <1>2, <1>12 DEF Data, a
  <2>2. Cut(t)
    BY <1>2, <1>4, <1>12 DEF Indices, a
  <2>3. Held(t)' = Held(t) /\ (program = "quick" => arr'[a.cut[1]] = arr[a.cut[1]])
    BY <1>1, <1>2, <1>12, <2>2, HeldKept DEF a
  <2> QED BY <1>2, <1>3, <2>1, <2>3 DEF Divided, a, b, S
<1>13. ASSUME b.pc = "merge" PROVE Merging(t)'
  <2> DEFINE out == a.out
             left == a.i .. a.cut[1] - 1
             right == a.j .. a.high - 1
             M == Merged(t)
  <2>1. Merging(t) /\ Kept
    BY <1>2, <1>6, <1>13 DEF Data, a
  <2>2. left \subseteq S /\ right \subseteq S /\ M \subseteq S
    <3>1. /\ a.cut[1] \in Nat /\ a.low <= a.i /\ a.i <= a.cut[1]
          /\ a.cut[1] <= a.j /\ a.j <= a.high
      BY <1>2, <1>4, <1>5, <1>13 DEF Indices, a
    <3>2. M = a.low .. a.i - 1 \cup a.cut[1] .. a.j - 1
      BY DEF Merged, a
    <3> DEFINE low == a.low
               i == a.i
               c == a.cut[1]
               j == a.j
               high == a.high
    <3>3. /\ low \in Nat /\ i \in Nat /\ c \in Nat /\ j \in Nat /\ high \in Nat
          /\ low <= i /\ i <= c /\ c <= j /\ j <= high /\ S = low .. high - 1
      BY <1>4, <1>5, <3>1
    <3>4. /\ low .. i - 1 \subseteq S /\ c .. j - 1 \subseteq S
          /\ i .. c - 1 \subseteq S /\ j .. high - 1 \subseteq S
      <4> HIDE DEF low, i, c, j, high
      <4> QED BY <3>3
    <3>5. M \subseteq S
      <4> HIDE DEF M
      <4> QED BY <3>2, <3>4
    <3>6. left \subseteq S /\ right \subseteq S
      BY <3>4
    <3> QED BY <3>5, <3>6
  <2>3. /\ Permutes(arr, Before(t), S) /\ Gathered(out, arr, M)
        /\ PartUnordered(t) \/ /\ Ascending(arr, left) /\ Ascending(arr, right)
                               /\ Ascending(out, 1 .. Len(out))
                               /\ \A k \in 1 .. Len(out) :
                                      \A x \in left \cup right : out[k] <= arr[x]
    BY <2>1 DEF Merging, a, S
  <2> HIDE DEF left, right, M, out
  <2>4. Permutes(arr', Before(t)', S')
    BY <1>8, <2>1, <2>3
  <2>5. Gathered(out, arr', M)
    <3>1. PICK p : Bijects(p, 1 .. Len(out), M) /\ \A k \in 1 .. Len(out) : out[k] = arr[p[k]]
      BY <2>3 DEF Gathered
    <3>2. \A k \in 1 .. Len(out) : p[k] \in S
      BY <2>2, <3>1 DEF Bijects
    <3> QED BY <2>1, <3>1, <3>2 DEF Gathered
  <2>6. PartUnordered(t) \/ /\ Ascending(arr', left) /\ Ascending(arr', right)
                            /\ Ascending(out, 1 .. Len(out))
                            /\ \A k \in 1 .. Len(out) :
                                   \A x \in left \cup right : out[k] <= arr'[x]
    <3>1. \A x \in left \cup right : arr'[x] = arr[x]
      BY <2>1, <2>2
    <3> QED BY <2>3, <3>1 DEF Ascending
  <2> QED BY <1>2, <1>3, <2>4, <2>5, <2>6 DEF Merging, a, b, S, left, right, M, out
<1>14. ASSUME b.pc = "copy" PROVE Copying(t)'
  <2>1. Copying(t) /\ Kept
    BY <1>2, <1>6, <1>14 DEF Data, a
  <2>2. a.low .. a.i - 1 \subseteq S
    BY <1>2, <1>4, <1>5, <1>14 DEF Indices, a
  <2>3. /\ Len(a.out) = Size(t) /\ Permutes(Out(t), Before(t), S)
        /\ Ascending(Out(t), S) /\ \A x \in a.low .. a.i - 1 : arr[x] = Out(t)[x]
    BY <2>1 DEF Copying, a, S
  <2>4. \A x \in a.low .. a.i - 1 : arr'[x] = Out(t)[x]
    BY <2>1, <2>2, <2>3
  <2> QED BY <1>2, <1>3, <2>3, <2>4 DEF Copying, a, b, S
<1>15. ASSUME b.pc = "done", Live(t)' PROVE Sorted(t)'
  <2>1. Sorted(t) /\ Kept
    BY <1>2, <1>7, <1>15 DEF Data, a
  <2>2. CASE program = "threads" /\ t = main
    BY <1>2, <1>3, <2>1, <2>2 DEF Sorted, a, b, S
  <2>3. CASE ~ (program = "threads" /\ t = main)
    <3>1. Permutes(arr, Before(t), S)
          /\ ((program = "threads" /\ Unordered(t)) \/ Ascending(arr, S))
      BY <2>1, <2>3 DEF Sorted, S
    <3>2. Permutes(arr', Before(t)', S')
      BY <1>8, <2>1, <3>1
    <3>3. Ascending(arr, S) => Ascending(arr', S)
      BY <2>1 DEF Ascending
    <3> QED BY <1>2, <1>3, <2>3, <3>1, <3>2, <3>3 DEF Sorted, S
  <2> QED BY <2>2, <2>3
<1> QED BY <1>9, <1>10, <1>11, <1>12, <1>13, <1>14, <1>15 DEF Data, b, S
-----------------------------------------------------------------------------
LEMMA OwnViews ==
    ASSUME NEW u \in DOMAIN task, Moves(u)
    PROVE  /\ task'[u].low = task[u].low /\ task'[u].high = task[u].high
           /\ task'[u].before = task[u].before /\ program' = program
           /\ Slice(u)' = Slice(u) /\ Size(u)' = Size(u) /\ Before(u)' = Before(u)
           /\ Unordered(u)' = Unordered(u)
  BY DEF Moves, Slice, Size, Before, Unordered

(* The array is an ascending permutation of what it was.                   *)
LEMMA SortedNow ==
    ASSUME NEW u \in DOMAIN task, Moves(u), program # "threads" \/ u # main,
           task'[u].pc = "done", Permutes(arr', Before(u), Slice(u)),
           (program = "threads" /\ Unordered(u)) \/ Ascending(arr', Slice(u))
    PROVE  Data(u)'
<1>1. Sorted(u)'
  BY OwnViews DEF Sorted
<1> QED BY <1>1 DEF Data

LEMMA SortShortData ==
    ASSUME IInv, NEW u \in DOMAIN task, SortShort(u)
    PROVE  Data(u)'
<1>1. /\ TInv /\ Data(u) /\ task[u].pc = "start" /\ Indices(u)
  BY DEF IInv, TInv, SortShort
<1>2. /\ Moves(u) /\ arr' = arr /\ task'[u] = [task[u] EXCEPT !.pc = "sort"]
      /\ task[u] \in Calls
  BY <1>1, SortShortTInv DEF TInv, TypeOK
<1>3. task'[u].pc = "sort" /\ task'[u].i = task[u].low
  BY <1>1, <1>2 DEF Indices, Calls
<1>4. Permutes(arr, Before(u), Slice(u))
  BY <1>1, PermSame DEF Data
<1>5. task[u].low .. task'[u].i - 1 = {}
  BY <1>1, <1>3, Span
<1>6. Selecting(u)'
  BY <1>2, <1>4, <1>5, OwnViews DEF Selecting
<1> QED BY <1>3, <1>6 DEF Data

LEMMA SelectMinimumData ==
    ASSUME IInv, NEW u \in DOMAIN task, SelectMinimum(u)
    PROVE  Data(u)'
<1> DEFINE S == Slice(u)
           i == task[u].i
           low == task[u].low
           high == task[u].high
<1>1. TInv /\ Data(u) /\ task[u].pc = "sort" /\ Indices(u) /\ Places(u) /\ task[u] \in Calls
  BY DEF IInv, TInv, TypeOK, SelectMinimum
<1>2. Selecting(u) /\ program # "threads"
  BY <1>1 DEF Data, Places
<1>3. /\ Permutes(arr, Before(u), S)
      /\ \A p \in low .. i - 1, q \in S : p < q => arr[p] <= arr[q]
  BY <1>2 DEF Selecting
<1>4. /\ low \in Nat /\ high \in Nat /\ i \in Nat /\ low <= i /\ i <= high
      /\ S = low .. high - 1 /\ S \subseteq DOMAIN arr /\ \A x \in S : arr[x] \in Int
  BY <1>1, Span DEF Indices
<1>5. Moves(u)
  BY <1>1, SelectMinimumTInv
<1>6. CASE /\ i = high /\ arr' = arr
           /\ task'[u] = [task[u] EXCEPT !.pc = "done"]
  <2>1. task'[u].pc = "done"
    BY <1>1, <1>6 DEF Calls
  <2>2. Ascending(arr, S)
    BY <1>3, <1>4, <1>6 DEF Ascending
  <2> HIDE DEF i, high
  <2> QED BY <1>2, <1>3, <1>5, <1>6, <2>1, <2>2, SortedNow
<1>7. ASSUME NEW p \in S, i \in S, task'[u] = [task[u] EXCEPT !.i = i + 1],
             Least(p, i, high - 1),
             \A x \in DOMAIN arr :
                 arr'[x] = IF x = i THEN arr[p] ELSE IF x = p THEN arr[i] ELSE arr[x]
      PROVE  Data(u)'
  <2>1. task'[u].pc = "sort" /\ task'[u].i = i + 1
    <3> DEFINE j == i + 1
    <3>1. task'[u] = [task[u] EXCEPT !.i = j] /\ j \in Nat
      BY <1>4, <1>7
    <3> HIDE DEF j
    <3>2. task'[u].pc = "sort" /\ task'[u].i = j
      BY <1>1, <3>1 DEF Calls
    <3> QED BY <3>2 DEF j
  <2> HIDE DEF S, i, low, high
  <2>2. Permutes(arr', Before(u), S)
    <3>1. \A x \in S : arr'[x] = IF x = i THEN arr[p] ELSE IF x = p THEN arr[i] ELSE arr[x]
      BY <1>4, <1>7
    <3> QED BY <1>3, <1>7, <3>1, PermSwap
  <2>3. p \in i .. high - 1 /\ \A q \in i .. high - 1 : arr[p] <= arr[q]
    BY <1>7 DEF Least
  <2>4. ASSUME NEW a \in low .. i, NEW q \in S, a < q PROVE arr'[a] <= arr'[q]
    <3>1. a \in S /\ a \in DOMAIN arr /\ q \in DOMAIN arr
      BY <1>4, <1>7
    <3>2. CASE a = i
      <4>1. q \in i .. high - 1 /\ arr'[a] = arr[p] /\ i \in i .. high - 1
        BY <1>4, <1>7, <2>4, <3>1, <3>2
      <4>2. arr'[q] = arr[i] \/ arr'[q] = arr[q]
        BY <1>7, <2>4, <3>1, <3>2
      <4> QED BY <2>3, <4>1, <4>2
    <3>3. CASE a # i
      <4>1. a \in low .. i - 1 /\ a < i /\ a # p /\ a < p
        BY <1>4, <2>3, <3>3
      <4>2. arr'[a] = arr[a]
        BY <1>7, <3>1, <4>1
      <4>3. arr'[q] = arr[p] \/ arr'[q] = arr[i] \/ arr'[q] = arr[q]
        BY <1>7, <3>1
      <4> QED BY <1>3, <1>7, <2>4, <4>1, <4>2, <4>3
    <3> QED BY <3>2, <3>3
  <2>5. /\ task'[u].low = low /\ Slice(u)' = S /\ Before(u)' = Before(u)
        /\ task'[u].i - 1 = i
    BY <1>4, <1>5, <2>1, OwnViews DEF S, low
  <2>6. Selecting(u)'
    BY <2>2, <2>4, <2>5 DEF Selecting
  <2> QED BY <2>1, <2>6 DEF Data
<1> QED BY <1>1, <1>6, <1>7, SelectMinimumTInv

(* The elements as the call got them.                                      *)
LEMMA AsGiven ==
    ASSUME TInv, NEW u \in DOMAIN task, \A x \in Slice(u) : arr[x] = Before(u)[x]
    PROVE  {arr[k] : k \in Slice(u)} = Range(task[u].before)
<1> DEFINE low == task[u].low
           high == task[u].high
           b == task[u].before
           S == Slice(u)
<1>1. /\ low \in Nat /\ high \in Nat /\ low <= high /\ S = low .. high - 1
      /\ b \in Seq(Int) /\ Len(b) = high - low
  BY Span
<1>2. \A x \in S : Before(u)[x] = b[x - low + 1]
  BY DEF Before
<1>3. DOMAIN b = 1 .. high - low
  BY <1>1
<1> HIDE DEF low, high, b, S
<1>4. ASSUME NEW k \in S PROVE arr[k] \in Range(b)
  <2>1. k - low + 1 \in DOMAIN b
    BY <1>1, <1>3
  <2> QED BY <1>2, <2>1 DEF Range, S
<1>5. ASSUME NEW n \in DOMAIN b PROVE \E k \in S : arr[k] = b[n]
  <2> DEFINE k == low + n - 1
  <2>1. k \in S /\ k - low + 1 = n
    BY <1>1, <1>3
  <2> HIDE DEF k
  <2> QED BY <1>2, <2>1 DEF S
<1> QED BY <1>4, <1>5 DEF Range, b, S

(* cmp is a difference as long as nothing overflows.                       *)
LEMMA RunnerData ==
    ASSUME IInv, NEW u \in DOMAIN task, runner(u)
    PROVE  Data(u)'
<1> DEFINE S == Slice(u)
<1>1. TInv /\ Data(u)
  BY DEF IInv
<1>2. PICK order \in [S -> S] :
         /\ \A p, q \in S : p # q => order[p] # order[q]
         /\ \A x \in S : arr'[x] = arr[order[x]]
         /\ \A p, q \in S : p < q =>
                \/ Overflows({arr[k] : k \in S})
                \/ cmp(arr'[p], arr'[q]) <= 0
  BY <1>1, RunnerTInv
<1>3. /\ Moves(u) /\ task[u].pc = "start" /\ program = "threads" /\ u # main
      /\ task'[u] = [task[u] EXCEPT !.pc = "done"] /\ task[u] \in Calls
  BY <1>1, RunnerTInv DEF TInv, TypeOK
<1>4. task'[u].pc = "done"
  BY <1>3 DEF Calls
<1>5. \A x \in S : arr[x] = Before(u)[x]
  BY <1>1, <1>3 DEF Data
<1>6. /\ \A x \in S : arr[x] \in Int
      /\ S = task[u].low .. task[u].high - 1 /\ task[u].low \in Nat /\ task[u].high \in Nat
  BY <1>1, Span
<1>7. Permutes(arr', Before(u), S)
  <2>1. order \in Injection(S, S)
    BY <1>2 DEF Injection, IsInjective
  <2>2. IsFiniteSet(S)
    <3> DEFINE low == task[u].low
               last == task[u].high - 1
    <3>1. low \in Int /\ last \in Int /\ S = low .. last
      BY <1>6
    <3> HIDE DEF low, last, S
    <3> QED BY ONLY <3>1, FS_Interval
  <2>3. order \in Surjection(S, S)
    <3> HIDE DEF S
    <3> QED BY <2>1, <2>2, FS_Injection
  <2>4. Bijects(order, S, S)
    BY <1>2, <2>3 DEF Bijects, Surjection
  <2>5. \A x \in S : arr'[x] = Before(u)[order[x]]
    BY <1>2, <1>5
  <2> QED BY <2>4, <2>5 DEF Permutes
<1>8. Unordered(u) \/ Ascending(arr', S)
  <2> DEFINE V == {arr[k] : k \in S}
  <2>1. V = Range(task[u].before)
    BY <1>1, <1>5, AsGiven
  <2>2. CASE Overflows(V)
    BY <1>3, <2>1, <2>2 DEF Unordered
  <2>3. CASE ~ Overflows(V)
    <3>1. ASSUME NEW p \in S, NEW q \in S, p < q PROVE arr'[p] <= arr'[q]
      <4>1. arr'[p] \in V /\ arr'[q] \in V /\ arr'[p] \in Int /\ arr'[q] \in Int
        BY <1>2, <1>6
      <4>2. cmp(arr'[p], arr'[q]) = arr'[p] - arr'[q]
        <5> HIDE DEF V
        <5> QED BY <2>3, <4>1 DEF Overflows
      <4>3. cmp(arr'[p], arr'[q]) <= 0
        BY <1>2, <2>3, <3>1
      <4> QED BY <4>1, <4>2, <4>3
    <3> QED BY <3>1 DEF Ascending
  <2> QED BY <2>2, <2>3
<1> QED BY <1>3, <1>4, <1>7, <1>8, SortedNow

LEMMA HalveData ==
    ASSUME IInv, NEW u \in DOMAIN task, Halve(u)
    PROVE  Data(u)'
<1>1. TInv /\ Data(u)
  BY DEF IInv
<1>2. /\ Moves(u) /\ Tells(u) /\ arr' = arr /\ task[u].pc = "start"
      /\ program # "quick" /\ task'[u].pc = "go" /\ Kids(u) = {}
  BY <1>1, HalveTInv
<1>3. Kids(u)' = {}
  BY <1>2 DEF Tells, Kids
<1>4. Slice(u)' = Slice(u) /\ Before(u)' = Before(u) /\ program' = program
  BY <1>2, OwnViews
<1>5. Held(u)' = [x \in Slice(u) |-> arr[x]]
  BY <1>2, <1>3, <1>4 DEF Held
<1>6. Permutes(Held(u)', Before(u)', Slice(u)')
  <2> DEFINE f == Held(u)'
  <2>1. \A x \in Slice(u) : f[x] = Before(u)[x]
    BY <1>1, <1>2, <1>5 DEF Data
  <2> HIDE DEF f
  <2>2. Permutes(f, Before(u), Slice(u))
    BY <2>1, PermSame
  <2> QED BY <2>2, <1>4 DEF f
<1>7. Divided(u)'
  BY <1>2, <1>4, <1>6 DEF Divided
<1> QED BY <1>2, <1>7 DEF Data

LEMMA ChoosePivotData ==
    ASSUME IInv, NEW u \in DOMAIN task, ChoosePivot(u)
    PROVE  Data(u)'
<1> DEFINE S == Slice(u)
           hi == task[u].high - 1
<1>1. TInv /\ Data(u) /\ Indices(u) /\ task[u] \in Calls
  BY DEF IInv, TInv, TypeOK
<1>2. PICK pivot \in S : \A x \in DOMAIN arr :
          arr'[x] = IF x = hi THEN arr[pivot] ELSE IF x = pivot THEN arr[hi] ELSE arr[x]
  BY <1>1, ChoosePivotTInv
<1>3. /\ Moves(u) /\ task[u].pc = "start" /\ hi \in S
      /\ task'[u] = [task[u] EXCEPT !.pc = "partition"]
  BY <1>1, ChoosePivotTInv
<1>4. /\ task'[u].pc = "partition" /\ task'[u].i = task[u].low /\ task'[u].j = task[u].low
  BY <1>1, <1>3 DEF Calls, Indices
<1>5. S \subseteq DOMAIN arr /\ task[u].low \in Nat
  BY <1>1, Span
<1>6. Permutes(arr, Before(u), S)
  BY <1>1, <1>3, PermSame DEF Data
<1> HIDE DEF S, hi
<1>7. Permutes(arr', Before(u), S)
  <2>1. \A x \in S :
          arr'[x] = IF x = hi THEN arr[pivot] ELSE IF x = pivot THEN arr[hi] ELSE arr[x]
    BY <1>2, <1>5
  <2> QED BY <1>3, <1>6, <2>1, PermSwap
<1>8. /\ task[u].low .. task'[u].j - 1 = {} /\ task'[u].j .. task'[u].i - 1 = {}
  BY <1>4, <1>5
<1>9. task'[u].low = task[u].low /\ Slice(u)' = S /\ Before(u)' = Before(u)
  BY <1>3, OwnViews DEF S
<1>10. Partitioning(u)'
  BY <1>7, <1>8, <1>9 DEF Partitioning
<1> QED BY <1>4, <1>10 DEF Data

LEMMA PartitionData ==
    ASSUME IInv, NEW u \in DOMAIN task, Partition(u)
    PROVE  Data(u)'
<1> DEFINE S == Slice(u)
           low == task[u].low
           i == task[u].i
           lo == task[u].j
           high == task[u].high
           hi == high - 1
<1>1. TInv /\ Data(u) /\ Indices(u) /\ task[u].pc = "partition"
  BY DEF IInv, TInv, Partition
<1>2. /\ Permutes(arr, Before(u), S)
      /\ \A x \in low .. lo - 1 : arr[x] <= arr[hi]
      /\ \A x \in lo .. i - 1 : arr[x] >= arr[hi]
  BY <1>1 DEF Data, Partitioning
<1>3. /\ low \in Nat /\ high \in Nat /\ i \in Nat /\ lo \in Nat /\ hi \in Int
      /\ low <= lo /\ lo <= i /\ lo < high /\ i <= high /\ hi = high - 1
      /\ S = low .. high - 1 /\ S \subseteq DOMAIN arr /\ \A x \in S : arr[x] \in Int
  BY <1>1, Span DEF Indices
<1>4. Moves(u) /\ Tells(u) /\ Kids(u) = {}
  BY <1>1, PartitionTInv
<1>5. /\ task'[u].low = low /\ task'[u].high = high /\ Slice(u)' = S
      /\ Before(u)' = Before(u)
  BY <1>4, OwnViews
<1>6. \/ /\ i \in S /\ lo \in S /\ hi \in S
         /\ task'[u].pc = "partition" /\ task'[u].i = i + 1
         /\ \/ /\ arr[i] < arr[hi] /\ task'[u].j = lo + 1
               /\ \A x \in DOMAIN arr :
                     arr'[x] = IF x = lo THEN arr[i] ELSE IF x = i THEN arr[lo] ELSE arr[x]
            \/ arr[i] >= arr[hi] /\ arr' = arr /\ task'[u].j = lo
      \/ /\ i = high /\ lo \in S /\ hi \in S
         /\ task'[u].pc = "go" /\ task'[u].cut = <<lo, lo + 1>>
         /\ \A x \in DOMAIN arr :
                arr'[x] = IF x = lo THEN arr[hi] ELSE IF x = hi THEN arr[lo] ELSE arr[x]
  BY <1>1, PartitionTInv
<1> HIDE DEF S, low, i, lo, high, hi
<1>7. ASSUME i \in S, lo \in S, hi \in S, task'[u].pc = "partition", task'[u].i = i + 1,
             arr[i] < arr[hi], task'[u].j = lo + 1,
             \A x \in DOMAIN arr :
                 arr'[x] = IF x = lo THEN arr[i] ELSE IF x = i THEN arr[lo] ELSE arr[x]
      PROVE  Data(u)'
  <2>1. \A x \in S : arr'[x] = IF x = lo THEN arr[i] ELSE IF x = i THEN arr[lo] ELSE arr[x]
    BY <1>3, <1>7
  <2>2. Permutes(arr', Before(u), S)
    BY <1>2, <1>7, <2>1, PermSwap
  <2>3. i # hi /\ lo # hi /\ arr'[hi] = arr[hi]
    BY <1>3, <1>7, <2>1
  <2>4. ASSUME NEW x \in low .. lo PROVE arr'[x] <= arr[hi]
    <3>1. x \in S
      BY <1>3, <1>7
    <3>2. CASE x = lo
      BY <1>3, <1>7, <2>1, <3>1, <3>2
    <3>3. CASE x # lo
      <4>1. x \in low .. lo - 1 /\ x # i
        BY <1>3, <3>3
      <4> QED BY <1>2, <2>1, <3>1, <3>3, <4>1
    <3> QED BY <3>2, <3>3
  <2>5. ASSUME NEW x \in lo + 1 .. i PROVE arr'[x] >= arr[hi]
    <3>1. x \in S /\ x # lo
      BY <1>3, <1>7
    <3>2. CASE x = i
      <4>1. lo \in lo .. i - 1
        BY <1>3, <3>2
      <4> QED BY <1>2, <2>1, <3>1, <3>2, <4>1
    <3>3. CASE x # i
      <4>1. x \in lo .. i - 1
        BY <1>3, <3>3
      <4> QED BY <1>2, <2>1, <3>1, <3>3, <4>1
    <3> QED BY <3>2, <3>3
  <2>6. task'[u].j - 1 = lo /\ task'[u].i - 1 = i /\ task'[u].high - 1 = hi
    BY <1>3, <1>5, <1>7
  <2>7. Partitioning(u)'
    BY <1>5, <1>7, <2>2, <2>3, <2>4, <2>5, <2>6 DEF Partitioning
  <2> QED BY <1>7, <2>7 DEF Data
<1>8. ASSUME i \in S, lo \in S, hi \in S, task'[u].pc = "partition", task'[u].i = i + 1,
             arr[i] >= arr[hi], arr' = arr, task'[u].j = lo
      PROVE  Data(u)'
  <2>1. task'[u].i - 1 = i /\ task'[u].high - 1 = hi
    BY <1>3, <1>5, <1>8
  <2>2. ASSUME NEW x \in lo .. i PROVE arr[x] >= arr[hi]
    <3>1. CASE x = i
      BY <1>8, <3>1
    <3>2. CASE x # i
      <4>1. x \in lo .. i - 1
        BY <1>3, <3>2
      <4> QED BY <1>2, <4>1
    <3> QED BY <3>1, <3>2
  <2>3. Partitioning(u)'
    BY <1>2, <1>5, <1>8, <2>1, <2>2 DEF Partitioning
  <2> QED BY <1>8, <2>3 DEF Data
<1>9. ASSUME i = high, lo \in S, hi \in S, task'[u].pc = "go", task'[u].cut = <<lo, lo + 1>>,
             \A x \in DOMAIN arr :
                 arr'[x] = IF x = lo THEN arr[hi] ELSE IF x = hi THEN arr[lo] ELSE arr[x]
      PROVE  Data(u)'
  <2>1. \A x \in S : arr'[x] = IF x = lo THEN arr[hi] ELSE IF x = hi THEN arr[lo] ELSE arr[x]
    BY <1>3, <1>9
  <2>2. Permutes(arr', Before(u), S)
    BY <1>2, <1>9, <2>1, PermSwap
  <2>3. Kids(u)' = {}
    BY <1>4 DEF Tells, Kids
  <2> DEFINE f == Held(u)'
  <2>4. f = [x \in S |-> arr'[x]]
    BY <1>5, <2>3 DEF Held
  <2> HIDE DEF f
  <2>5. Permutes(f, Before(u), S)
    BY <2>2, <2>4, PermAgree
  <2>6. ASSUME NEW x \in low .. lo - 1 PROVE f[x] <= arr'[lo]
    <3>1. x \in S /\ x # lo /\ x # hi /\ lo \in S
      BY <1>3, <1>9
    <3> QED BY <1>2, <2>1, <2>4, <3>1
  <2>7. ASSUME NEW x \in lo + 1 .. high - 1 PROVE f[x] >= arr'[lo]
    <3>1. x \in S /\ x # lo /\ x \in lo .. i - 1 /\ lo \in lo .. i - 1
      BY <1>3, <1>9
    <3>2. arr'[lo] = arr[hi] /\ f[x] = arr'[x]
      BY <1>9, <2>1, <2>4, <3>1
    <3>3. arr'[x] = arr[lo] \/ arr'[x] = arr[x]
      BY <2>1, <3>1
    <3> QED BY <1>2, <3>1, <3>2, <3>3
  <2>8. task'[u].cut[1] = lo /\ task'[u].cut[2] = lo + 1
    BY <1>9
  <2>9. Divided(u)'
    BY <1>5, <2>5, <2>6, <2>7, <2>8 DEF Divided, f
  <2> QED BY <1>9, <2>9 DEF Data
<1> QED BY <1>6, <1>7, <1>8, <1>9

(* A call that starts a part holds what it held: the part was given what   *)
(* was in the array.                                                       *)
LEMMA GoData ==
    ASSUME IInv, NEW u \in DOMAIN task, NEW k, Starts(u, k), NewPart(u, k), Moves(u)
    PROVE  Data(u)' /\ Data(Kid(u, k))'
<1> DEFINE S == Slice(u)
           c == Kid(u, k)
           c1 == task[u].cut[1]
           c2 == task[u].cut[2]
<1>1. TInv /\ Data(u)
  BY DEF IInv
<1>2. /\ task[u].pc = "go" /\ Cut(u) /\ k \in {1, 2} /\ k \notin Kids(u) /\ Kids(u) \subseteq {1}
      /\ (k = 2 <=> 1 \in Kids(u))
      /\ DOMAIN task' = DOMAIN task \cup {c}
      /\ task'[u].pc = IF k = 2 THEN "wait" ELSE "go"
      /\ task'[u].cut = task[u].cut /\ arr' = arr /\ program' = program
      /\ \A t \in DOMAIN task \ {u} : task'[t] = task[t]
  BY DEF Starts
<1>3. Divided(u)
  BY <1>1, <1>2 DEF Data
<1>4. /\ Slice(u)' = S /\ Before(u)' = Before(u)
  BY OwnViews
<1>5. /\ u \in Paths /\ c \notin DOMAIN task /\ c # u
      /\ \A l \in {1, 2} : Kid(u, l) = c => l = k
  <2>1. u \in Paths
    BY <1>1 DEF TInv, TypeOK
  <2> QED BY <1>2, <2>1, KidPath, KidInjective DEF Kids
<1>6. /\ task'[c].pc = "start"
      /\ task'[c].low = (IF k = 1 THEN task[u].low ELSE c2)
      /\ task'[c].high = (IF k = 1 THEN c1 ELSE task[u].high)
      /\ \A x \in task'[c].low .. task'[c].high - 1 :
             task'[c].before[x - task'[c].low + 1] = arr[x]
  BY DEF NewPart
<1>7. /\ task[u].low \in Nat /\ task[u].high \in Nat /\ S = task[u].low .. task[u].high - 1
      /\ c1 \in Nat /\ c2 \in Nat
  BY <1>1, Span
<1> HIDE DEF S, c1, c2
<1>8. \A x \in Slice(c)' : Before(c)'[x] = arr[x]
  BY <1>6 DEF Slice, Before
<1>9. Data(c)'
  BY <1>2, <1>6, <1>8 DEF Data
<1>10. Kids(u)' = Kids(u) \cup {k}
  BY <1>2, <1>5 DEF Kids
<1>11. ASSUME NEW l \in Kids(u) PROVE Before(Kid(u, l))' = Before(Kid(u, l))
  <2>1. Kid(u, l) \in DOMAIN task \ {u}
    BY <1>1, PartsThere
  <2> QED BY <1>2, <2>1 DEF Before, Slice
<1>12. Slice(c)' = IF k = 1 THEN task[u].low .. c1 - 1 ELSE c2 .. task[u].high - 1
  BY <1>6 DEF Slice
<1>13. Held(u)' = Held(u)
  <2> DEFINE F(x) == IF 1 \in Kids(u) /\ x < c1 THEN Before(Kid(u, 1))[x]
                     ELSE IF 2 \in Kids(u) /\ x >= c2 THEN Before(Kid(u, 2))[x]
                     ELSE arr[x]
             G(x) == IF 1 \in Kids(u)' /\ x < c1 THEN Before(Kid(u, 1))'[x]
                     ELSE IF 2 \in Kids(u)' /\ x >= c2 THEN Before(Kid(u, 2))'[x]
                     ELSE arr[x]
  <2>1. Held(u) = [x \in S |-> F(x)]
    BY DEF Held, S, c1, c2
  <2>2. Held(u)' = [x \in S |-> G(x)]
    BY <1>2, <1>4 DEF Held, c1, c2
  <2>3. ASSUME NEW x \in S PROVE F(x) = G(x)
    <3>1. x \in Int
      BY <1>7
    <3>2. CASE k = 1
      <4>1. Kids(u) = {} /\ Kids(u)' = {1}
        BY <1>2, <1>10, <3>2
      <4>2. x < c1 => Before(Kid(u, 1))'[x] = arr[x]
        <5>1. x < c1 => x \in Slice(c)'
          BY <1>7, <1>12, <2>3, <3>1, <3>2
        <5> QED BY <1>8, <3>2, <5>1
      <4> QED BY <4>1, <4>2
    <3>3. CASE k = 2
      <4>1. Kids(u) = {1} /\ Kids(u)' = {1, 2}
        BY <1>2, <1>10, <3>3
      <4>2. x >= c2 => Before(Kid(u, 2))'[x] = arr[x]
        <5>1. x >= c2 => x \in Slice(c)'
          BY <1>7, <1>12, <2>3, <3>1, <3>3
        <5> QED BY <1>8, <3>3, <5>1
      <4>3. Before(Kid(u, 1))' = Before(Kid(u, 1))
        BY <1>11, <4>1
      <4> QED BY <4>1, <4>2, <4>3
    <3> QED BY <1>2, <3>2, <3>3
  <2> HIDE DEF F, G
  <2> QED BY <2>1, <2>2, <2>3
<1>14. Divided(u)'
  <2>1. task'[u].low = task[u].low /\ task'[u].high = task[u].high
    BY OwnViews
  <2> QED BY <1>2, <1>3, <1>4, <1>13, <2>1 DEF Divided, S
<1>15. task'[u].pc \in {"go", "wait"}
  BY <1>2
<1> QED BY <1>9, <1>14, <1>15 DEF Data

(* When both parts are through the array is a permutation of what was      *)
(* held, part by part, and the parts are in order.                         *)
LEMMA PartsSorted ==
    ASSUME IInv, NEW u \in DOMAIN task, task[u].pc = "wait", Cut(u), Kids(u) = {1, 2},
           \A k \in {1, 2} : task[Kid(u, k)].pc = "done",
           NEW low, low = task[u].low, NEW high, high = task[u].high,
           NEW c1, c1 = task[u].cut[1], NEW c2, c2 = task[u].cut[2]
    PROVE  /\ \A x \in low .. c1 - 1 : Held(u)[x] = Before(Kid(u, 1))[x]
           /\ \A x \in c2 .. high - 1 : Held(u)[x] = Before(Kid(u, 2))[x]
           /\ \A x \in Slice(u) : x >= c1 /\ x < c2 => Held(u)[x] = arr[x]
           /\ Permutes(arr, Held(u), low .. c1 - 1) /\ Permutes(arr, Held(u), c2 .. high - 1)
           /\ Permutes(arr, Before(u), Slice(u))
           /\ \/ PartUnordered(u)
              \/ Ascending(arr, low .. c1 - 1) /\ Ascending(arr, c2 .. high - 1)
           /\ low \in Nat /\ high \in Nat /\ c1 \in Nat /\ c2 \in Nat
           /\ low <= c1 /\ c1 <= c2 /\ c2 <= high /\ Slice(u) = low .. high - 1
<1> DEFINE L == low .. c1 - 1
           R == c2 .. high - 1
           M == c1 .. c2 - 1
           S == Slice(u)
<1>1. TInv
  BY DEF IInv
<1>2. /\ low \in Nat /\ high \in Nat /\ c1 \in Nat /\ c2 \in Nat /\ S = low .. high - 1
  BY <1>1, Span
<1>3. low <= c1 /\ c1 <= c2 /\ c2 <= high
  BY <1>2 DEF Cut
<1>4. S = L \cup (M \cup R) /\ L \subseteq S /\ R \subseteq S
  <2>1. L \subseteq S /\ M \subseteq S /\ R \subseteq S
    BY <1>2, <1>3
  <2>2. ASSUME NEW x \in S PROVE x \in L \cup (M \cup R)
    BY <1>2, <1>3
  <2> HIDE DEF L, M, R, S
  <2> QED BY <2>1, <2>2
<1>5. /\ \A x \in L : x \notin M \cup R
      /\ \A x \in M : x \notin R
  BY <1>2, <1>3
<1>6. ASSUME NEW k \in {1, 2}
      PROVE  /\ Permutes(arr, Before(Kid(u, k)), Slice(Kid(u, k)))
             /\ (program = "threads" /\ Unordered(Kid(u, k))) \/ Ascending(arr, Slice(Kid(u, k)))
             /\ Slice(Kid(u, k)) = IF k = 1 THEN L ELSE R
  <2> DEFINE c == Kid(u, k)
  <2>1. c \in DOMAIN task /\ Front(c) = u /\ c # main /\ k \in Kids(u)
    BY <1>1, PartsThere
  <2>2. Live(c) /\ Data(c)
    BY <2>1 DEF Live, IInv
  <2>3. Sorted(c)
    BY <2>2 DEF Data
  <2>4. /\ task[c].low = IF k = 1 THEN task[u].low ELSE task[u].cut[2]
        /\ task[c].high = IF k = 1 THEN task[u].cut[1] ELSE task[u].high
    BY <1>1, <2>1 DEF TInv, PartsOf
  <2>5. Slice(c) = IF k = 1 THEN L ELSE R
    BY <2>4 DEF Slice
  <2> HIDE DEF c, L, R
  <2> QED BY <2>1, <2>3, <2>5 DEF Sorted, c
<1>7. Permutes(arr, Before(Kid(u, 1)), L) /\ Permutes(arr, Before(Kid(u, 2)), R)
  <2> HIDE DEF L, R
  <2> QED BY <1>6
<1>8. ASSUME NEW x \in S
      PROVE  Held(u)[x] = IF x < c1 THEN Before(Kid(u, 1))[x]
                          ELSE IF x >= c2 THEN Before(Kid(u, 2))[x] ELSE arr[x]
  BY DEF Held
<1>9. ASSUME NEW x \in L PROVE Held(u)[x] = Before(Kid(u, 1))[x]
  BY <1>2, <1>4, <1>8
<1>10. ASSUME NEW x \in R PROVE Held(u)[x] = Before(Kid(u, 2))[x]
  <2>1. x \in S /\ ~ (x < c1) /\ x >= c2
    BY <1>2, <1>3, <1>4
  <2> QED BY <1>8, <2>1
<1>11. ASSUME NEW x \in S, x >= c1, x < c2 PROVE Held(u)[x] = arr[x]
  <2>1. ~ (x < c1) /\ ~ (x >= c2)
    BY <1>2, <1>11
  <2> QED BY <1>8, <2>1
<1>12. Permutes(arr, Held(u), L) /\ Permutes(arr, Held(u), R)
  <2> HIDE DEF L, R
  <2> QED BY <1>7, <1>9, <1>10, PermAgree
<1>13. Permutes(arr, Held(u), M)
  <2>1. ASSUME NEW x \in M PROVE arr[x] = Held(u)[x]
    <3>1. x \in S /\ x >= c1 /\ x < c2
      BY <1>2, <1>3
    <3> QED BY <1>11, <3>1
  <2> HIDE DEF M
  <2> QED BY <2>1, PermSame
<1>14. Permutes(arr, Held(u), S)
  <2> HIDE DEF L, M, R, S
  <2>1. Permutes(arr, Held(u), M \cup R)
    BY <1>5, <1>12, <1>13, PermJoin
  <2>2. Permutes(arr, Held(u), L \cup (M \cup R))
    BY <1>5, <1>12, <2>1, PermJoin
  <2> QED BY <1>4, <2>2
<1>15. Permutes(arr, Before(u), S)
  <2>1. Permutes(Held(u), Before(u), S)
    BY DEF IInv, Data, Divided
  <2> HIDE DEF S
  <2> QED BY <1>14, <2>1, PermTrans
<1>16. PartUnordered(u) \/ (Ascending(arr, L) /\ Ascending(arr, R))
  <2> HIDE DEF L, R
  <2> QED BY <1>6 DEF PartUnordered
<1> QED BY <1>2, <1>3, <1>9, <1>10, <1>11, <1>12, <1>15, <1>16

LEMMA WaitData ==
    ASSUME IInv, NEW u \in DOMAIN task, Wait(u)
    PROVE  Data(u)'
<1> DEFINE S == Slice(u)
           low == task[u].low
           high == task[u].high
           c1 == task[u].cut[1]
           c2 == task[u].cut[2]
           H == Held(u)
           L == low .. c1 - 1
           R == c2 .. high - 1
<1>1. TInv /\ Data(u) /\ task[u].pc = "wait" /\ Places(u) /\ task[u] \in Calls
  BY DEF IInv, TInv, TypeOK, Wait
<1>2. /\ Moves(u) /\ Tells(u) /\ arr' = arr /\ Cut(u) /\ task[u].out = <<>>
      /\ \A k \in {1, 2} : k \in Kids(u) /\ task[Kid(u, k)].pc = "done"
      /\ \/ program = "quick" /\ task'[u] = [task[u] EXCEPT !.pc = "done"]
         \/ /\ program # "quick" /\ task'[u].pc = "merge" /\ task'[u].i = task[u].low
            /\ task'[u].j = task[u].cut[1] /\ task'[u].cut = task[u].cut
            /\ task'[u].out = <<>>
  BY <1>1, WaitTInv
<1>3. Kids(u) = {1, 2}
  BY <1>2 DEF Kids
<1>4. /\ \A x \in low .. c1 - 1 : H[x] = Before(Kid(u, 1))[x]
      /\ \A x \in c2 .. high - 1 : H[x] = Before(Kid(u, 2))[x]
      /\ Permutes(arr, H, low .. c1 - 1) /\ Permutes(arr, H, c2 .. high - 1)
      /\ Permutes(arr, Before(u), S)
      /\ PartUnordered(u) \/ (Ascending(arr, low .. c1 - 1) /\ Ascending(arr, c2 .. high - 1))
      /\ low \in Nat /\ high \in Nat /\ c1 \in Nat /\ c2 \in Nat
      /\ low <= c1 /\ c1 <= c2 /\ c2 <= high /\ S = low .. high - 1
  BY <1>1, <1>2, <1>3, PartsSorted
<1>5. CASE program = "quick"
  <2>1. task'[u].pc = "done"
    <3>1. task'[u] = [task[u] EXCEPT !.pc = "done"]
      BY <1>2, <1>5
    <3> QED BY <1>1, <3>1 DEF Calls
  <2>2. /\ \A x \in low .. c1 - 1 : H[x] <= arr[c1]
        /\ \A x \in c2 .. high - 1 : H[x] >= arr[c1]
        /\ c2 = c1 + 1
    BY <1>1, <1>2, <1>5 DEF Data, Divided, Cut
  <2>3. \A x \in S : arr[x] \in Int
    BY <1>1, Span
  <2> HIDE DEF S, low, high, c1, c2, H
  <2>4. ASSUME NEW x \in L PROVE arr[x] <= arr[c1]
    <3>1. Permutes(arr, H, L) /\ \A y \in L : H[y] <= arr[c1]
      BY <1>4, <2>2
    <3> HIDE DEF L
    <3>2. PICK y \in L : arr[x] = H[y]
      BY <3>1, PermValue
    <3> QED BY <3>1, <3>2
  <2>5. ASSUME NEW x \in R PROVE arr[x] >= arr[c1]
    <3>1. Permutes(arr, H, R) /\ \A y \in R : H[y] >= arr[c1]
      BY <1>4, <2>2
    <3> HIDE DEF R
    <3>2. PICK y \in R : arr[x] = H[y]
      BY <3>1, PermValue
    <3> QED BY <3>1, <3>2
  <2>6. Ascending(arr, low .. c1 - 1) /\ Ascending(arr, c2 .. high - 1)
    BY <1>4, <1>5 DEF PartUnordered
  <2>7. ASSUME NEW x \in S, NEW y \in S, x < y PROVE arr[x] <= arr[y]
    <3>1. x \in Int /\ y \in Int /\ c1 \in S /\ low <= x /\ y < high
      BY <1>4, <2>2
    <3>2. CASE y < c1
      <4>1. x \in low .. c1 - 1 /\ y \in low .. c1 - 1
        BY <1>4, <2>7, <3>1, <3>2
      <4> QED BY <2>6, <2>7, <4>1 DEF Ascending
    <3>3. CASE x > c1
      <4>1. x \in c2 .. high - 1 /\ y \in c2 .. high - 1
        BY <1>4, <2>2, <2>7, <3>1, <3>3
      <4> QED BY <2>6, <2>7, <4>1 DEF Ascending
    <3>4. CASE x <= c1 /\ y >= c1
      <4>1. x = c1 \/ x \in low .. c1 - 1
        BY <1>4, <3>1, <3>4
      <4>2. y = c1 \/ y \in c2 .. high - 1
        BY <1>4, <2>2, <3>1, <3>4
      <4>3. arr[x] <= arr[c1]
        BY <2>3, <2>4, <3>1, <4>1
      <4>4. arr[c1] <= arr[y]
        BY <2>3, <2>5, <3>1, <4>2
      <4> QED BY <2>3, <3>1, <4>3, <4>4
    <3> QED BY <1>4, <3>1, <3>2, <3>3, <3>4
  <2>8. Ascending(arr', S) /\ Permutes(arr', Before(u), S)
    BY <1>2, <1>4, <2>7 DEF Ascending
  <2> QED BY <1>2, <1>5, <2>1, <2>8, SortedNow DEF S
<1>6. CASE program # "quick"
  <2>1. /\ task'[u].pc = "merge" /\ task'[u].i = task[u].low
        /\ task'[u].j = task[u].cut[1] /\ task'[u].cut = task[u].cut
        /\ task'[u].out = <<>>
    BY <1>2, <1>6
  <2>2. /\ task'[u].low = low /\ task'[u].high = high /\ Slice(u)' = S
        /\ Before(u)' = Before(u) /\ program' = program
    BY <1>2, OwnViews
  <2>3. c2 = c1
    BY <1>2, <1>6 DEF Cut
  <2>4. PartUnordered(u)' = PartUnordered(u)
    <3>1. ASSUME NEW k \in Kids(u) PROVE Unordered(Kid(u, k))' = Unordered(Kid(u, k))
      <4>1. Kid(u, k) \in DOMAIN task
        BY <1>1, PartsThere
      <4> QED BY <1>2, <4>1, OwnViews DEF Moves, Unordered
    <3>2. Kids(u)' = Kids(u)
      BY <1>2 DEF Tells, Kids
    <3> QED BY <2>2, <3>1, <3>2 DEF PartUnordered
  <2> DEFINE out == << >>
             none == 1 .. 0
  <2>5. Merged(u)' = {} /\ 1 .. Len(out) = {}
    BY <1>4, <2>1, <2>2 DEF Merged
  <2>6. \E p : Bijects(p, {}, {})
    <3> DEFINE p == [x \in {} |-> x]
    <3>1. Bijects(p, {}, {})
      BY DEF Bijects
    <3> QED BY <3>1
  <2>7. Merging(u)'
    <3>1. task'[u].i .. task'[u].cut[1] - 1 = low .. c1 - 1
      BY <2>1
    <3>2. task'[u].j .. task'[u].high - 1 = c2 .. high - 1
      BY <2>1, <2>2, <2>3
    <3>3. task'[u].out = out
      BY <2>1
    <3> HIDE DEF out, S, low, high, c1, c2
    <3>4. Gathered(out, arr, {})
      BY <2>5, <2>6 DEF Gathered, out
    <3> QED BY <1>2, <1>4, <2>2, <2>4, <2>5, <3>1, <3>2, <3>3, <3>4 DEF Merging, Ascending
  <2> QED BY <2>1, <2>7 DEF Data
<1> QED BY <1>5, <1>6

(* One element is appended to what is merged.                              *)
LEMMA GatherOne ==
    ASSUME NEW out \in Seq(Int), NEW f, NEW M, Gathered(out, f, M), NEW x, x \notin M,
           NEW e \in Int, e = f[x]
    PROVE  Gathered(Append(out, e), f, M \cup {x})
<1> DEFINE n == Len(out)
           m == n + 1
           out2 == Append(out, e)
           N == M \cup {x}
<1>1. PICK p : Bijects(p, 1 .. n, M) /\ \A k \in 1 .. n : out[k] = f[p[k]]
  BY DEF Gathered
<1>2. /\ n \in Nat /\ Len(out2) = m /\ out2[m] = e /\ \A k \in 1 .. n : out2[k] = out[k]
      /\ \A k \in 1 .. m : k = m \/ k \in 1 .. n
      /\ m \in 1 .. m /\ m \notin 1 .. n /\ 1 .. n \subseteq 1 .. m
  OBVIOUS
<1> DEFINE q == [k \in 1 .. m |-> IF k = m THEN x ELSE p[k]]
<1>3. q[m] = x /\ (\A k \in 1 .. n : q[k] = p[k]) /\ DOMAIN q = 1 .. m
  BY <1>2
<1>4. q \in [1 .. m -> N]
  <2>1. \A k \in 1 .. n : p[k] \in M
    BY <1>1 DEF Bijects
  <2>2. \A k \in 1 .. m : (IF k = m THEN x ELSE p[k]) \in N
    BY <1>2, <2>1
  <2> HIDE DEF N, m
  <2> QED BY <2>2
<1> HIDE DEF q, m, n, out2
<1>5. Bijects(q, 1 .. m, N)
  <2>1. ASSUME NEW a \in 1 .. m, NEW b \in 1 .. m, q[a] = q[b] PROVE a = b
    <3>1. \A k \in 1 .. n : p[k] \in M
      BY <1>1 DEF Bijects
    <3>2. CASE a = m \/ b = m
      BY <1>2, <1>3, <2>1, <3>1, <3>2
    <3>3. CASE a # m /\ b # m
      BY <1>1, <1>2, <1>3, <2>1, <3>3 DEF Bijects
    <3> QED BY <3>2, <3>3
  <2>2. ASSUME NEW y \in N PROVE \E k \in 1 .. m : q[k] = y
    <3>1. CASE y = x
      BY <1>2, <1>3, <3>1
    <3>2. CASE y \in M
      BY <1>1, <1>2, <1>3, <3>2 DEF Bijects
    <3> QED BY <3>1, <3>2
  <2> HIDE DEF N
  <2> QED BY <1>4, <2>1, <2>2 DEF Bijects
<1>6. \A k \in 1 .. m : out2[k] = f[q[k]]
  BY <1>1, <1>2, <1>3
<1> HIDE DEF N
<1>7. Gathered(out2, f, N)
  BY <1>2, <1>5, <1>6 DEF Gathered
<1> QED BY <1>7 DEF out2, N

(* All of it is merged: a permutation of the slice.                        *)
LEMMA GatheredAll ==
    ASSUME NEW low \in Nat, NEW high \in Nat, low <= high,
           NEW S, S = low .. high - 1, NEW out \in Seq(Int), Len(out) = high - low,
           NEW f, Gathered(out, f, S), NEW g, g = [x \in S |-> out[x - low + 1]]
    PROVE  /\ Permutes(g, f, S)
           /\ Ascending(out, 1 .. Len(out)) => Ascending(g, S)
<1> DEFINE n == Len(out)
<1>1. PICK p : Bijects(p, 1 .. n, S) /\ \A k \in 1 .. n : out[k] = f[p[k]]
  BY DEF Gathered
<1> DEFINE q == [x \in S |-> p[x - low + 1]]
<1>2. \A x \in S : x - low + 1 \in 1 .. n /\ q[x] = p[x - low + 1] /\ g[x] = out[x - low + 1]
  OBVIOUS
<1>3. \A k \in 1 .. n : low + k - 1 \in S /\ (low + k - 1) - low + 1 = k
  OBVIOUS
<1>4. q \in [S -> S]
  <2>1. \A x \in S : p[x - low + 1] \in S
    BY <1>1, <1>2 DEF Bijects
  <2> HIDE DEF n
  <2> QED BY <2>1
<1>5. \A x, y \in S : x - low + 1 = y - low + 1 => x = y
  OBVIOUS
<1> HIDE DEF q, n
<1>6. Bijects(q, S, S)
  <2>1. \A x, y \in S : q[x] = q[y] => x = y
    BY <1>1, <1>2, <1>5 DEF Bijects
  <2>2. ASSUME NEW y \in S PROVE \E x \in S : q[x] = y
    <3>1. PICK k \in 1 .. n : p[k] = y
      BY <1>1 DEF Bijects
    <3>2. q[low + k - 1] = p[(low + k - 1) - low + 1]
      BY <1>2, <1>3
    <3> QED BY <1>3, <3>1, <3>2
  <2> QED BY <1>4, <2>1, <2>2 DEF Bijects
<1>7. \A x \in S : g[x] = f[q[x]]
  BY <1>1, <1>2
<1>8. Permutes(g, f, S)
  BY <1>6, <1>7 DEF Permutes
<1>9. ASSUME Ascending(out, 1 .. n) PROVE Ascending(g, S)
  <2>1. ASSUME NEW x \in S, NEW y \in S, x < y PROVE g[x] <= g[y]
    <3>1. x - low + 1 < y - low + 1
      BY <2>1
    <3> QED BY <1>2, <1>9, <3>1 DEF Ascending
  <2> QED BY <2>1 DEF Ascending
<1> QED BY <1>8, <1>9 DEF n

LEMMA AscendingPart ==
    ASSUME NEW f, NEW S, NEW T, T \subseteq S, Ascending(f, S)
    PROVE  Ascending(f, T)
  BY DEF Ascending

(* What is appended is the least of what is left.                          *)
LEMMA TakesLeast ==
    ASSUME NEW out \in Seq(Int), NEW f, NEW all, NEW rest, rest \subseteq all, NEW x \in all,
           \A y \in all : f[y] \in Int, \A y \in rest : f[x] <= f[y],
           Ascending(out, 1 .. Len(out)), \A k \in 1 .. Len(out) : \A y \in all : out[k] <= f[y],
           NEW e, e = f[x], NEW next, next = Append(out, e)
    PROVE  /\ Ascending(next, 1 .. Len(next))
           /\ \A k \in 1 .. Len(next) : \A y \in rest : next[k] <= f[y]
<1> DEFINE n == Len(out)
           m == n + 1
<1>1. /\ n \in Nat /\ Len(next) = m /\ next[m] = e /\ \A k \in 1 .. n : next[k] = out[k]
      /\ \A k \in 1 .. m : k = m \/ k \in 1 .. n
      /\ \A k \in 1 .. n : out[k] \in Int
  OBVIOUS
<1>2. e \in Int
  OBVIOUS
<1>3. ASSUME NEW a \in 1 .. m, NEW b \in 1 .. m, a < b PROVE next[a] <= next[b]
  <2>1. a \in 1 .. n
    BY <1>1, <1>3
  <2>2. CASE b \in 1 .. n
    BY <1>1, <1>3, <2>1, <2>2 DEF Ascending
  <2>3. CASE b = m
    BY <1>1, <2>1, <2>3
  <2> QED BY <1>1, <2>2, <2>3
<1>4. ASSUME NEW k \in 1 .. m, NEW y \in rest PROVE next[k] <= f[y]
  BY <1>1
<1> QED BY <1>1, <1>3, <1>4 DEF Ascending

(* One more element is merged.                                             *)
Left(t) == task[t].i .. task[t].cut[1] - 1
Right(t) == task[t].j .. task[t].high - 1
Takes(u, x) ==
    /\ task[u].pc = "merge" /\ task'[u].pc = "merge"
    /\ x \in Left(u) \cup Right(u) /\ Left(u) \cup Right(u) \subseteq Slice(u)
    /\ Left(u)' \subseteq Left(u) /\ Right(u)' \subseteq Right(u)
    /\ task'[u].out = Append(task[u].out, arr[x])
    /\ x \notin Merged(u) /\ Merged(u)' = Merged(u) \cup {x}
    /\ PartUnordered(u) \/ \A y \in Left(u)' \cup Right(u)' : arr[x] <= arr[y]

LEMMA MergeOn ==
    ASSUME IInv, NEW u \in DOMAIN task, Moves(u), Tells(u), arr' = arr, NEW x, Takes(u, x)
    PROVE  Data(u)'
<1> DEFINE S == Slice(u)
           left == Left(u)
           right == Right(u)
           left2 == Left(u)'
           right2 == Right(u)'
           M == Merged(u)
           out == task[u].out
           e == arr[x]
           next == Append(out, e)
           all == left \cup right
           rest == left2 \cup right2
<1>1. /\ TInv /\ Merging(u)
      /\ task[u].pc = "merge" /\ task'[u].pc = "merge"
      /\ x \in left \cup right /\ left \cup right \subseteq S
      /\ left2 \subseteq left /\ right2 \subseteq right
      /\ task'[u].out = next
      /\ x \notin M /\ Merged(u)' = M \cup {x}
      /\ PartUnordered(u) \/ \A y \in left2 \cup right2 : arr[x] <= arr[y]
  BY DEF IInv, Data, Takes
<1>2. out \in Seq(Int) /\ \A y \in S : arr[y] \in Int
  BY <1>1, Span
<1>3. /\ Permutes(arr, Before(u), S) /\ Gathered(out, arr, M)
      /\ PartUnordered(u) \/ /\ Ascending(arr, left) /\ Ascending(arr, right)
                             /\ Ascending(out, 1 .. Len(out))
                             /\ \A k \in 1 .. Len(out) : \A y \in all : out[k] <= arr[y]
  BY <1>1 DEF Merging, Left, Right
<1>4. Slice(u)' = S /\ Before(u)' = Before(u) /\ program' = program
  BY OwnViews
<1>5. PartUnordered(u)' = PartUnordered(u)
  <2>1. ASSUME NEW k \in Kids(u) PROVE Unordered(Kid(u, k))' = Unordered(Kid(u, k))
    <3>1. Kid(u, k) \in DOMAIN task
      BY <1>1, PartsThere
    <3> QED BY <3>1, OwnViews DEF Moves, Unordered
  <2>2. Kids(u)' = Kids(u)
    BY DEF Tells, Kids
  <2> QED BY <1>4, <2>1, <2>2 DEF PartUnordered
<1>6. x \in all /\ rest \subseteq all /\ all \subseteq S /\ e = arr[x] /\ e \in Int
  BY <1>1, <1>2
<1> HIDE DEF S, M, out, e, all, rest, left, right, left2, right2
<1>7. Gathered(next, arr, M \cup {x})
  BY <1>1, <1>2, <1>3, <1>6, GatherOne
<1>8. PartUnordered(u) \/ /\ Ascending(next, 1 .. Len(next))
                          /\ \A k \in 1 .. Len(next) : \A y \in rest : next[k] <= arr[y]
  <2> HIDE DEF next
  <2>1. \A y \in all : arr[y] \in Int
    BY <1>2, <1>6
  <2>2. CASE ~ PartUnordered(u)
    <3>1. \A y \in rest : arr[x] <= arr[y]
      BY <1>1, <2>2 DEF rest
    <3> QED BY <1>2, <1>3, <1>6, <2>1, <2>2, <3>1, TakesLeast DEF next
  <2> QED BY <2>2
<1>9. task'[u].out = next
  BY <1>1
<1> HIDE DEF next
<1>10. PartUnordered(u) \/ (Ascending(arr, left2) /\ Ascending(arr, right2))
  <2>1. /\ Ascending(arr, left) => Ascending(arr, left2)
        /\ Ascending(arr, right) => Ascending(arr, right2)
    BY <1>1, AscendingPart
  <2> QED BY <1>3, <2>1
<1>11. Gathered(next, arr, Merged(u)')
  BY <1>1, <1>7
<1>12. /\ left2 = task'[u].i .. task'[u].cut[1] - 1
       /\ right2 = task'[u].j .. task'[u].high - 1
  BY DEF left2, right2, Left, Right
<1>13. Merging(u)'
  BY <1>3, <1>4, <1>5, <1>8, <1>9, <1>10, <1>11, <1>12 DEF Merging, rest
<1> QED BY <1>1, <1>13 DEF Data

(* Everything is merged: result is the sorted slice.                       *)
LEMMA MergeEnds ==
    ASSUME IInv, NEW u \in DOMAIN task, task[u].pc = "merge", program # "quick",
           task[u].i = task[u].cut[1], task[u].j = task[u].high
    PROVE  /\ Len(task[u].out) = Size(u) /\ Permutes(Out(u), Before(u), Slice(u))
           /\ PartUnordered(u) \/ Ascending(Out(u), Slice(u))
<1> DEFINE S == Slice(u)
           low == task[u].low
           high == task[u].high
           out == task[u].out
           cut == task[u].cut[1]
<1>1. TInv /\ Merging(u) /\ Indices(u) /\ task[u].cut \in Nat \X Nat
  BY Span DEF IInv, Data, TInv
<1>2. /\ low \in Nat /\ high \in Nat /\ low <= high /\ S = low .. high - 1
      /\ out \in Seq(Int) /\ Size(u) = high - low /\ cut \in Nat
  BY <1>1, Span
<1>3. low <= cut /\ cut <= high /\ Len(out) = high - low
  BY <1>1, <1>2 DEF Indices
<1>4. Merged(u) = S
  <2>1. Merged(u) = low .. cut - 1 \cup cut .. high - 1
    BY DEF Merged
  <2> HIDE DEF low, cut, high, S
  <2>2. low .. cut - 1 \cup cut .. high - 1 = low .. high - 1
    BY <1>2, <1>3
  <2> QED BY <1>2, <2>1, <2>2
<1>5. /\ Permutes(arr, Before(u), S) /\ Gathered(out, arr, S)
      /\ PartUnordered(u) \/ Ascending(out, 1 .. Len(out))
  BY <1>1, <1>4 DEF Merging
<1>6. Out(u) = [x \in S |-> out[x - low + 1]]
  BY DEF Out
<1> HIDE DEF S, low, high, out, cut
<1>7. Permutes(Out(u), arr, S) /\ (Ascending(out, 1 .. Len(out)) => Ascending(Out(u), S))
  <2>1. low \in Nat /\ high \in Nat /\ low <= high /\ S = low .. high - 1
    BY <1>2
  <2>2. out \in Seq(Int) /\ Len(out) = high - low /\ Gathered(out, arr, S)
    BY <1>2, <1>3, <1>5
  <2> DEFINE g == Out(u)
  <2>3. g = [x \in S |-> out[x - low + 1]]
    BY <1>6
  <2> HIDE DEF g
  <2>4. Permutes(g, arr, S) /\ (Ascending(out, 1 .. Len(out)) => Ascending(g, S))
    BY ONLY <2>1, <2>2, <2>3, GatheredAll
  <2> QED BY <2>4 DEF g
<1>8. Permutes(Out(u), Before(u), S)
  BY <1>5, <1>7, PermTrans
<1> QED BY <1>2, <1>3, <1>5, <1>7, <1>8 DEF S, out

LEMMA MergeData ==
    ASSUME IInv, NEW u \in DOMAIN task, Merge(u)
    PROVE  Data(u)'
<1> DEFINE low == task[u].low
           lo1 == task[u].i
           hi1 == task[u].cut[1]
           lo2 == task[u].j
           hi2 == task[u].high
           left == lo1 .. hi1 - 1
           right == lo2 .. hi2 - 1
           left2 == task'[u].i .. task'[u].cut[1] - 1
           right2 == task'[u].j .. task'[u].high - 1
           S == Slice(u)
<1>1. TInv /\ Data(u) /\ Places(u) /\ task[u] \in Calls /\ Indices(u)
  BY DEF IInv, TInv, TypeOK
<1>2. /\ Moves(u) /\ Tells(u) /\ arr' = arr /\ task[u].pc = "merge" /\ program # "quick"
      /\ \/ /\ lo1 < hi1 /\ (lo2 < hi2 => arr[lo1] < arr[lo2])
            /\ task'[u].pc = "merge" /\ task'[u].out = Append(task[u].out, arr[lo1])
            /\ task'[u].i = lo1 + 1 /\ task'[u].j = lo2 /\ task'[u].cut = task[u].cut
         \/ /\ lo2 < hi2 /\ (lo1 < hi1 => arr[lo2] <= arr[lo1])
            /\ task'[u].pc = "merge" /\ task'[u].out = Append(task[u].out, arr[lo2])
            /\ task'[u].i = lo1 /\ task'[u].j = lo2 + 1 /\ task'[u].cut = task[u].cut
         \/ /\ lo1 = hi1 /\ lo2 = hi2 /\ program = "threads"
            /\ task'[u] = [task[u] EXCEPT !.pc = "done"]
         \/ /\ lo1 = hi1 /\ lo2 = hi2 /\ program = "merge" /\ task'[u].pc = "copy"
            /\ task'[u].i = task[u].low /\ task'[u].out = task[u].out
  BY <1>1, MergeTInv
<1>3. /\ low \in Nat /\ hi2 \in Nat /\ S = low .. hi2 - 1
      /\ lo1 \in Nat /\ lo2 \in Nat /\ hi1 \in Nat
      /\ low <= lo1 /\ lo1 <= hi1 /\ hi1 <= lo2 /\ lo2 <= hi2
  <2>1. task[u].cut \in Nat \X Nat
    BY <1>1, Span
  <2> QED BY <1>1, <1>2, <2>1, Span DEF Indices
<1>4. task'[u].low = low /\ task'[u].high = hi2
  BY <1>2, OwnViews
<1>5. Merged(u) = low .. lo1 - 1 \cup hi1 .. lo2 - 1 /\ Merging(u)
  BY <1>1, <1>2 DEF Merged, Data
<1>6. \A y \in S : arr[y] \in Int
  BY <1>1, Span
<1>7. PartUnordered(u) \/ (Ascending(arr, left) /\ Ascending(arr, right))
  <2>1. \/ PartUnordered(u)
        \/ /\ Ascending(arr, task[u].i .. task[u].cut[1] - 1)
           /\ Ascending(arr, task[u].j .. task[u].high - 1)
    BY <1>5 DEF Merging
  <2> QED BY <2>1
<1>8. left \cup right \subseteq S
  <2> HIDE DEF low, lo1, lo2, hi1, hi2, S
  <2> QED BY <1>3
<1>9. CASE /\ lo1 < hi1 /\ (lo2 < hi2 => arr[lo1] < arr[lo2])
           /\ task'[u].pc = "merge" /\ task'[u].out = Append(task[u].out, arr[lo1])
           /\ task'[u].i = lo1 + 1 /\ task'[u].j = lo2 /\ task'[u].cut = task[u].cut
  <2>1. left2 = lo1 + 1 .. hi1 - 1 /\ right2 = right
    BY <1>4, <1>9
  <2>2. Merged(u)' = low .. lo1 \cup hi1 .. lo2 - 1
    <3>1. task'[u].i - 1 = lo1
      BY <1>3, <1>9
    <3> QED BY <1>4, <1>9, <3>1 DEF Merged
  <2> HIDE DEF low, lo1, lo2, hi1, hi2, left2, right2
  <2>3. /\ lo1 \in left \cup right /\ left2 \subseteq left /\ right2 \subseteq right
        /\ lo1 \in S
    <3> QED BY <1>3, <1>9, <2>1
  <2>4. lo1 \notin Merged(u) /\ Merged(u)' = Merged(u) \cup {lo1}
    BY <1>3, <1>5, <1>9, <2>2
  <2>5. ASSUME ~ PartUnordered(u), NEW y \in left2 \cup right2 PROVE arr[lo1] <= arr[y]
    <3>1. arr[y] \in Int /\ arr[lo1] \in Int
      BY <1>6, <1>8, <2>3
    <3>2. CASE y \in left2
      <4>1. y \in left /\ lo1 \in left /\ lo1 < y
        BY <1>3, <1>9, <2>1, <3>2
      <4> HIDE DEF left, right, left2, right2
      <4> QED BY <1>7, <2>5, <4>1 DEF Ascending
    <3>3. CASE y \in right2
      <4>1. y \in right /\ lo2 \in right /\ (y = lo2 \/ lo2 < y) /\ lo2 < hi2
        BY <1>3, <2>1, <3>3
      <4>2. arr[lo2] <= arr[y] /\ arr[lo2] \in Int
        <5>1. arr[lo2] \in Int
          BY <1>6, <1>8, <4>1
        <5> HIDE DEF left, right, left2, right2
        <5> QED BY <1>7, <2>5, <3>1, <4>1, <5>1 DEF Ascending
      <4> QED BY <1>9, <3>1, <4>1, <4>2
    <3> QED BY <3>2, <3>3
  <2>6. /\ left = Left(u) /\ right = Right(u) /\ left2 = Left(u)' /\ right2 = Right(u)'
    BY DEF left, right, left2, right2, lo1, lo2, hi1, hi2, Left, Right
  <2> HIDE DEF left, right
  <2>7. Takes(u, lo1)
    BY <1>2, <1>8, <1>9, <2>3, <2>4, <2>5, <2>6 DEF Takes
  <2>8. Moves(u) /\ Tells(u) /\ arr' = arr
    BY <1>2
  <2> QED BY <2>7, <2>8, MergeOn
<1>10. CASE /\ lo2 < hi2 /\ (lo1 < hi1 => arr[lo2] <= arr[lo1])
            /\ task'[u].pc = "merge" /\ task'[u].out = Append(task[u].out, arr[lo2])
            /\ task'[u].i = lo1 /\ task'[u].j = lo2 + 1 /\ task'[u].cut = task[u].cut
  <2>1. left2 = left /\ right2 = lo2 + 1 .. hi2 - 1
    BY <1>4, <1>10
  <2>2. Merged(u)' = low .. lo1 - 1 \cup hi1 .. lo2
    <3>1. task'[u].j - 1 = lo2
      BY <1>3, <1>10
    <3> QED BY <1>4, <1>10, <3>1 DEF Merged
  <2> HIDE DEF low, lo1, lo2, hi1, hi2, left2, right2
  <2>3. /\ lo2 \in left \cup right /\ left2 \subseteq left /\ right2 \subseteq right
        /\ lo2 \in S
    <3> QED BY <1>3, <1>10, <2>1
  <2>4. lo2 \notin Merged(u) /\ Merged(u)' = Merged(u) \cup {lo2}
    BY <1>3, <1>5, <1>10, <2>2
  <2>5. ASSUME ~ PartUnordered(u), NEW y \in left2 \cup right2 PROVE arr[lo2] <= arr[y]
    <3>1. arr[y] \in Int /\ arr[lo2] \in Int
      BY <1>6, <1>8, <2>3
    <3>2. CASE y \in right2
      <4>1. y \in right /\ lo2 \in right /\ lo2 < y
        BY <1>3, <1>10, <2>1, <3>2
      <4> HIDE DEF left, right, left2, right2
      <4> QED BY <1>7, <2>5, <4>1 DEF Ascending
    <3>3. CASE y \in left2
      <4>1. y \in left /\ lo1 \in left /\ (y = lo1 \/ lo1 < y) /\ lo1 < hi1
        BY <1>3, <2>1, <3>3
      <4>2. arr[lo1] <= arr[y] /\ arr[lo1] \in Int
        <5>1. arr[lo1] \in Int
          BY <1>6, <1>8, <4>1
        <5> HIDE DEF left, right, left2, right2
        <5> QED BY <1>7, <2>5, <3>1, <4>1, <5>1 DEF Ascending
      <4> QED BY <1>10, <3>1, <4>1, <4>2
    <3> QED BY <3>2, <3>3
  <2>6. /\ left = Left(u) /\ right = Right(u) /\ left2 = Left(u)' /\ right2 = Right(u)'
    BY DEF left, right, left2, right2, lo1, lo2, hi1, hi2, Left, Right
  <2> HIDE DEF left, right
  <2>7. Takes(u, lo2)
    BY <1>2, <1>8, <1>10, <2>3, <2>4, <2>5, <2>6 DEF Takes
  <2>8. Moves(u) /\ Tells(u) /\ arr' = arr
    BY <1>2
  <2> QED BY <2>7, <2>8, MergeOn
<1>11. CASE /\ lo1 = hi1 /\ lo2 = hi2 /\ program = "threads"
            /\ task'[u] = [task[u] EXCEPT !.pc = "done"]
  <2>1. u = main
    BY <1>1, <1>2, <1>11 DEF Places
  <2>2. task'[u].pc = "done" /\ task'[u].out = task[u].out
    BY <1>1, <1>11 DEF Calls
  <2>3. /\ Slice(u)' = S /\ Before(u)' = Before(u) /\ program' = program /\ Size(u)' = Size(u)
        /\ Out(u)' = Out(u)
    BY <1>2, <2>2, OwnViews DEF Out
  <2>4. PartUnordered(u)' = PartUnordered(u)
    <3>1. ASSUME NEW k \in Kids(u) PROVE Unordered(Kid(u, k))' = Unordered(Kid(u, k))
      <4>1. Kid(u, k) \in DOMAIN task
        BY <1>1, PartsThere
      <4> QED BY <1>2, <4>1, OwnViews DEF Moves, Unordered
    <3>2. Kids(u)' = Kids(u)
      BY <1>2 DEF Tells, Kids
    <3> QED BY <2>3, <3>1, <3>2 DEF PartUnordered
  <2>5. /\ Len(task[u].out) = Size(u) /\ Permutes(Out(u), Before(u), S)
        /\ PartUnordered(u) \/ Ascending(Out(u), S)
    BY <1>2, <1>11, MergeEnds
  <2>6. Sorted(u)'
    BY <1>11, <2>1, <2>2, <2>3, <2>4, <2>5 DEF Sorted
  <2> QED BY <2>2, <2>6 DEF Data
<1>12. CASE /\ lo1 = hi1 /\ lo2 = hi2 /\ program = "merge" /\ task'[u].pc = "copy"
            /\ task'[u].i = task[u].low /\ task'[u].out = task[u].out
  <2>1. /\ Slice(u)' = S /\ Before(u)' = Before(u) /\ Size(u)' = Size(u) /\ Out(u)' = Out(u)
    BY <1>2, <1>12, OwnViews DEF Out
  <2>2. /\ Len(task[u].out) = Size(u) /\ Permutes(Out(u), Before(u), S)
        /\ Ascending(Out(u), S)
    BY <1>2, <1>12, MergeEnds DEF PartUnordered
  <2>3. task'[u].low .. task'[u].i - 1 = {}
    BY <1>3, <1>4, <1>12
  <2>4. Copying(u)'
    BY <1>12, <2>1, <2>2, <2>3 DEF Copying
  <2> QED BY <1>12, <2>4 DEF Data
<1> QED BY <1>2, <1>9, <1>10, <1>11, <1>12

LEMMA CopyBackData ==
    ASSUME IInv, NEW u \in DOMAIN task, CopyBack(u)
    PROVE  Data(u)'
<1> DEFINE S == Slice(u)
           low == task[u].low
           high == task[u].high
           i == task[u].i
           next == i + 1
<1>1. TInv /\ Data(u) /\ task[u] \in Calls /\ Indices(u)
  BY DEF IInv, TInv, TypeOK
<1>2. /\ Moves(u) /\ Tells(u) /\ task[u].pc = "copy" /\ program # "threads"
      /\ \/ i = high /\ arr' = arr /\ task'[u] = [task[u] EXCEPT !.pc = "done"]
         \/ /\ i \in S /\ task'[u] = [task[u] EXCEPT !.i = next]
            /\ \A x \in DOMAIN arr :
                   arr'[x] = IF x = i THEN task[u].out[x - low + 1] ELSE arr[x]
  BY <1>1, CopyBackTInv
<1>3. /\ low \in Nat /\ high \in Nat /\ i \in Nat /\ S = low .. high - 1
      /\ S \subseteq DOMAIN arr
  BY <1>1, Span
<1>4. /\ Len(task[u].out) = Size(u) /\ Permutes(Out(u), Before(u), S)
      /\ Ascending(Out(u), S) /\ \A x \in low .. i - 1 : arr[x] = Out(u)[x]
  BY <1>1, <1>2 DEF Data, Copying
<1>5. Slice(u)' = S /\ Before(u)' = Before(u) /\ Size(u)' = Size(u)
  BY <1>2, OwnViews
<1>6. CASE i = high /\ arr' = arr /\ task'[u] = [task[u] EXCEPT !.pc = "done"]
  <2>1. task'[u].pc = "done"
    BY <1>1, <1>6 DEF Calls
  <2>2. \A x \in S : arr'[x] = Out(u)[x]
    BY <1>3, <1>4, <1>6
  <2> HIDE DEF S
  <2>3. Permutes(arr', Before(u), S)
    BY <1>4, <2>2, PermAgree
  <2>4. Ascending(arr', S)
    BY <1>4, <2>2 DEF Ascending
  <2> QED BY <1>2, <2>1, <2>3, <2>4, SortedNow DEF S
<1>7. CASE /\ i \in S /\ task'[u] = [task[u] EXCEPT !.i = next]
           /\ \A x \in DOMAIN arr :
                  arr'[x] = IF x = i THEN task[u].out[x - low + 1] ELSE arr[x]
  <2> HIDE DEF next
  <2>1. task'[u].pc = "copy" /\ task'[u].out = task[u].out /\ task'[u].i = next /\ task'[u].low = low
    BY <1>1, <1>2, <1>7 DEF Calls
  <2>2. Out(u)' = Out(u)
    BY <1>5, <2>1 DEF Out
  <2>3. ASSUME NEW x \in low .. next - 1 PROVE arr'[x] = Out(u)[x]
    <3>1. x \in S /\ x \in DOMAIN arr /\ (x = i \/ x \in low .. i - 1)
      BY <1>3, <1>7 DEF next
    <3>2. Out(u)[x] = task[u].out[x - low + 1]
      BY <3>1 DEF Out
    <3> QED BY <1>4, <1>7, <3>1, <3>2
  <2>4. Copying(u)'
    BY <1>4, <1>5, <2>1, <2>2, <2>3 DEF Copying
  <2> QED BY <2>1, <2>4 DEF Data
<1> QED BY <1>2, <1>6, <1>7
-----------------------------------------------------------------------------
(* Every action keeps the data invariant.                                  *)
LEMMA OwnData ==
    ASSUME IInv, NEW u \in DOMAIN task, Step(u), ~ Go(u)
    PROVE  Data(u)' /\ DOMAIN task' = DOMAIN task
<1>1. TInv
  BY DEF IInv
<1>2. ASSUME Tells(u) PROVE DOMAIN task' = DOMAIN task
  BY <1>2 DEF Tells
<1>3. CASE SortShort(u)
  BY <1>1, <1>2, <1>3, SortShortTInv, SortShortData
<1>4. CASE SelectMinimum(u)
  BY <1>1, <1>2, <1>4, SelectMinimumTInv, SelectMinimumData
<1>5. CASE runner(u)
  BY <1>1, <1>2, <1>5, RunnerTInv, RunnerData
<1>6. CASE Halve(u)
  BY <1>1, <1>2, <1>6, HalveTInv, HalveData
<1>7. CASE ChoosePivot(u)
  BY <1>1, <1>2, <1>7, ChoosePivotTInv, ChoosePivotData
<1>8. CASE Partition(u)
  BY <1>1, <1>2, <1>8, PartitionTInv, PartitionData
<1>9. CASE Wait(u)
  BY <1>1, <1>2, <1>9, WaitTInv, WaitData
<1>10. CASE Merge(u)
  BY <1>1, <1>2, <1>10, MergeTInv, MergeData
<1>11. CASE CopyBack(u)
  BY <1>1, <1>2, <1>11, CopyBackTInv, CopyBackData
<1> QED BY <1>3, <1>4, <1>5, <1>6, <1>7, <1>8, <1>9, <1>10, <1>11 DEF Step

LEMMA StepIInv ==
    ASSUME IInv, NEW u \in DOMAIN task, Step(u)
    PROVE  IInv'
<1>1. TInv /\ TInv' /\ Moves(u) /\ DOMAIN task \subseteq Paths
  BY StepTInv DEF IInv, TInv, TypeOK
<1>2. ASSUME NEW t \in DOMAIN task, t # u, Kids(t)' = Kids(t) PROVE Data(t)'
  BY <1>1, <1>2, OthersData DEF IInv
<1>3. CASE Go(u)
  <2>1. PICK k \in {1, 2} : Starts(u, k) /\ NewPart(u, k)
    BY <1>1, <1>3, GoStarts
  <2>2. Data(u)' /\ Data(Kid(u, k))'
    BY <1>1, <2>1, GoData
  <2>3. DOMAIN task' = DOMAIN task \cup {Kid(u, k)}
    BY <2>1 DEF Starts
  <2>4. ASSUME NEW t \in DOMAIN task, t # u PROVE Kids(t)' = Kids(t)
    <3>1. \A l \in {1, 2} : Kid(t, l) # Kid(u, k)
      BY <1>1, <2>4, KidInjective
    <3> QED BY <2>3, <3>1 DEF Kids
  <2>5. \A t \in DOMAIN task' : Data(t)'
    BY <1>2, <2>2, <2>3, <2>4
  <2> QED BY <1>1, <2>5 DEF IInv
<1>4. CASE ~ Go(u)
  <2>1. Data(u)' /\ DOMAIN task' = DOMAIN task
    BY <1>4, OwnData
  <2>2. ASSUME NEW t \in DOMAIN task, t # u PROVE Kids(t)' = Kids(t)
    BY <2>1 DEF Kids
  <2>3. \A t \in DOMAIN task' : Data(t)'
    BY <1>2, <2>1, <2>2
  <2> QED BY <1>1, <2>3 DEF IInv
<1> QED BY <1>3, <1>4

LEMMA InitialData ==
    ASSUME Init
    PROVE  IInv
<1> DEFINE n == task[main].high
           zero == 0
<1>1. /\ DOMAIN task = {main} /\ Fresh(task[main], zero, n) /\ n \in Nat
  BY InitialCall
<1>2. /\ task[main].pc = "start" /\ task[main].low = zero
      /\ \A x \in zero .. n - 1 : task[main].before[x - zero + 1] = arr[x]
  BY <1>1 DEF Fresh
<1>3. ASSUME NEW x \in Slice(main) PROVE arr[x] = Before(main)[x]
  BY <1>2, <1>3 DEF Slice, Before
<1>4. Data(main)
  BY <1>2, <1>3 DEF Data
<1> QED BY <1>1, <1>4, InitialTInv DEF IInv

LEMMA IInvUnchanged ==
    ASSUME IInv, TInv', UNCHANGED vars
    PROVE  IInv'
<1>1. program' = program /\ arr' = arr /\ task' = task
  BY DEF vars
<1>2. \A t : /\ Slice(t)' = Slice(t) /\ Size(t)' = Size(t) /\ Kids(t)' = Kids(t)
             /\ Merged(t)' = Merged(t) /\ Unordered(t)' = Unordered(t)
             /\ (Live(t) <=> Live(t)')
  BY <1>1 DEF Slice, Size, Kids, Merged, Unordered, Live
<1>3. \A t : Before(t)' = Before(t) /\ Out(t)' = Out(t)
  BY <1>1, <1>2 DEF Before, Out
<1>4. \A t : (PartUnordered(t) <=> PartUnordered(t)') /\ Held(t)' = Held(t)
  BY <1>1, <1>2, <1>3 DEF PartUnordered, Held
<1>5. ASSUME NEW t \in DOMAIN task PROVE Data(t)'
  <2>1. Data(t)
    BY DEF IInv
  <2>2. Sorted(t) <=> Sorted(t)'
    BY <1>1, <1>2, <1>3, <1>4 DEF Sorted
  <2>3. (Selecting(t) <=> Selecting(t)') /\ (Partitioning(t) <=> Partitioning(t)')
    BY <1>1, <1>2, <1>3 DEF Selecting, Partitioning
  <2>4. (Divided(t) <=> Divided(t)') /\ (Copying(t) <=> Copying(t)')
    BY <1>1, <1>2, <1>3, <1>4 DEF Divided, Copying
  <2>5. Merging(t) <=> Merging(t)'
    BY <1>1, <1>2, <1>3, <1>4 DEF Merging
  <2> QED BY <1>1, <1>2, <1>3, <2>1, <2>2, <2>3, <2>4, <2>5 DEF Data
<1> QED BY <1>1, <1>5 DEF IInv

(* What every call has done with its slice so far, in every reachable      *)
(* state: a slice that is sorted, partitioned, divided, merged or copied   *)
(* back has the elements the call was given, and the order reached.        *)
(* (sort.go:26-108, multithreaded_sort.c:15-27, 37-54, 63-91)             *)
THEOREM SortInvariance == Spec => []IInv
<1>1. ASSUME IInv, [Next]_vars PROVE IInv'
  <2>1. CASE UNCHANGED vars
    <3>1. TInv'
      BY <1>1, <2>1 DEF IInv, vars, TInv, TypeOK, Tree, Indices, Cut, Places, Started, PartsOf,
                        Awaited, Kids, Pending, Slice, Size
    <3> QED BY <1>1, <2>1, <3>1, IInvUnchanged
  <2>2. CASE Exited
    BY <2>1, <2>2 DEF Exited
  <2>3. CASE \E t \in DOMAIN task : Step(t)
    BY <1>1, <2>3, StepIInv
  <2> QED BY <1>1, <2>1, <2>2, <2>3 DEF Next
<1> QED BY <1>1, InitialData, PTL DEF Spec

(* The sequence s has the values of f from low on.                         *)
Shifted(f, s, low, S) == \A x \in S : f[x] = s[x - low + 1]
Rising(s) == \A i, j \in 1 .. Len(s) : i < j => s[i] <= s[j]
AsOften(v, s, b) ==
    Cardinality({k \in DOMAIN s : s[k] = v}) = Cardinality({k \in DOMAIN b : b[k] = v})

(* The elements of two sequences, where one permutes the other.            *)
LEMMA SameElements ==
    ASSUME NEW low \in Nat, NEW n \in Nat, NEW S, S = low .. low + n - 1,
           NEW s, DOMAIN s = 1 .. n, NEW b, DOMAIN b = 1 .. n, NEW f, NEW g, Permutes(f, g, S),
           Shifted(f, s, low, S), Shifted(g, b, low, S), NEW v
    PROVE  AsOften(v, s, b)
<1> USE DEF Shifted
<1> DEFINE A == {k \in 1 .. n : s[k] = v}
           B == {k \in 1 .. n : b[k] = v}
<1>1. PICK p : Bijects(p, S, S) /\ \A x \in S : f[x] = g[p[x]]
  BY DEF Permutes
<1>2. \A x \in S : x - low + 1 \in 1 .. n
  OBVIOUS
<1>3. \A k \in 1 .. n : low + k - 1 \in S /\ (low + k - 1) - low + 1 = k
  OBVIOUS
<1>4. \A x, y \in S : x - low + 1 = y - low + 1 => x = y
  OBVIOUS
<1>5. \A k, l \in 1 .. n : low + k - 1 = low + l - 1 => k = l
  OBVIOUS
<1> DEFINE q == [k \in A |-> p[low + k - 1] - low + 1]
<1>6. \A k \in 1 .. n : /\ p[low + k - 1] \in S
                        /\ s[k] = b[p[low + k - 1] - low + 1]
  <2>1. ASSUME NEW k \in 1 .. n
        PROVE  /\ p[low + k - 1] \in S
               /\ s[k] = b[p[low + k - 1] - low + 1]
    <3> DEFINE x == low + k - 1
    <3>1. x \in S /\ x - low + 1 = k
      BY <1>3
    <3> HIDE DEF x
    <3>2. p[x] \in S /\ f[x] = s[k] /\ f[x] = g[p[x]]
      BY <1>1, <3>1 DEF Bijects
    <3>3. g[p[x]] = b[p[x] - low + 1]
      BY <3>2
    <3>4. p[x] \in S /\ s[k] = b[p[x] - low + 1]
      BY <3>2, <3>3
    <3> QED BY <3>4 DEF x
  <2> QED BY <2>1
<1>7. q \in [A -> B]
  <2>1. \A k \in A : p[low + k - 1] - low + 1 \in B
    BY <1>2, <1>6
  <2> HIDE DEF A, B
  <2> QED BY <2>1
<1>8. \A k, l \in A : q[k] = q[l] => k = l
  <2>1. ASSUME NEW k \in A, NEW l \in A, q[k] = q[l] PROVE k = l
    <3>1. p[low + k - 1] = p[low + l - 1]
      BY <1>4, <1>6, <2>1
    <3>2. low + k - 1 = low + l - 1
      BY <1>1, <1>3, <3>1 DEF Bijects
    <3> QED BY <1>5, <3>2
  <2> QED BY <2>1
<1>9. \A m \in B : \E k \in A : q[k] = m
  <2>1. ASSUME NEW m \in B PROVE \E k \in A : q[k] = m
    <3> DEFINE y == low + m - 1
    <3>1. y \in S /\ y - low + 1 = m /\ b[m] = v
      BY <1>3
    <3> HIDE DEF y
    <3>2. PICK x \in S : p[x] = y
      BY <1>1, <3>1 DEF Bijects
    <3> DEFINE k == x - low + 1
    <3>3. k \in 1 .. n /\ low + k - 1 = x
      BY <3>2
    <3> HIDE DEF k
    <3>4. s[k] = b[m]
      BY <1>6, <3>1, <3>2, <3>3
    <3>5. k \in A
      BY <3>1, <3>3, <3>4
    <3>6. q[k] = m
      BY <3>1, <3>2, <3>3, <3>5
    <3> QED BY <3>5, <3>6
  <2> QED BY <2>1
<1>10. ExistsBijection(A, B)
  <2> HIDE DEF A, B, q
  <2>1. q \in Bijection(A, B)
    BY <1>7, <1>8, <1>9 DEF Bijection, Injection, Surjection, IsInjective
  <2> QED BY <2>1, Fun_ExistsBij
<1>11. IsFiniteSet(A)
  <2>1. IsFiniteSet(1 .. n)
    BY FS_Interval
  <2> QED BY <2>1, FS_Subset, A \in SUBSET (1 .. n)
<1> HIDE DEF A, B
<1>12. Cardinality(A) = Cardinality(B)
  BY <1>10, <1>11, FS_Bijection
<1> QED BY <1>12 DEF A, B, AsOften

(* What is sorted is what CallsSort asks for.                              *)
LEMMA SortedOutput ==
    ASSUME NEW low \in Nat, NEW n \in Nat, NEW S, S = low .. low + n - 1,
           NEW s \in Seq(Int), Len(s) = n, NEW b \in Seq(Int), Len(b) = n,
           NEW f, NEW g, Permutes(f, g, S), Shifted(f, s, low, S), Shifted(g, b, low, S)
    PROVE  IsPermutation(s, b) /\ (Ascending(f, S) => Rising(s))
<1>1. DOMAIN s = 1 .. n /\ DOMAIN b = 1 .. n
  OBVIOUS
<1>2. \A v : AsOften(v, s, b)
  BY <1>1, SameElements
<1>3. IsPermutation(s, b)
  BY <1>2 DEF IsPermutation, AsOften
<1>4. ASSUME Ascending(f, S) PROVE Rising(s)
  <2>1. \A k \in 1 .. n : low + k - 1 \in S /\ (low + k - 1) - low + 1 = k
    OBVIOUS
  <2>2. \A k \in 1 .. n : s[k] = f[low + k - 1]
    BY <2>1 DEF Shifted
  <2>3. ASSUME NEW i \in 1 .. n, NEW j \in 1 .. n, i < j PROVE s[i] <= s[j]
    <3>1. low + i - 1 < low + j - 1
      BY <2>3
    <3> QED BY <1>4, <2>1, <2>2, <3>1 DEF Ascending
  <2>4. \A i, j \in 1 .. Len(s) : i < j => s[i] <= s[j]
    BY <2>3
  <2> QED BY <2>4 DEF Rising
<1> QED BY <1>3, <1>4

LEMMA AllSorted ==
    ASSUME IInv
    PROVE  CallsSort
<1> SUFFICES ASSUME NEW t \in DOMAIN task, task[t].pc = "done",
                    t # main => task[Front(t)].pc \in {"go", "wait"}
             PROVE  /\ IsPermutation(Output(t), task[t].before)
                    /\ \/ IsSorted(Output(t), LAMBDA a, b : a <= b)
                       \/ MayBeUnsorted(t)
  BY DEF CallsSort
<1> DEFINE low == task[t].low
           n == Size(t)
           S == Slice(t)
           b == task[t].before
           g == Before(t)
<1>1. TInv /\ Sorted(t) /\ DOMAIN task \subseteq Paths
  BY DEF IInv, Data, Live, TInv, TypeOK
<1>2. /\ low \in Nat /\ n \in Nat /\ S = low .. low + n - 1 /\ b \in Seq(Int) /\ Len(b) = n
      /\ \A x \in S : arr[x] \in Int
  BY <1>1, Span
<1>3. Shifted(g, b, low, S)
  BY DEF Before, Shifted
<1>4. ASSUME NEW u \in DOMAIN task, u # main, program = "threads", IsPrefix(t, u), Unordered(u)
      PROVE  MayBeUnsorted(t)
  BY <1>4 DEF MayBeUnsorted, Unordered
<1>5. CASE program = "threads" /\ t = main
  <2> DEFINE s == task[t].out
  <2>1. /\ Output(t) = s /\ s \in Seq(Int) /\ Len(s) = n /\ Permutes(Out(t), g, S)
        /\ PartUnordered(t) \/ Ascending(Out(t), S)
        /\ Shifted(Out(t), s, low, S)
    BY <1>1, <1>5, Span DEF Output, Sorted, Out, Shifted
  <2>2. PartUnordered(t) => MayBeUnsorted(t)
    <3>1. SUFFICES ASSUME NEW k \in Kids(t), Unordered(Kid(t, k)) PROVE MayBeUnsorted(t)
      BY DEF PartUnordered
    <3>2. Kid(t, k) \in DOMAIN task /\ Kid(t, k) # main /\ Kid(t, k) \in Paths
      BY <1>1, PartsThere
    <3>3. IsPrefix(t, Kid(t, k))
      <4> DEFINE u == Kid(t, k)
      <4>1. t = <<>> /\ Len(t) = 0 /\ u \in Seq({1, 2})
        BY <1>5, <3>2 DEF main, Paths
      <4>2. SubSeq(t, 1, 0) = SubSeq(u, 1, 0)
        BY <4>1, SubSeqEmpty
      <4>3. 0 <= Len(u)
        BY <4>1
      <4> QED BY <4>1, <4>2, <4>3 DEF IsPrefix
    <3> QED BY <1>4, <1>5, <3>1, <3>2, <3>3
  <2> HIDE DEF low, n, S, b, g, s
  <2>3. IsPermutation(s, b) /\ (Ascending(Out(t), S) => Rising(s))
    BY <1>2, <1>3, <2>1, SortedOutput
  <2>4. IsPermutation(Output(t), task[t].before) /\ (Rising(Output(t)) \/ MayBeUnsorted(t))
    BY <2>1, <2>2, <2>3 DEF b
  <2> QED BY ONLY <2>4 DEF IsSorted, Rising
<1>6. CASE ~ (program = "threads" /\ t = main)
  <2> DEFINE s == Contents(t)
  <2>1. /\ Output(t) = s /\ Permutes(arr, g, S)
        /\ (program = "threads" /\ Unordered(t)) \/ Ascending(arr, S)
    BY <1>1, <1>6 DEF Output, Sorted
  <2>2. s \in Seq(Int) /\ Len(s) = n
    <3>1. \A k \in 1 .. n : arr[low + k - 1] \in Int
      BY <1>2
    <3>2. s \in [1 .. n -> Int]
      BY <3>1 DEF Contents
    <3> HIDE DEF s, n
    <3> QED BY <1>2, <3>2
  <2>3. Shifted(arr, s, low, S)
    <3>1. ASSUME NEW x \in S PROVE arr[x] = s[x - low + 1]
      <4>1. x - low + 1 \in 1 .. n /\ low + (x - low + 1) - 1 = x
        BY <1>2
      <4> QED BY <4>1 DEF Contents
    <3> QED BY <3>1 DEF Shifted
  <2>4. program = "threads" /\ Unordered(t) => MayBeUnsorted(t)
    <3>1. IsPrefix(t, t)
      BY <1>1 DEF IsPrefix, Paths
    <3> QED BY <1>4, <1>6, <3>1
  <2> HIDE DEF low, n, S, b, g, s
  <2>5. IsPermutation(s, b) /\ (Ascending(arr, S) => Rising(s))
    BY <1>2, <1>3, <2>1, <2>2, <2>3, SortedOutput
  <2>6. IsPermutation(Output(t), task[t].before) /\ (Rising(Output(t)) \/ MayBeUnsorted(t))
    BY <2>1, <2>4, <2>5 DEF b
  <2> QED BY ONLY <2>6 DEF IsSorted, Rising
<1> QED BY <1>5, <1>6

(* A call that has returned leaves its slice sorted, with the elements it  *)
(* was given, while its caller waits for the other; so the whole program   *)
(* does, except that the order is open where the C comparison overflows.   *)
(* (sort.go:26-108, multithreaded_sort.c:15-27, 63-91)                     *)
THEOREM SortedCalls == Spec => []CallsSort
  BY SortInvariance, AllSorted, PTL
=============================================================================
