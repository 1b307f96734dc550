# A verification development for Learning-EI338

The repository holds eleven small programs of an operating-systems course. They
share no code; each is a system of its own. This directory models their core
logic in TLA+, checks the models with TLC and proves the most important
invariants with TLAPS.

## Inventory

| Part | State | Operations | What is hard about it | Status |
|---|---|---|---|---|
| Project-5-1, thread pool (`threadpool.c`, `client.c`) | ring `taskQueue` with `queueHead`/`queueTail`, mutex `lock`, semaphore `taskCnt`, threads `bees` | `pool_init`, `pool_submit` (`enqueue`), `worker` (`dequeue`, `execute`), `pool_shutdown`; the client submits, sleeps, shuts down | interleavings of submitters and bees, busy waiting, cancellation, tasks left at shutdown | modelled, safety and the refinement of `HandOff` proved |
| Project-5-2, bounded buffer (`buffer.c`, `main.c`) | ring `buffer`, mutex `lock`, semaphores `empty`, `full` | `insert_item`, `remove_item` in endless loops; `main` sleeps, cancels and joins everybody, destroys the buffer | two semaphores and a mutex, threads cancelled anywhere they block | modelled, safety and the refinement of `HandOff` proved |
| Project-6, banker (`banker.c`) | `available`, `maximum`, `allocation`, `need` | `request_resources` (`is_safe`), `release_resources` | rollback of half-done commands, the greedy safety test | modelled, safety proved |
| Project-7, memory allocator (`memory_allocator.c`) | doubly linked list of blocks from `mem`, `mem_size` | `request_memory` (first, best, worst fit), `release_memory`, `compact_memory` | pointer surgery whose mistakes show commands later, `size_t` at its limits | modelled, safety and the refinement of `AddressSpace` proved |
| Project-8, virtual memory (`vm_manager.c`) | `TLB`, `page_table`, `page_valid`, `memory`, counters | `translate_address` (`check_TLB`, `handle_page_fault`, `select_victim_frame`, `update_TLB`), `access_memory` | stale TLB entries, wrapping counters | modelled, safety proved |
| Project-4, schedulers (`driver.c`, `list.c`, `schedule_*.c`) | linked `taskList`, newest task first (one list per priority in `schedule_priority_rr.c`), `next_node`, `remaining_burst` of each task | `add` (`insert`), `pickNextTask`, `delete`, `run`, `schedule`; five variants | deletion by name, a pointer kept across a deletion, ties that must go to the older task of a list that is newest first | modelled, safety proved |
| Project-2-1, shell (`simple_shell.c`) | `args`, `command`; per process its place, parent, children, standard input and output, ends of a pipe | `main` (`refresh_args`, `get_input`, `parse_input`), `run_command` (`check_ampersand`, `detect_pipe`, `check_redirection`, `redirect_io`, forks, waits, `execvp`) | children that return into the shell, `wait(NULL)`, a pipe that is read too late, stale arguments | modelled, safety of the processes proved |
| Project-2-2, /proc/pid (`pid_module.c`), and Project-1, /proc/jiffies and /proc/seconds (`jiffies_module.c`, `seconds_module.c`) | static `completed`, `current_pid`, `start_jiffies` | `proc_init`, `proc_exit`, `proc_read`, `proc_write` | readers that share a static variable without a lock, tasks that end, a clock that wraps around | modelled, safety proved |
| Project-3-1, Project-3-2, sorts (`multithreaded_sort.c`, `sort.go`) | one array; per call its slice, its WaitGroup and its result | `ordinary_sort`, `merge_sort`, `quick_sort`; `main`, `runner`, `merge_array` | threads that sort parts of one array in place; a comparison that overflows | modelled, safety proved |

The makefiles, screenshots, data files and the display functions are left aside.

What makes each modelled part correct: a pool or buffer hands every item from
one thread to one other, in order, loses none and wakes somebody up for each;
the banker keeps the books balanced and the state safe; the allocator does to
each byte what a request, a release or a compaction should; the virtual memory
finds the byte that is stored at the logical address; a scheduler gives each
task its burst, in the order of the policy; the shell runs what was typed, reads the
terminal once at a time and gets its children back; a reader of a /proc file gets one
report, of one task or of the right time, and then the end of the file; a sort
returns its input in order, and no element is touched by two threads at once.

The components share no state. Within each, the parts interact through the shared
variables named above (threads, readers of a /proc file, goroutines), through pipes
and `wait` (the shell's processes), or as a caller and its functions.

## Modules

| Module | Models | Correspondence |
|---|---|---|
| `ThreadPool` | Project-5-1 | One action per access to shared memory. `pc[t]` is the place of thread `t`; the actions `EnqueueLock` ... `Post` are `pool_submit`, `SemWait` ... `Execute` are `worker`, `Cancelled` is a cancellation taking effect, `CreateBee` ... `Destroy` are the loops of `pool_init` and `pool_shutdown`. The client is generalised to several submitting threads: `pool_submit` locks a mutex so that it may be called by more than one. |
| `BoundedBuffer` | Project-5-2 | The same style. `producer` and `consumer` are the two thread functions, `CreateThread` ... `Destroy` the steps of `main`. A thread makes at most `MaxItems` items. |
| `HandOff` | the promise of both | A first-in first-out line of bounded length: `Put`, `Take`, `Finish`, and, once closing, `Abandon`. `ThreadPool` and `BoundedBuffer` are shown to implement it by `INSTANCE ... WITH`. |
| `Banker` | Project-6 | One action per command; the loops over the resources are sets of indices, with the index of the first error chosen by `\E`. `StrayWrite` is the write to `allocation[customer][-1]`: the row above has that cell, or, for customer 0, whatever the linker put before `allocation`, one of `Neighbours`. `total` and `returned` are history: what there was at first, and what was released. |
| `MemoryAllocator` | Project-7 | One action per command, pointers kept. The loops over the list are `Walk`s along the chain of blocks, the way it is when they start. `malloc` returns any unused node. `Wrap` is the arithmetic of `size_t`. |
| `AddressSpace` | the promise of the allocator | Which process owns which byte. A compaction moves each byte in use to the place its rank among them says. |
| `VMManager` | Project-8 | One action per input line. A byte is named by the page it was loaded from and its offset. |
| `Scheduler` | Project-4 | One action per line of input (`add`) and per turn of the loop in `schedule` (`RunToEnd` for FCFS, SJF and priority, `RunSlice` for the two round robins, `LowerPriority` for the outer loop of `schedule_priority_rr.c`). The pointers `taskList`, `link` and `next_node` are kept; `ran` is the output. `policy` says which of the five programs it is; `LineNames` and `LinePriorities` which names and priorities a line of the input may hold. |
| `SimpleShell` | Project-2-1 | A system of processes: `proc[p]` is what kernel and program keep about process `p`, with a copy of the shell's `args` and `command` in each. `TypeLine` and `ReadLine` are a turn of the loop in `main` with a line from the terminal or from a pipe or file, `RunCommand` is `run_command` up to its first fork, `MakePipe` the second, `StartCommand` the redirections and closes, `WaitFirst`, `Wait` the waits, `Exec` is `execvp`. A word of a line is a word of the model. The programs (`Write`, `Read`, `Finish`) and the kernel's part (`Ended`, `wait`) are an environment. |
| `ProcFile` | Projects 1 and 2-2 | One action per access to a shared variable in `proc_read` (`Test`, `Reset`, `Lookup`, `FormatTask`, `Complete`, `FormatTime`), `proc_write`, `CreateEntry` and `SetStart` for the two statements of `proc_init`, `proc_exit`; programs that open the file, read it to its end or `Quit` early; tasks that end, jiffies that tick. `module` says which of the three it is. |
| `ForkJoinSort` | Projects 3-1 and 3-2 | A call is named by its path in the tree of calls. One action per element moved (`SelectMinimum`, `Partition`, `Merge`, `CopyBack`), per `go` statement or `pthread_create` (`Go`), per wait for both parts (`Wait`). `qsort` is one action: it may leave any order its comparison allows. |
| `Counting` | | Lemmas the proofs share: how many threads are at a set of labels, induction up to a bound, recursive functions up to a bound, the cells of a ring read as a sequence. |
| `ThreadPoolProofs`, `BoundedBufferProofs`, `BankerProofs`, `MemoryAllocatorProofs`, `SimpleShellProofs`, `ForkJoinSortProofs`, `KernelProofs` | | The theorems, one module for each component; `KernelProofs` has those of three, `VMManager`, `ProcFile` and `Scheduler`. |

`MC...` modules give the constants values for TLC. Definitions such as
`SuccWithoutModulo` or `LastBestFit`, placed before the definition they vary,
are faulty variants: with one of them in place of the original, TLC finds the
property it is meant for violated.

## What the runs check

| Run | Instance | What it shows |
|---|---|---|
| `pool` | 2 bees, 2 submitters of 3 tasks, queue of 2 | types; `TokensMatchQueue`, `DequeueNeverEmpty`, `DestroyIsSafe`; the pool implements `HandOff`; accepted tasks are executed unless the pool shuts down; busy waiting ends; a shutdown returns |
| `buffer` | 2 producers of 2 items, 2 consumers, buffer of 2 | `SemaphoresMatchBuffer`, `DestroyIsSafe`; implements `HandOff`; inserted items are consumed until the consumers are stopped; `main` returns |
| `banker` | 3 customers, 3 resources, amounts -1..1 | books balance: of each resource, and of each claim with what is held, still needed and released; failed commands change nothing, safety is kept, the greedy test decides safety; up to the first release that is rolled back wrongly |
| `banker_release` | the same, with a stray write that changes nothing: 0 before the amounts, nothing of the bank's before `allocation` | violated: a release that fails at its second resource or later takes units it names from the customer and does not return them to `available` (`banker.c:118`) |
| `allocator` | memories of 0 and 5 bytes, 2 processes, requests of 0..3 bytes, 5 nodes, 4-bit `size_t` | the list is sound and its blocks tile the memory without adjacent holes, the strategies choose the right hole, implements `AddressSpace` |
| `vm` | 4 pages, 3 frames, 2 TLB entries, 10 lines, counters modulo 6 | page table injective, TLB agrees with it, a wrong byte only from an evicted page; until the frame counter wraps, and types beyond it |
| `vm_stale_tlb` | the same | violated: README.md:7 of Project-8 promises the right byte; the TLB entry of an evicted page survives (`vm_manager.c:44`) |
| `sched` | up to 4 tasks with names of their own, bursts 1, 2 and 5, quantum 2, priorities 1 and 2 and, for one task, 0; all five programs | `next_node` stays in the list, each task gets its burst except one of priority 0 under `schedule_priority_rr.c`, the order of the policy with ties by arrival, fair turns, `schedule` returns |
| `sched_names` | up to 2 tasks that may share a name | violated: the comment at `list.c:22` says that the selected task is deleted; `delete` deletes the first one of its name |
| `shell` | 3 lines typed of ten kinds (plain, with `&`, pipes, redirections to and from files that can or cannot be opened, unknown programs, `!!`, `exit`), 4 processes, a pipe that holds one line | one process at a time reads the terminal unless something runs in the background or a pipe was left half set up (`OneReaderOfTerminal`); a shell that prompts has as many children as it has not waited for (`UnwaitedChildrenStay`); programs get the words that were typed, in a shell that has not run a pipe before (`ArgvAsTyped`); a wait ends unless a child became a shell or a first command fills its pipe (`WaitEnds`) |
| `proc` | 2 readers opening the file 3 times in all, 2 tasks, 4 jiffies before and after they wrap, 2 to the second, the module loaded and removed, readers that leave early | `completed` is left set when nobody has the file open only if a reader left early (`FreshWhenUnused`); a reader that has the file to itself gets one report (`LoneReaderReadsOnce`); name and number in a report, and the seconds, are right (`ReportIsRight`); readers come to an end although they take each other's (`ReadersEnd`) |
| `sort` | all inputs of up to 4 elements of 3 values and some of 5 and 6, slices of one or two not split, 3-bit `int` for the C program | every call returns a sorted permutation of its slice, whatever runs beside it (`CallsSort`); no element is touched by two calls at once (`NoSharedElements`); `main` returns |

Where a module has a type invariant, `TypeOK`, it is checked: as a conjunct of the first
invariant of its run or by itself. The shell and the sorts have none; the properties
above read every variable of theirs.

Each violation needs several steps that a sample input does not contain: a request
that is granted, and a release of some of it in which a later amount is too large; a page that is looked up in the
page table again late in its stay in memory, is evicted while its TLB entry is
still young, and is then used again; two tasks of one name, the older of which is
picked first.

Some properties carry an exception because the code does not do better. They are
part of what the runs show: tasks still queued at `pool_shutdown` are dropped,
although README.md:21 of Project-5-1 promises their execution; a command after a
pipe may get leftover words of that pipe as arguments, because `refresh_args` stops at
the first `NULL`; the second command of a pipe starts only after the first has ended,
so a first command that fills the pipe waits for ever; a shell whose `execvp` fails
asks for a command in the child, and the user's `exit` ends only that one.

### Bounds and why they are enough

* Threads: two of each kind give every pairwise race. With three tasks per
  submitter the ring of three slots wraps around and is full.
* `MaxItems`, `TasksPerSubmitter`, `MaxAccesses`: the programs loop for ever or
  over an input; the bound is on the length of the history, and longer than
  what it takes to fill, wrap and empty every ring and table twice.
* `MaxSpoils`: the banker's run ends after one wrong rollback; after it the
  arrays hold garbage and can grow without limit.
* `Garbage`, `Neighbours`: what is in memory before the amounts of a command, and what
  is before `allocation`, is up to the compiler and the linker. GCC 7.4, which
  Project-6's README names, merges the four arrays as common symbols and so puts
  `available` right before `allocation`; with `-fno-common` padding comes first. `banker`
  allows every outcome, `banker_release` the harmless one, so that its violation
  is the rollback's and not the stray write's.
* `Nodes` of the allocator: five blocks can be used, free, used, free, used.
  A request that needs a sixth is not taken. Nodes and process names are
  symmetric; only safety is checked under the symmetry.
* `UINT_MOD`, `SIZE_MOD`: 6 and 16 instead of 2^32 and 2^64, so that the
  counters do wrap. `mem_size` = 2^64 - 1 is excluded by an assumption.
* `MaxTasks`: with four tasks a round robin deletes a head, a task in the middle
  and a last one while others remain. The bursts are below, at and above the
  quantum (5 takes three turns), and equal bursts and priorities occur.
* `MaxProcs`, `MaxLines` of the shell: four processes are the shell, the two of a pipe
  and one in the background, and the limit itself makes both forks fail. Three lines
  show a command, what it left behind, and the command that meets it. A pipe of
  one line is full when the first command has written one of its two.
* `MaxOpens`, `MaxUptime` of the /proc files: two readers overlap in every way and a
  third opening finds what they left. `JIFFIES_MOD` is 4 and any value may be the
  first, so that jiffies wrap around while the module is loaded.
* The sorts: slices of five or six elements are split on two levels, so that four
  leaves run at once and inner calls merge beside each other. `INT_MOD` 8 makes
  differences between -4, 0 and 3 overflow.
* Deadlock is checked for pool, buffer, allocator, schedulers and sorts. The banker's,
  the VM's and the /proc files' runs end at their bounds; the shell may wait for ever.

### Fairness

Threads: weak fairness of each thread that can move, which the kernel's
scheduler gives. In the pool a submitter may take the mutex again and again
while it busy-waits, so weak fairness would let it starve a bee; the model
assumes strong fairness of the two lock actions, i.e. that a mutex that is
released again and again is eventually granted to each waiter. The buffer needs
weak fairness only, since its threads block on semaphores and do not spin.
The end of the client's sleep (`Shutdown`) and of the first sleep of the buffer's
`main` (`SleepOver`) are never forced: nothing relates their length to the work
left. The leads-to properties have this as a proviso. The second sleep of the
buffer's `main`, a constant, does end.

The schedulers are sequential: weak fairness of `CallSchedule` and `schedule` only
says that the program reads its input to the end and then keeps running.

The shell's processes: weak fairness of "some process runs"; no process needs a
promise of its own, because each one's work is finite. The user need not type. The
readers of a /proc file: weak fairness of each one's calls of `proc_read`: nothing
in it blocks, and a reader such as `cat` calls it until it returns 0; nobody has to
open the file, write to it or leave early. The sorts: weak fairness of "some
call that can go on does", which is less than the scheduler of either language gives.

## What is proved

All theorems hold for every value of the constants that satisfies the named
assumptions (`PoolAssumption`, `ThreadAssumption`, `BufferAssumption`, `BufferValues`,
`SizeAssumption`, `NothingAssumption`, `ProcFileAssumption`, `BankerAssumption`,
`AllocatorAssumption`, `ShellAssumption`, `SortAssumption`, `SchedulerAssumption`; those
about `Scheduler` have `NamesApart` as a hypothesis as well, that about `ArgvAsTyped`
`LinesRight`). Each proof module has an inductive invariant `IInv`, or several,
and a theorem `InductiveStep` with one step for each action.

`ThreadPoolProofs`: `Spec => []TypeOK`, `[]TokensMatchQueue`,
`[]DequeueNeverEmpty`, `[]DestroyIsSafe`, and `HandsOff`: the pool implements `HandOff`.
`TokensMatchQueue` is not inductive: that a submitter's `QueueFull` test is still valid
when it moves the tail needs the mutex (`Mutex`, `Room`); that a bee's move of the head
does not pass the tail needs the token it holds, i.e. the count; and that what it takes is
a task needs `Filled`. `IInv` is the conjunction. `DestroyIsSafe` needs `LoopInv` as well:
what the main thread's loops have done so far. Numbers of threads at a label are
cardinalities; `Counting` has the lemma that says how they change.

`BoundedBufferProofs`: `[]SemaphoresMatchBuffer` (with the types), `[]DestroyIsSafe`, and
`HandsOff`: the buffer implements `HandOff`.
The two sums (`Balance`) are inductive only together with what lets a thread move an
index: a producer that is about to move the tail is counted in the second sum, so
there is room; a consumer that is about to move the head is counted in the
first, so the ring is not empty. That only produced items are consumed needs
`Filled` and `AtHand`, and these need `Mutex`. A cancelled thread leaves from a place
that neither sum counts. `Loops` is what `main` has created and joined so far.

The two refinements have the same shape. The line of `HandOff` is the ring read from its
head to its tail (`Window`, with lemmas in `Counting` for a window that grows at its end
and shrinks at its front), what is taken is in the hands of a thread, and what is done
is executed or consumed. A second invariant, `HInv`, says what each thread has at hand
(`Hands`), that only tasks already submitted are anywhere (`NoneToCome`), and that none is
in two places (`Apart`): that is what makes a line first in, first out and each item
handed over once. Every action is then of one of a few kinds: it leaves the line as it is
(`Quiet`), puts in at the end, takes at the front, finishes, or drops what a cancelled
thread holds; `HandOffStep` maps each kind to a step of `HandOff` or to a stutter.

`KernelProofs`, of `ProcFile`: `[]FreshWhenUnused` (with the types), `[]LoneReaderReadsOnce` and
`ReportIsRight`. Whoever sets `completed` goes on to a place from which it can only
leave by resetting it, or as a reader that gives up (`SomeoneResets`); a reader that
found nobody there knows `completed` from its own place (`AloneKnows`), since another
one ends its being alone. That nobody is in `proc_read` while there is no
entry (`AllClosed`) makes the variables of a newly loaded module fresh. `SeenCurrent`
remembers which values of `current_pid` a call may have read. `ClockRuns` says that jiffies
have wrapped around once at most, which makes the unsigned difference the time that has
passed.

`KernelProofs`, of `VMManager`: `[]TypeOK`, `[]ValidPageHasItsFrame`,
`[]TLBAgreesWithPageTable`, `[]WrongByteOnlyFromEvictedPage`. The first round of
faults hands out fresh frames (`FreshAbove`); later the one page in the victim
frame is invalidated, and injectivity of the valid part of the page table makes it
the only one, so the loop may `break` after the first. A TLB entry for an
invalid page exists only after an eviction (`StaleOnlyAfterEviction`), and the fault
counter tells whether there was one (`FaultsCounted`).

`BankerProofs`: `[]AccountsBalance`, `[]GreedyChoiceDecidesSafety`,
`FailedCommandChangesNothing` and `StaysSafe`, wherever the linker puts the arrays
(`Neighbours`). `AccountsBalance` is inductive. The sums
over the customers and the rounds of `is_safe` are recursive functions; a lemma about
`SumTo` says what a change of one customer's vector does to the sum. `GreedyChoiceIsRight`
holds for any bank: if every set of customers has one that can be served once the others
have returned all, the rounds find one each time (by induction over the rounds); if the
rounds serve all, the first of a set to be served could be served with what the others
return. What a request moves and a denial moves back is shown resource by resource
(`RequestKinds`, `ReleaseKinds`). A release keeps a bank safe since it is monotone in
what is available.

`MemoryAllocatorProofs`: `[]ListTilesMemory` (with the types),
`[]StrategiesChooseRightHole`, and `KeepsBytes`: the allocator implements `AddressSpace`; for any size of the memory below the largest a `size_t` can
hold, any processes and any finite set of nodes. The invariant is that there is a sequence
`L` of blocks such that the pointers are those of `L` (`Linked`), each block begins
where the one before it ends and the last ends where the memory does (`Tiled`; `End`
takes care of a `hi` that wrapped around), and no two unused blocks are neighbours
(`NoHoles`). A split puts a node into `L` (`SplitStep`), `Absorb` takes one out
(`AbsorbStep`), `Swap` moves a border (`SwapStep`). The two loops remove nodes from the
list they walk along: their invariants (`SoundUpTo`, `Compacting`) say that what was
passed is in order and that what is ahead is the end of the list they began with
(`Reached`). That compaction never frees the block `mem` points to follows from the
invariant that holds when it begins: the first two blocks are not both unused, so after
its second turn the first one is used.

The refinement follows the owners of the bytes through the same lemmas. `Owned(h, L, n, o)`
says that each block of the list carries the name which `o` gives to the bytes it
covers; a byte has one block (`OneBlockAt`), so the heap determines `o` (`OwnedIs`).
`Absorb` merges blocks of one name and leaves `o` alone, `Swap` exchanges two stretches
of it (`Shifted`), a request gives bytes of a hole to a process (`Granted`).
The loops carry what has become of the owners they began with: `Freed`, of the bytes
passed those of the process are free and the others untouched; `Packing`, there is a
strictly increasing map from the bytes then in use onto those in use now. After
the last turn of a compaction the bytes in use are the first ones (`PackedFirst`), and an
increasing map onto `1 .. k` sends each element to its rank (`Ranked`), which
is what `AddressSpace` asks for.

`SimpleShellProofs`: `[]OneReaderOfTerminal`, `[]UnwaitedChildrenStay`, `[]ArgvAsTyped`. A step of a process
goes on by itself (`Moves`), forks (`Forks`), reaps (`Reaps`) or ends. The invariant is
`Shape`, the fields of each record; `Family`, every process has as many children as it has
forked and not waited for; and `OneLeaf`, if nothing ran in the background then of the
processes that do not wait for a child there is one only. The terminal then has one
reader because a shell that reads it is such a process.

`ArgvAsTyped` is proved for any lines that are `LinesRight`: a word has a letter, and
a command has at most two redirections, not side by side (`check_redirection` has room to
note two, and takes what follows one for a file name; with three, the third would stay
among the words). The run's lines are such lines, which TLC checks. The invariant `Told`
follows `args` through the program: in order at the prompt (`Clean`: a line of words, then
NULLs), the line that was typed in `run_command` (`Padded`), the line with a NULL for its
bar in the children (`Halved`), and the words of one side of the bar from
`check_redirection` on (`Executed`). Each function on `args` has a lemma that says what it
makes of such an array: `Refreshed`, `Parsed`, `Ampersand`, `Pipe`, `Check`. Only after a
command with a bar is `args` not in order again, and then the next line marks the shell as
`piped`. What `check_redirection` notes is a recursive function in
which each place depends on the one before; that of a legible part it notes all
redirections is `FindsRedirections`.

`ForkJoinSortProofs`: `[]NoSharedElements` and `[]CallsSort`, for every input, every
threshold and every width of `int`. There are two invariants. `TInv` is about the tree
of calls: `Tree`, below a call that is not waiting every call is through; `PartsOf`,
a part has its half of the slice as `cut` divides it, so that slices of two calls meet
only if one is below the other (`SharedSlice`); `Awaited`, `wg` is the number of parts
not started or not through; and where the indices of each call are. A step of one call
changes no element of the slice of another that is at work (`Moves`, `SliceKept`): that is
all the proof needs of the calls beside it. `IInv` adds what a call has done to its slice
at each place in the code (`Data`): it is a permutation of what the call was given
(`before`), sorted up to `i`, or partitioned at the pivot up to `i`, or divided, or merged up
to `i` and `j`. While the parts run nothing can be said of the elements in their
slices, so `Divided` speaks of `Held`, the slice with what the parts were given in place of
what they have made of it; when both are through, their permutations are joined to one of
the whole (`PartsSorted`, `PermJoin`). The result of a call counts only until its
caller has gone on (`Live`), because the caller then moves the elements itself. A permutation is a
bijection of positions (`Permutes`); only at the end it is turned into the
equal numbers of equal elements that `CallsSort` asks for (`SameElements`). `qsort` is
assumed to sort when no difference of two elements of its half overflows, as in the
model; then `cmp` is the order of the integers.

`KernelProofs`, for the schedulers: `[]NextNodeInList` (with the types),
`[]EachTaskGetsItsBurst`, `[]TasksRunInPolicyOrder` and `[]TurnsAreFair`, for all five
programs, any number of tasks, bursts, priorities down to 0 and any quantum. The one
hypothesis is `NamesApart`: no two lines of the input can hold one name. Without it the
theorems are false, as the run `sched_names` shows, since `delete` goes by name. The
invariant `SchedInv` says that each list holds the tasks of its priority that wait, from
the newest to the oldest (`Listed`). The lists are pointers; `Holds` says it of each link
by itself: the head is the newest of a set of tasks, and the link of each leads to the
newest of those older than it. That is easy to keep up when a node is put in or taken out
(`PushHolds`, `DeleteHolds`), and `ChainDescends` reads from it the sequence that a walk
sees. The walks, the sums `Served` and the choices of `pickNextTask` are recursive
functions, followed with `InductionTo`. `Accounts` is the sum of the slices of a task;
`Levels`, the tasks above the level are gone and those below it have not run; `Cursor`,
`next_node` waits; `Order`, who ran comes before who waits. `Rounds` is why turns are fair:
in a round robin the tasks that `next_node` has passed (the newer ones) have had one turn
more than the others, and a task that is gone never more than they.

`Counting` has, beside the counts, induction and recursion up to a bound (`InductionTo`,
`RecursionTo`). They are stated with sets and functions where the library's
theorems have operators as parameters, and rest on `LeastNat`.

## What is only model-checked

Liveness under fairness, and with it every leads-to property: `ENABLED` is beyond the
prover. Every safety property that a passing run checks is stated by a theorem.

## What is not modelled

* Project-4: tasks whose priority is above 10 or negative or whose burst is not positive,
  which `driver.c` does not check.
* Projects 6 to 8: parsing of commands and input files (in particular `fgets` into eight
  bytes in Project-8, and the end of input, at which banker and allocator repeat their
  last command for ever). A hole of `SIZE_MAX` bytes, which best fit would miss.
* Project-2-1: the end of input at the terminal, at which the shell prompts for ever;
  prompts and standard I/O buffers that a child which returned into `main` writes to a
  pipe or file or has read ahead from one; lines longer than `args`; the heap:
  the addresses of words, freed twice when leftovers of a pipe meet a redirection.
* Project-2-2 and Project-1: `kmalloc` and the copying in `proc_write`, `usr_buf` and
  `count` of `proc_read` but for a copy that fails.
* Project-3: printing, among it the mutex around it in `sort.go`, and reading the input.
* Output, and failing `malloc`, `pthread_create` or file operations except those the shell
  handles; most of the programs do not handle them.

## Plan

Larger instances where time allows: a shell of five processes, three readers of a
/proc file.
