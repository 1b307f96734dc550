------------------------------ MODULE Scheduler ------------------------------
(***************************************************************************)
(* The five schedulers of Project-4: driver.c with one of schedule_fcfs.c, *)
(* schedule_sjf.c, schedule_priority.c, schedule_rr.c and                  *)
(* schedule_priority_rr.c.                                                 *)
(*                                                                         *)
(* The driver reads the tasks one by one into a linked list, newest first, *)
(* and calls schedule.  One action is one line of input or one turn of the *)
(* loop in schedule: pick a task, run it, delete it when it is through.    *)
(* list.c deletes by name, and next_node points into the list across the   *)
(* deletion, so the model keeps the pointers.                              *)
(***************************************************************************)
EXTENDS Integers, SequencesExt

CONSTANTS Policies,               \* the programs: those checked of "fcfs",
                                  \* "sjf", "priority", "rr", "priority_rr"
          QUANTUM,
          MIN_PRIORITY, MAX_PRIORITY,
          Bursts,                 \* the bursts of the tasks
          LineNames,              \* the names each line of the input may hold
          LinePriorities,         \* and the priorities, which nothing checks
          MaxTasks                \* bound: lines of the input

ASSUME SchedulerAssumption ==
    /\ Policies \subseteq {"fcfs", "sjf", "priority", "rr", "priority_rr"}
    /\ QUANTUM \in Nat \ {0}
    /\ MIN_PRIORITY \in Nat \ {0} /\ MAX_PRIORITY \in Nat
    /\ MIN_PRIORITY <= MAX_PRIORITY
    /\ Bursts \subseteq Nat
    /\ MaxTasks \in Nat
    /\ DOMAIN LineNames = 1 .. MaxTasks
    /\ LinePriorities \in [1 .. MaxTasks -> SUBSET (0 .. MAX_PRIORITY)]

NULL == 0
Names == UNION Range(LineNames)
Ids == 1 .. MaxTasks
Priorities == UNION Range(LinePriorities)
Lists == 0 .. MAX_PRIORITY

VARIABLES policy,       \* which program
          phase,        \* "reading" the input, "scheduling", "done"
          tasks,        \* the tasks read; a task and its node are named by
                        \* the number of the input line
          remaining_burst,
          taskList,     \* the first node of each list
          link,         \* next of each node
          next_node,
          level,        \* p in schedule_priority_rr.c
          ran           \* the output: who ran for how long

schedVars == <<policy, phase, tasks, remaining_burst, taskList, link, next_node,
          level, ran>>

TimeSliced == policy \in {"rr", "priority_rr"}

(* The nodes from taskList[p] on.                                          *)
Chain(p) ==
    LET at[k \in 0 .. MaxTasks] ==
            IF k = 0 THEN taskList[p]
            ELSE IF at[k - 1] = NULL THEN NULL ELSE link[at[k - 1]]
    IN [k \in {n \in Ids : at[n - 1] # NULL} |-> at[k - 1]]
-----------------------------------------------------------------------------
(* list.c                                                                  *)

insert(p, n) == /\ link' = [link EXCEPT ![n] = taskList[p]]
                /\ taskList' = [taskList EXCEPT ![p] = n]

HeadSkipped(p, t) ==
    IF SelectInSeq(Tail(Chain(p)), LAMBDA n : tasks[n].name = tasks[t].name) = 0 THEN 0
    ELSE 1 + SelectInSeq(Tail(Chain(p)), LAMBDA n : tasks[n].name = tasks[t].name)

(* The place in the list of the first task named like task t.              *)
FirstNamed(p, t) ==
    SelectInSeq(Chain(p), LAMBDA n : tasks[n].name = tasks[t].name)

DeleteHead(p, t) ==
    /\ taskList' = [taskList EXCEPT ![p] = link[@]]
    /\ UNCHANGED link

delete(p, t) ==
    LET k == FirstNamed(p, t)
        n == Chain(p)[k]
    IN /\ k > 0
       /\ IF k = 1
          THEN taskList' = [taskList EXCEPT ![p] = link[n]] /\ UNCHANGED link
          ELSE link' = [link EXCEPT ![Chain(p)[k - 1]] = link[n]] /\ UNCHANGED taskList
-----------------------------------------------------------------------------
(* driver.c: one line of input; add of all five schedulers.                *)
ListOf(priority) == IF policy = "priority_rr" THEN priority ELSE 0

add(name, priority, burst) ==
    LET n == Len(tasks) + 1 IN
    /\ phase = "reading"
    /\ n <= MaxTasks
    /\ name \in LineNames[n] /\ priority \in LinePriorities[n]
    /\ tasks' = Append(tasks, [name |-> name, priority |-> priority, burst |-> burst])
    /\ remaining_burst' = [remaining_burst EXCEPT ![n] = burst]
    /\ insert(ListOf(priority), n)
    /\ UNCHANGED <<policy, phase, next_node, level, ran>>

(* The end of the input: schedule is called.                               *)
CallSchedule ==
    /\ phase = "reading"
    /\ phase' = "scheduling"
    /\ level' = IF policy = "priority_rr" THEN MAX_PRIORITY ELSE 0
    /\ next_node' = taskList[level']
    /\ UNCHANGED <<policy, tasks, remaining_burst, taskList, link, ran>>
-----------------------------------------------------------------------------
(* pickNextTask of the programs that run a task to its end.  The list is   *)
(* walked from the newest task to the oldest.                              *)

Newest(chain) == Head(chain)
Oldest(chain) == Last(chain)

ShortestJob(chain) ==
    LET job[k \in 0 .. Len(chain)] ==
            IF k = 0 THEN Head(chain)
            ELSE IF tasks[chain[k]].burst <= tasks[job[k - 1]].burst THEN chain[k]
            ELSE job[k - 1]
    IN job[Len(chain)]

HighestPriorityJob(chain) ==
    LET job[k \in 0 .. Len(chain)] ==
            IF k = 0 THEN Head(chain)
            ELSE IF tasks[chain[k]].priority >= tasks[job[k - 1]].priority THEN chain[k]
            ELSE job[k - 1]
    IN job[Len(chain)]

pickNextTask(chain) == CASE policy = "fcfs" -> Oldest(chain)
                         [] policy = "sjf" -> ShortestJob(chain)
                         [] policy = "priority" -> HighestPriorityJob(chain)

run(t, slice) == ran' = Append(ran, [task |-> t, slice |-> slice])

RunToEnd ==
    /\ phase = "scheduling"
    /\ ~TimeSliced
    /\ taskList[level] # NULL
    /\ LET t == pickNextTask(Chain(level))
       IN run(t, tasks[t].burst) /\ delete(level, t)
    /\ UNCHANGED <<policy, phase, tasks, remaining_burst, next_node, level>>
-----------------------------------------------------------------------------
(* The turns of schedule_rr.c and schedule_priority_rr.c.                  *)

FromHead(n) == taskList[level]
After(n) == IF link[n] # NULL THEN link[n] ELSE taskList[level]

Slice(t) == IF QUANTUM < remaining_burst[t] THEN QUANTUM ELSE remaining_burst[t]

Through(t) == remaining_burst'[t] = 0

RunSlice ==
    /\ phase = "scheduling"
    /\ TimeSliced
    /\ taskList[level] # NULL
    /\ LET t == next_node IN
       /\ next_node' = After(t)
       /\ run(t, Slice(t))
       /\ remaining_burst' = [remaining_burst EXCEPT ![t] = @ - Slice(t)]
       /\ IF Through(t) THEN delete(level, t) ELSE UNCHANGED <<taskList, link>>
    /\ UNCHANGED <<policy, phase, tasks, level>>

(* The loop over the priorities goes on to the next lower one.             *)
LowerKeepsNode ==
    /\ phase = "scheduling"
    /\ policy = "priority_rr" /\ level > MIN_PRIORITY
    /\ taskList[level] = NULL
    /\ level' = level - 1
    /\ UNCHANGED <<policy, phase, tasks, remaining_burst, taskList, link, next_node, ran>>

LowerPriority ==
    /\ phase = "scheduling"
    /\ policy = "priority_rr" /\ level > MIN_PRIORITY
    /\ taskList[level] = NULL
    /\ level' = level - 1
    /\ next_node' = taskList[level']
    /\ UNCHANGED <<policy, phase, tasks, remaining_burst, taskList, link, ran>>

ScheduleReturn ==
    /\ phase = "scheduling"
    /\ taskList[level] = NULL
    /\ policy = "priority_rr" => level = MIN_PRIORITY
    /\ phase' = "done"
    /\ UNCHANGED <<policy, tasks, remaining_burst, taskList, link, next_node,
                   level, ran>>

schedule == RunToEnd \/ RunSlice \/ LowerPriority \/ ScheduleReturn

Exited == phase = "done" /\ UNCHANGED schedVars
-----------------------------------------------------------------------------
SchedInit ==
    /\ policy \in Policies
    /\ phase = "reading"
    /\ tasks = <<>>
    /\ remaining_burst = [n \in Ids |-> 0]
    /\ taskList = [p \in Lists |-> NULL]
    /\ link = [n \in Ids |-> NULL]
    /\ next_node = NULL /\ level = 0
    /\ ran = <<>>

SchedNext ==
    \/ \E name \in Names, priority \in Priorities, burst \in Bursts :
           add(name, priority, burst)
    \/ CallSchedule
    \/ schedule
    \/ Exited

(* The program runs: it reads its input to the end and does not stop.      *)
Fairness == WF_schedVars(CallSchedule) /\ WF_schedVars(schedule)

SchedSpec == SchedInit /\ [][SchedNext]_schedVars /\ Fairness
-----------------------------------------------------------------------------
(* Properties.                                                             *)

SchedTypeOK ==
    /\ policy \in Policies
    /\ phase \in {"reading", "scheduling", "done"}
    /\ tasks \in Seq([name : Names, priority : Priorities, burst : Bursts])
    /\ remaining_burst \in [Ids -> UNION {0 .. burst : burst \in Bursts \cup {0}}]
    /\ taskList \in [Lists -> Ids \cup {NULL}]
    /\ link \in [Ids -> Ids \cup {NULL}]
    /\ next_node \in Ids \cup {NULL}
    /\ level \in Lists

Read == DOMAIN tasks
TurnsOf(t) == {k \in DOMAIN ran : ran[k].task = t}
Served(t) ==
    LET served[k \in 0 .. Len(ran)] ==
            IF k = 0 THEN 0
            ELSE served[k - 1] + (IF ran[k].task = t THEN ran[k].slice ELSE 0)
    IN served[Len(ran)]

(* next_node is computed before the task that just ran is deleted and used *)
(* after it: it never points to a node that is not in the list any more.   *)
NextNodeInList ==
    /\ SchedTypeOK
    /\ phase = "scheduling" /\ TimeSliced /\ taskList[level] # NULL =>
           Contains(Chain(level), next_node)

(* schedule_priority_rr.c has a list for priority 0 and never looks there. *)
Overlooked(t) == policy = "priority_rr" /\ tasks[t].priority < MIN_PRIORITY

(* list.c:22: what is deleted is the selected task.  So when schedule      *)
(* returns every task has had its burst, no less and no more; only tasks   *)
(* below MIN_PRIORITY have had nothing, if the program has a list for each *)
(* priority.                                                               *)
EachTaskGetsItsBurst ==
    phase = "done" =>
        \A t \in Read : IF Overlooked(t) THEN TurnsOf(t) = {}
                        ELSE TurnsOf(t) # {} /\ Served(t) = tasks[t].burst

Precedes(s, t) ==
    CASE policy = "fcfs" -> s < t
      [] policy = "sjf" -> \/ tasks[s].burst < tasks[t].burst
                           \/ tasks[s].burst = tasks[t].burst /\ s < t
      [] policy = "priority" -> \/ tasks[s].priority > tasks[t].priority
                                \/ tasks[s].priority = tasks[t].priority /\ s < t

(* README.md:22, 44, 70: the tasks run in the order of the policy; tasks   *)
(* between which it does not decide run in the order of arrival, although  *)
(* the list holds them in the opposite order.                              *)
TasksRunInPolicyOrder ==
    ~TimeSliced =>
        \A i, j \in DOMAIN ran : i < j => Precedes(ran[i].task, ran[j].task)

Unfinished(t) == remaining_burst[t] > 0
Rank(t) == IF policy = "priority_rr" THEN tasks[t].priority ELSE 0

(* README.md:96: tasks of one rank take turns: none that is not finished   *)
(* gets a second turn more than another.  README.md:121: a task of a lower *)
(* priority runs only when all of higher priorities are finished.          *)
TurnsAreFair ==
    TimeSliced /\ phase = "scheduling" =>
        \A s, t \in Read :
            /\ Rank(s) = Rank(t) /\ Unfinished(t) =>
                   Cardinality(TurnsOf(s)) <= Cardinality(TurnsOf(t)) + 1
            /\ Rank(s) < Rank(t) /\ TurnsOf(s) # {} => ~Unfinished(t)

(* The loop of schedule ends: every task is deleted some time.             *)
ScheduleReturns == (phase = "scheduling") ~> (phase = "done")
=============================================================================
