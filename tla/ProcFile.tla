------------------------------ MODULE ProcFile ------------------------------
(***************************************************************************)
(* The files /proc/jiffies, /proc/seconds (Project-1) and /proc/pid        *)
(* (Project-2-2), and the programs that read and write them.               *)
(*                                                                         *)
(* A program such as cat calls proc_read until that returns 0.  proc_read  *)
(* tells its second call from its first by the static variable completed,  *)
(* which all readers share, and no lock protects it or current_pid.  Each  *)
(* action is one access to what is shared.  The variable module says which *)
(* of the three modules this is.                                           *)
(***************************************************************************)
EXTENDS Integers

CONSTANTS Readers,       \* programs that read the file
          Pids,          \* numbers of tasks
          JIFFIES_MOD,   \* 2^32 or 2^64, the range of unsigned long
          HZ,            \* jiffies in a second
          MaxOpens,      \* bound: how often the file is opened
          MaxUptime      \* bound: jiffies counted while the module is loaded

ASSUME ProcFileAssumption ==
    /\ Pids \subseteq Nat \ {0}
    /\ {JIFFIES_MOD, HZ} \subseteq Nat \ {0}
    /\ {MaxOpens, MaxUptime} \subseteq Nat

VARIABLES module,
          entry,         \* the entry in /proc: "absent", "created" or "ready"
          completed, current_pid, start_jiffies,
          jiffies,
          live_tasks,    \* tasks that exist, by number
          pc,            \* where each reader is in proc_read, or in between
          tsk,           \* the task it looked up
          buffer,        \* its buffer: the report it is given
          reports,       \* how many reports it got: 0, 1 or 2 (more than one)
          \* History variables:
          opens, uptime,
          abandoned,     \* some reader left the file without an end of file
          alone,         \* the reader has had the file to itself
          current        \* values of current_pid since it began to read

shared == <<completed, current_pid, start_jiffies>>
kernel == <<entry, jiffies, live_tasks, uptime>>
outcome == <<tsk, buffer, reports, opens, abandoned, alone, current>>
procVars == <<module, shared, kernel, pc, outcome>>

NoTask == 0
NoReport == [comm |-> NoTask, pid |-> NoTask, time |-> 0]
Garbage == -1                   \* the name of a task that is gone
Open == {r \in Readers : pc[r] # "closed"}
-----------------------------------------------------------------------------
(* proc_read.                                                              *)

Goto(r, label) == pc' = [pc EXCEPT ![r] = label]

Test(r) ==
    /\ pc[r] = "ready"
    /\ Goto(r, IF completed THEN "reset" ELSE IF module = "pid" THEN "lookup" ELSE "complete")
    /\ current' = [current EXCEPT ![r] = IF completed THEN {} ELSE {current_pid}]
    /\ UNCHANGED <<module, shared, kernel, tsk, buffer, reports, opens, abandoned, alone>>

(* The end of the file: the reader closes it.                              *)
ResetForgotten(r) ==
    pc[r] = "reset" /\ Goto(r, "closed") /\ UNCHANGED <<module, shared, kernel, outcome>>
Reset(r) ==
    /\ pc[r] = "reset" /\ Goto(r, "closed")
    /\ completed' = FALSE
    /\ abandoned' = FALSE
    /\ UNCHANGED <<module, current_pid, start_jiffies, kernel>>
    /\ UNCHANGED <<tsk, buffer, reports, opens, alone, current>>

(* find_vpid and pid_task; without a task this is an end of the file, too. *)
Lookup(r) ==
    /\ pc[r] = "lookup"
    /\ IF current_pid \in live_tasks
       THEN Goto(r, "format") /\ tsk' = [tsk EXCEPT ![r] = current_pid] /\ UNCHANGED current
       ELSE Goto(r, "closed") /\ current' = [current EXCEPT ![r] = {}] /\ UNCHANGED tsk
    /\ UNCHANGED <<module, shared, kernel, buffer, reports, opens, abandoned, alone>>

ElapsedWithoutWrap == (jiffies - start_jiffies) \div HZ
Elapsed == ((jiffies - start_jiffies) % JIFFIES_MOD) \div HZ

Told(r) == reports' = [reports EXCEPT ![r] = IF @ = 0 THEN 1 ELSE 2]

(* snprintf reads current_pid a second time, and a task that may be gone.  *)
FormatTask(r) ==
    /\ pc[r] = "format" /\ module = "pid"
    /\ Goto(r, "complete")
    /\ \E name \in IF tsk[r] \in live_tasks THEN {tsk[r]} ELSE Pids \cup {Garbage} :
           buffer' = [buffer EXCEPT ![r] = [comm |-> name, pid |-> current_pid, time |-> 0]]
    /\ tsk' = [tsk EXCEPT ![r] = NoTask]
    /\ current' = [current EXCEPT ![r] = {}]
    /\ UNCHANGED <<module, shared, kernel, reports, opens, abandoned, alone>>

(* /proc/jiffies and /proc/seconds: sprintf comes after completed is set.  *)
FormatTime(r) ==
    /\ pc[r] = "format" /\ module # "pid"
    /\ Goto(r, "ready")
    /\ buffer' = [buffer EXCEPT ![r].time = IF module = "seconds" THEN Elapsed ELSE jiffies]
    /\ Told(r)
    /\ UNCHANGED <<module, shared, kernel, tsk, opens, abandoned, alone, current>>

(* completed = 1, and for /proc/pid the copy, which fails if the reader's  *)
(* buffer is no memory of its own: then it gives up.                       *)
NotCompleted(r) ==
    /\ pc[r] = "complete" /\ Goto(r, IF module = "pid" THEN "ready" ELSE "format")
    /\ UNCHANGED <<module, shared, kernel, outcome>>
Complete(r) ==
    /\ pc[r] = "complete"
    /\ completed' = TRUE
    /\ IF module # "pid" THEN Goto(r, "format") /\ UNCHANGED <<reports, abandoned>>
       ELSE \/ Goto(r, "ready") /\ Told(r) /\ UNCHANGED abandoned
            \/ Goto(r, "closed") /\ abandoned' = TRUE /\ UNCHANGED reports
    /\ buffer' = [buffer EXCEPT ![r] = NoReport]
    /\ UNCHANGED <<module, current_pid, start_jiffies, kernel, tsk, opens, alone, current>>

proc_read(r) == \/ Test(r) \/ Reset(r) \/ Lookup(r) \/ FormatTask(r) \/ FormatTime(r)
                \/ Complete(r)
-----------------------------------------------------------------------------
(* The programs that use the file.                                         *)

OpenFile(r) ==
    /\ entry # "absent" /\ pc[r] = "closed" /\ opens < MaxOpens
    /\ Goto(r, "ready")
    /\ opens' = opens + 1
    /\ alone' = [q \in Readers |-> IF q = r THEN Open = {} /\ ~abandoned ELSE FALSE]
    /\ buffer' = [buffer EXCEPT ![r] = NoReport]
    /\ reports' = [reports EXCEPT ![r] = 0]
    /\ UNCHANGED <<module, shared, kernel, tsk, abandoned, current>>

(* A reader such as head needs no end of file.                             *)
Quit(r) ==
    /\ pc[r] = "ready" /\ reports[r] > 0
    /\ Goto(r, "closed")
    /\ abandoned' = TRUE
    /\ UNCHANGED <<module, shared, kernel, tsk, buffer, reports, opens, alone, current>>

(* kstrtoint leaves current_pid alone unless it was given a number.        *)
proc_write(pid) ==
    /\ module = "pid" /\ entry # "absent"
    /\ current_pid' = pid
    /\ current' = [r \in Readers |-> IF pc[r] \in {"lookup", "format"}
                                    THEN current[r] \cup {pid} ELSE {}]
    /\ UNCHANGED <<module, completed, start_jiffies, kernel, pc, tsk, buffer, reports>>
    /\ UNCHANGED <<opens, abandoned, alone>>
-----------------------------------------------------------------------------
(* The kernel: loading and removing the module, tasks, and time.           *)

(* proc_create: from here on the file can be read.  The static variables   *)
(* are new; alone, the name of the file that was removed is forgotten.     *)
CreateEntry ==
    /\ entry = "absent" /\ entry' = "created"
    /\ completed' = FALSE /\ current_pid' = 0 /\ start_jiffies' = 0
    /\ abandoned' = FALSE
    /\ uptime' = 0
    /\ UNCHANGED <<module, jiffies, live_tasks, pc, tsk, buffer, reports, opens, alone, current>>

SetStart ==
    /\ entry = "created" /\ entry' = "ready"
    /\ start_jiffies' = IF module = "seconds" THEN jiffies ELSE start_jiffies
    /\ uptime' = 0
    /\ UNCHANGED <<module, completed, current_pid, jiffies, live_tasks, pc, outcome>>

(* remove_proc_entry waits for calls of proc_read to return; those who     *)
(* still have the file open get an error from their next one.              *)
proc_exit ==
    /\ entry = "ready" /\ entry' = "absent"
    /\ \A r \in Readers : pc[r] \in {"closed", "ready"}
    /\ pc' = [r \in Readers |-> "closed"]
    /\ UNCHANGED <<module, shared, jiffies, live_tasks, uptime, outcome>>

Tick ==
    /\ module # "pid" /\ entry # "absent" /\ uptime < MaxUptime
    /\ uptime' = uptime + 1
    /\ jiffies' = (jiffies + 1) % JIFFIES_MOD
    /\ UNCHANGED <<module, shared, entry, live_tasks, pc, outcome>>

TaskEnds(pid) ==
    /\ module = "pid" /\ pid \in live_tasks
    /\ live_tasks' = live_tasks \ {pid}
    /\ UNCHANGED <<module, shared, entry, jiffies, uptime, pc, outcome>>

ProcInit ==
    /\ module \in {"jiffies", "seconds", "pid"}
    /\ entry = "absent"
    /\ completed = FALSE /\ current_pid = 0 /\ start_jiffies = 0
    /\ jiffies \in IF module = "pid" THEN {0} ELSE 0 .. JIFFIES_MOD - 1
    /\ live_tasks = Pids
    /\ pc = [r \in Readers |-> "closed"]
    /\ tsk = [r \in Readers |-> NoTask]
    /\ buffer = [r \in Readers |-> NoReport]
    /\ reports = [r \in Readers |-> 0]
    /\ opens = 0 /\ uptime = 0
    /\ abandoned = FALSE
    /\ alone = [r \in Readers |-> FALSE]
    /\ current = [r \in Readers |-> {}]

ProcNext ==
    \/ \E r \in Readers : proc_read(r) \/ OpenFile(r) \/ Quit(r)
    \/ \E pid \in Pids : proc_write(pid) \/ TaskEnds(pid)
    \/ CreateEntry \/ SetStart \/ proc_exit \/ Tick

(* A call of proc_read goes on to its end; a reader that has the file open *)
(* reads it again or quits.                                                *)
ProcSpec == ProcInit /\ [][ProcNext]_procVars /\ \A r \in Readers : WF_procVars(proc_read(r))
-----------------------------------------------------------------------------
(* Properties.                                                             *)

Labels == {"closed", "ready", "reset", "lookup", "format", "complete"}

ProcTypeOK ==
    /\ module \in {"jiffies", "seconds", "pid"}
    /\ entry \in {"absent", "created", "ready"}
    /\ completed \in BOOLEAN /\ abandoned \in BOOLEAN
    /\ current_pid \in Pids \cup {0}
    /\ jiffies \in 0 .. JIFFIES_MOD - 1 /\ start_jiffies \in 0 .. JIFFIES_MOD - 1
    /\ live_tasks \subseteq Pids
    /\ opens \in Nat /\ uptime \in Nat
    /\ pc \in [Readers -> Labels]
    /\ tsk \in [Readers -> Pids \cup {NoTask}]
    /\ buffer \in [Readers -> [comm : Int, pid : Int, time : Int]]
    /\ reports \in [Readers -> 0 .. 2]
    /\ alone \in [Readers -> BOOLEAN]
    /\ current \in [Readers -> SUBSET (Pids \cup {0})]

(* completed outlives the read it is for.  When it is set, either a reader *)
(* has the file open that will reset it, or some reader has left early: no *)
(* interleaving of readers leaves it set behind.  (pid_module.c:52)        *)
FreshWhenUnused ==
    /\ ProcTypeOK
    /\ entry # "absent" /\ completed => abandoned \/ Open # {}

(* A reader that has the file to itself, and found it fresh, gets one      *)
(* report and then the end of the file, whatever others have done before.  *)
(* Without a task of that number it gets none.  (seconds_module.c:48-52)   *)
LoneReaderReadsOnce ==
    \A r \in Readers : alone[r] =>
        /\ reports[r] \in {0, 1}
        /\ pc[r] = "reset" => reports[r] = 1
        /\ pc[r] \in {"lookup", "format", "complete"} => reports[r] = 0

(* A report about a task names one and its number, both as they were some  *)
(* time during this call; they belong together unless the file was written *)
(* meanwhile.  (pid_module.c:58-62)  A report of seconds counts those from *)
(* proc_init, also when jiffies wrap around in between, unless proc_init   *)
(* has not yet noted when that was.  (seconds_module.c:53)                 *)
Formats(r) == pc[r] = "format" /\ pc'[r] # "format"
TaskIsRight(r) ==
    tsk[r] \in live_tasks =>
        /\ {buffer'[r].comm, buffer'[r].pid} \subseteq current[r]
        /\ current[r] = {current_pid} => buffer'[r].comm = buffer'[r].pid
SecondsAreRight(r) ==
    entry = "ready" /\ uptime < JIFFIES_MOD => buffer'[r].time = uptime \div HZ
ReportIsRight ==
    [][\A r \in Readers : Formats(r) =>
          /\ module = "pid" => TaskIsRight(r)
          /\ module = "seconds" => SecondsAreRight(r)]_procVars

(* One reader's end of file may be taken by another one, who gets nothing, *)
(* while the first is told again.  Still, as long as no new readers come,  *)
(* all of them come to an end.  (pid_module.c:44-46: "there must be logic  *)
(* that ensures it ultimately returns 0")                                  *)
ReadersEnd == \A r \in Readers : (pc[r] # "closed") ~> (pc[r] = "closed")
=============================================================================
