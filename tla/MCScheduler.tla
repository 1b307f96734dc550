---------------------------- MODULE MCScheduler ----------------------------
(* Instances of Scheduler for TLC: bursts below, at and above the quantum, *)
(* two priorities and, for the first task, one below them, and tasks with  *)
(* names of their own or one shared name.                                  *)
EXTENDS Scheduler

MC_Bursts == {1, 2, 5}
MC_OwnNames == [n \in 1 .. MaxTasks |-> {n}]
MC_OnePriorityTooLow == [n \in 1 .. MaxTasks |-> IF n = 1 THEN {0, 1, 2} ELSE {1, 2}]
MC_ValidPriorities == [n \in 1 .. MaxTasks |-> {1, 2}]
MC_SharedNames == [n \in 1 .. MaxTasks |-> {1, n}]
=============================================================================
