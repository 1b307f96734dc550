\* Two tasks of one name.
SPECIFICATION SchedSpec
CONSTANTS
    Policies = {"fcfs", "sjf", "priority", "rr", "priority_rr"}
    QUANTUM = 2
    MIN_PRIORITY = 1
    MAX_PRIORITY = 2
    Bursts <- MC_Bursts
    LineNames <- MC_SharedNames
    LinePriorities <- MC_ValidPriorities
    MaxTasks = 2
INVARIANT EachTaskGetsItsBurst
