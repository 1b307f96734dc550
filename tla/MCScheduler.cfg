\* Up to four tasks with names of their own, for each of the five schedulers.
SPECIFICATION SchedSpec
CONSTANTS
    Policies = {"fcfs", "sjf", "priority", "rr", "priority_rr"}
    QUANTUM = 2
    MIN_PRIORITY = 1
    MAX_PRIORITY = 2
    Bursts <- MC_Bursts
    LineNames <- MC_OwnNames
    LinePriorities <- MC_OnePriorityTooLow
    MaxTasks = 4
INVARIANT NextNodeInList
INVARIANT EachTaskGetsItsBurst
INVARIANT TasksRunInPolicyOrder
INVARIANT TurnsAreFair
PROPERTY ScheduleReturns
