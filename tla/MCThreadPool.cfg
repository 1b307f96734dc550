\* Two bees, two submitting threads with three tasks each, a queue of two.
SPECIFICATION Spec
CONSTANTS
    s1 = s1
    s2 = s2
    NoTask = NoTask
    NoOne = NoOne
    Submitters <- MC_Submitters
    QUEUE_SIZE = 2
    NUMBER_OF_THREADS = 2
    TasksPerSubmitter = 3
INVARIANT TypeOK
INVARIANT TokensMatchQueue
INVARIANT DequeueNeverEmpty
INVARIANT DestroyIsSafe
PROPERTY ImplementsHandOff
PROPERTY AcceptedTaskExecuted
PROPERTY BusyWaitingEnds
PROPERTY ShutdownReturns
