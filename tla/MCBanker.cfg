\* Three customers, three resources, amounts -1 to 1; some initial states are unsafe.
SPECIFICATION Spec
CONSTANTS
    NUMBER_OF_CUSTOMERS = 3
    NUMBER_OF_RESOURCES = 3
    Supplies <- MC_Supplies
    Demands <- MC_Demands
    Amounts <- MC_Amounts
    Garbage <- MC_Garbage
    Neighbours <- MC_Neighbours
    MaxSpoils = 1
CHECK_DEADLOCK FALSE
INVARIANT AccountsBalance
PROPERTY StaysSafe
INVARIANT GreedyChoiceDecidesSafety
PROPERTY FailedCommandChangesNothing
