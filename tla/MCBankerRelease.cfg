\* A release that fails after its first resource and is rolled back.  The stray
\* write changes nothing here: what is lost is what the rollback did not restore.
SPECIFICATION Spec
CONSTANTS
    NUMBER_OF_CUSTOMERS = 3
    NUMBER_OF_RESOURCES = 3
    Supplies <- MC_Supplies
    Demands <- MC_Demands
    Amounts <- MC_Amounts
    Garbage = {0}
    Neighbours = {"nothing"}
    MaxSpoils = 1
CHECK_DEADLOCK FALSE
INVARIANT ResourcesConserved
