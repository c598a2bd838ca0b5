SPECIFICATION FairSpec
CONSTANTS
    Thread = {"t1", "t2", "t3"}
    Key = {1, 2}
    Workload <- Contending
    MaxNow = 1
    DiesAnywhere = FALSE
INVARIANTS
    ClientAccounting
    SleepersExact
PROPERTIES
    EveryRequestServed
CHECK_DEADLOCK FALSE
