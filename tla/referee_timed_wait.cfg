SPECIFICATION Spec
CONSTANTS
    Thread = {"t1", "t2"}
    Key = {1}
    Workload <- TimedWait
    MaxNow = 1
    DiesAnywhere = FALSE
INVARIANTS
    WaitTellsTruth
CHECK_DEADLOCK FALSE
