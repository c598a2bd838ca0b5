SPECIFICATION Spec
CONSTANTS
    Thread = {1, 2, 3}
    Locker = {1, 2, 3}
    MaxOps = 4
    OwnerRadix = 5
    WaiterRadix = 4
    WTidRadix = 4
INVARIANTS
    MutexInv
    RefereeAccounting
PROPERTIES
    ImplementsMutex
CHECK_DEADLOCK FALSE
