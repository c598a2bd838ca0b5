SPECIFICATION Spec
CONSTANTS
    Thread = {1, 2}
    Locker = {1, 2}
    MaxOps = 4
    OwnerRadix = 5
    WaiterRadix = 4
    WTidRadix = 4
INVARIANTS
    NoLostWakeup
CHECK_DEADLOCK FALSE
