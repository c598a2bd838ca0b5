SPECIFICATION Spec
CONSTANTS
    Thread = {1, 2, 3}
    Locker = {1, 2, 3}
    MaxOps = 4
    OwnerRadix = 5
    WaiterRadix = 2
    WTidRadix = 4
INVARIANTS
    RefereeAccounting
CHECK_DEADLOCK FALSE
