SPECIFICATION Spec
CONSTANTS
    Waiters = {1, 2}
    Notifiers = {3}
    MaxTokens = 2
INVARIANTS
    NoLostSignal
CHECK_DEADLOCK FALSE
