SPECIFICATION RobustFairSpec
CONSTANTS
    Thread = {1, 2, 3}
    Locker = {2}
    MaxOps = 5
    OwnerRadix = 5
    WaiterRadix = 4
    WTidRadix = 4
    Mortal = {1}
    DeathPC = {"held"}
    Diligent = {}
INVARIANTS
    DeathUndone
PROPERTIES
    OwnerDeathReported
    EverySurvivorReturns
