SPECIFICATION FairSpec
CONSTANTS
    Caller = {1, 2}
    Options <- Interfering
INVARIANTS
    SpawnTellsTruth
    ChildFds
    NothingLeft
PROPERTIES
    EverySpawnReturns
