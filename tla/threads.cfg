SPECIFICATION FairSpec
CONSTANTS
    Thread = {1, 2}
    Worker = {1}
    External = {2}
    Control = {"a", "b"}
    NestedIn <- Circular
    NoThread = 0
INVARIANTS
    RunsAtMostOnce
    NoUseAfterFree
    ResourcesReclaimed
    JoinGivesResult
PROPERTY EveryOnceReturns
