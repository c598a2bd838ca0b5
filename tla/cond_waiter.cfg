SPECIFICATION FairSpec
CONSTANTS
    Waiters = {1}
    Notifiers = {2}
    MaxTokens = 4
INVARIANTS
    SleeperIsCounted
PROPERTIES
    EveryTokenConsumed
