SPECIFICATION Spec
CONSTANTS
    Thread = {1, 2}
    Worker = {1}
    External = {2}
    Control = {"a"}
    NestedIn <- Flat
    NoThread = 0
INVARIANT CompletedOnReturn
