\* One message in each direction, and all faults.
CONSTANTS
    Window = 1
    Faults = {"cut", "death", "kill"}
    Inputs <- Lists
    Samples <- SampleLists
    Numbers <- NumberLists
SPECIFICATION FairStreams
INVARIANTS WholeAnswers CrashesOfItsConstructor NothingLost
PROPERTIES LongListsBlock ImplementsResponseStream EveryClientReturns EveryReactorIsDeleted
\* Calls end, or block.
CHECK_DEADLOCK FALSE
