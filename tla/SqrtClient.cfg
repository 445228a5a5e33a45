\* All command lines of at most two arguments.
CONSTANTS
  Arguments <- ArgumentLists
SPECIFICATION FairSpec
INVARIANTS OwnStatus ReturnsAfterCallback
PROPERTIES EveryArgumentReported
\* main() returns.
CHECK_DEADLOCK FALSE
