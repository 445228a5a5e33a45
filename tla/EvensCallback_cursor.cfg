\* No faults, and one message in each direction.
CONSTANTS
    Window = 1
    Faults = {}
    Inputs <- NumberLists
SPECIFICATION Spec
INVARIANT SendsItsNumbers
\* Calls end.
CHECK_DEADLOCK FALSE
