\* The lengths a client may ask for: none, one, several.
CONSTANT
    Numbers = {0, 1, 3}
SPECIFICATION Spec
INVARIANT FromTheServer
\* main() ends.
CHECK_DEADLOCK FALSE
