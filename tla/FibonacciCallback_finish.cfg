\* A client is gone while the server writes.
CONSTANTS
  Calls = {c1, c2}
  Fragile = {c1}
  Limits = {2}
  Window = 1
SPECIFICATION FairSpec
PROPERTIES FinishIsLast
\* Every call ends, and a server without calls waits.
CHECK_DEADLOCK FALSE
