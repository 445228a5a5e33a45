\* A fragile and a patient client of one server, streams of 0, 1 and 2 numbers,
\* one message less in the transport than the longest stream, under the fairness
\* of the callbacks and of the runtime.
CONSTANTS
  Calls = {c1, c2}
  Fragile = {c1}
  Limits = {0, 1, 2}
  Window = 1
SPECIFICATION FairSpec
INVARIANTS IInv StreamFromTheStart OnlyLostCallsAbort
PROPERTIES ImplementsResponseStream EveryClientReturns EveryReactorIsDeleted
\* Every call ends, and a server without calls waits.
CHECK_DEADLOCK FALSE
