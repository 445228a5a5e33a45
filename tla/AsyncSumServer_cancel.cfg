\* The server as main() runs it: one thread, three clients that may all give
\* up, under the fairness of the threads and of the gRPC runtime.  One address
\* per object that can ever exist: |Handlers| + |Calls|.
CONSTANTS
  Calls = {c1, c2, c3}
  Cancellable = {c1, c2, c3}
  Handlers = {h1}
  Addresses = {d1, d2, d3, d4}
  None = None
SPECIFICATION FairSpec
INVARIANTS IInv LoopEndsOnCancelOnly
PROPERTIES ImplementsUnaryService EveryCallAnswered FinishedAreFreed
\* The process ends after its first failed event.
CHECK_DEADLOCK FALSE
