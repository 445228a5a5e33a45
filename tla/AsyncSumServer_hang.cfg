\* A client gives up; the calls of the others must end.
CONSTANTS
  Calls = {c1, c2, c3}
  Cancellable = {c1}
  Handlers = {h1}
  Addresses = {d1, d2, d3, d4}
  None = None
SPECIFICATION FairSpec
PROPERTIES EveryCallEnds
\* The process ends after its first failed event.
CHECK_DEADLOCK FALSE
