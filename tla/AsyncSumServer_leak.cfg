\* A client gives up and the object of its call is lost.
CONSTANTS
  Calls = {c1, c2, c3}
  Cancellable = {c1}
  Handlers = {h1}
  Addresses = {d1, d2, d3, d4}
  None = None
SPECIFICATION Spec
INVARIANTS InstancesDeallocateThemselves
\* The process ends after its first failed event.
CHECK_DEADLOCK FALSE
