\* HandleRpcs in two threads, three clients, two of which may give up.
CONSTANTS
  Calls = {c1, c2, c3}
  Cancellable = {c1, c2}
  Handlers = {h1, h2}
  Addresses = {d1, d2, d3, d4, d5}
  None = None
SPECIFICATION Spec
SYMMETRY Symmetry
INVARIANTS SingleOwner NoUseAfterFree AcceptCapacity LeakPerExit
\* The process ends after its last thread has met a failed event.
CHECK_DEADLOCK FALSE
