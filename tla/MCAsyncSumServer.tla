-------------------------- MODULE MCAsyncSumServer --------------------------
(* Finite instances of AsyncSumServer for TLC. *)
EXTENDS AsyncSumServer, TLC

\* Calls that may be cancelled are not interchangeable with the others, so
\* the symmetry keeps Cancellable in place.
Symmetry == Permutations(Addresses) \cup Permutations(Handlers)
            \cup Permutations(Cancellable) \cup Permutations(Calls \ Cancellable)
=============================================================================
