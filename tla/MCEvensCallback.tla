--------------------------- MODULE MCEvensCallback ---------------------------
(* Lists for EvensCallback alone. *)
EXTENDS EvensCallback

\* The shortest lists that show a number sent twice, or not at all.
NumberLists == {<<>>, <<2>>, <<1, 2>>, <<2, 1, 4>>}
=============================================================================
