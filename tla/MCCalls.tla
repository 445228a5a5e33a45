------------------------------- MODULE MCCalls -------------------------------
(* Values for the constants of Calls that a .cfg cannot write. *)
EXTENDS Calls

\* With five bits 9 * 2 overflows.  A length_error, an empty table, and INT_MAX.
Rows == {-3, -2, -1, 0, 1, 2, 15}

\* Every script of at most three commands.
UpTo(S, n)    == UNION {[1..k -> S] : k \in 0..n}
HealthAndQuit == [e \in ConsoleNames |-> IF e = "health" THEN UpTo({"s", "r", "q"}, 3)
                                                         ELSE {<<>>, <<"q">>}]
CallsAndQuit  == [e \in ConsoleNames |-> IF e = "health" THEN {<<>>}
                                                         ELSE UpTo({"c", "x", "q"}, 3)]

\* All the numbers of six bits.
SixBits == -32..31
=============================================================================
