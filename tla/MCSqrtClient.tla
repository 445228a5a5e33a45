---------------------------- MODULE MCSqrtClient ----------------------------
(* Command lines of up to two arguments for SqrtClient. *)
EXTENDS SqrtClient, SequencesExt

ArgumentLists == UNION {[1..n -> {"good", "negative", "junk"}] : n \in 0..2}
=============================================================================
