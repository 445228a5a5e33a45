------------------------------ MODULE MCStreams ------------------------------
(* Values for the constants of Streams that a .cfg cannot write. *)
EXTENDS Streams

\* Samples whose sums differ; evens behind an odd number, and more evens in a
\* row than the transport and its ends hold.
SampleLists == {<<>>, <<5>>, <<1, 2>>, <<1, 2, 4>>}
NumberLists == {<<>>, <<1, 2>>, <<2, 4, 6>>}

\* 02 with streams longer than the transport; 04 with all lists of odd and even
\* numbers, those that block among them.
Lists == [e \in Examples |->
            CASE e = "fibonacci" -> {<<n>> : n \in 0..3}
              [] e = "average"   -> SampleLists
              [] e = "evens"     -> UNION {[1..n -> {1, 2}] : n \in 0..4}]
=============================================================================
