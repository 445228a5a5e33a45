-------------------------- MODULE FibonacciNumbers --------------------------
(***************************************************************************)
(* The three generators of the course: GenerateFibonacci (02) appends to a *)
(* vector<uint32_t>; SetResponseStream (07, 33) keeps two unsigned ints;   *)
(* getFibonacci (22, 24, 27, 28, 33) calls itself for every element of a   *)
(* list of unsigned long long, whose first values are 0 and 1.  Clients of *)
(* 02 and 07 store uint64 messages in vectors of unsigned int.             *)
(*                                                                         *)
(* unsigned int has IntBits bits, unsigned long long LongBits.             *)
(*                                                                         *)
(* An operator named Name_Defect is Name with a plausible defect.          *)
(***************************************************************************)
EXTENDS Naturals, Sequences

CONSTANTS IntBits, LongBits, Limits

VARIABLES generator,  \* "GenerateFibonacci", "SetResponseStream", "getFibonacci"
          limit,      \* how many numbers are asked for
          a, b,       \* the locals of SetResponseStream
          list,       \* what has been generated
          received    \* what the client has of it

vars == <<generator, limit, a, b, list, received>>

Unsigned(x) == x % (2 ^ IntBits)
Long(x)     == x % (2 ^ LongBits)

TypeOK == /\ generator \in {"GenerateFibonacci", "SetResponseStream", "getFibonacci"}
          /\ limit \in Limits
          /\ {a, b} \subseteq 0..(2 ^ IntBits) - 1
          /\ list \in Seq(0..(2 ^ LongBits) - 1) /\ Len(list) <= limit
          /\ received \in Seq(0..(2 ^ LongBits) - 1) /\ Len(received) <= limit

Init == /\ generator \in {"GenerateFibonacci", "SetResponseStream", "getFibonacci"}
        /\ limit \in Limits
        /\ a = 0 /\ b = 1
        /\ list = <<>> /\ received = <<>>

i == Len(list)

-----------------------------------------------------------------------------
\* One element of GenerateFibonacci's sequence.
GenerateFibonacci ==
    /\ generator = "GenerateFibonacci" /\ i < limit
    /\ list' = Append(list, IF i < 2 THEN i ELSE Unsigned(list[i] + list[i - 1]))
    /\ UNCHANGED <<generator, limit, a, b, received>>

\* Defect: a is overwritten before it is added.
Next_Aliased == a' = b /\ b' = Unsigned(b + b)

NextPair == a' = b /\ b' = Unsigned(a + b)

\* One turn of SetResponseStream's loop.
SetResponseStream ==
    /\ generator = "SetResponseStream" /\ i < limit
    /\ list' = Append(list, a)
    /\ NextPair
    /\ UNCHANGED <<generator, limit, received>>

getFibonacci[n \in Nat] ==
    IF n <= 1 THEN n ELSE Long(getFibonacci[n - 1] + getFibonacci[n - 2])

\* One turn of the loop of FibonacciServerSlowReactor.
GetFibonacciList ==
    /\ generator = "getFibonacci" /\ i < limit
    /\ list' = Append(list, getFibonacci[i])
    /\ UNCHANGED <<generator, limit, a, b, received>>

\* What the client's vector keeps of a message.
Stored(x) == IF generator = "getFibonacci" THEN x ELSE Unsigned(x)

\* The complete list reaches the client, as a stream or in one message.
Receive == /\ i = limit /\ received # list
           /\ received' = [k \in DOMAIN list |-> Stored(list[k])]
           /\ UNCHANGED <<generator, limit, a, b, list>>

Next == GenerateFibonacci \/ SetResponseStream \/ GetFibonacciList \/ Receive

Spec == Init /\ [][Next]_vars

-----------------------------------------------------------------------------
(* Properties.                                                             *)

\* The Fibonacci numbers.
Fib == LET fib[n \in Nat] == IF n = 0 THEN <<0, 1>>
                             ELSE LET p == fib[n - 1] IN <<p[2], p[1] + p[2]>>
       IN [n \in 0..Len(list) |-> fib[n][1]]

Width == 2 ^ (IF generator = "getFibonacci" THEN LongBits ELSE IntBits)

\* All generators compute the same numbers, each up to the overflow of its
\* width, and after it their remainders: from the 49th on, 02 and 07 show
\* others than 22 to 28 (02 server.cpp:29, 07 server.cpp:62, 24 server.cpp:14).
\* The clients have the numbers of their servers.
FibonacciModuloWidth ==
    \A s \in {list, received} : \A k \in DOMAIN s : s[k] = Fib[k - 1] % Width
=============================================================================
