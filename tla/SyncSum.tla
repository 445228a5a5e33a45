------------------------------- MODULE SyncSum -------------------------------
(***************************************************************************)
(* 01-sum: a blocking call, whose server computes the sum of two ints into *)
(* a float and puts that into an int32 field, and whose client returns 0   *)
(* for a failed call and prints "op1 + op2 = result".                      *)
(*                                                                         *)
(* int has IntBits bits, float FloatBits bits of significand; no sum of    *)
(* ints is outside the range of the exponent.  A signed overflow wraps.    *)
(* The conversion of a float that no int32 holds is not defined: x86 gives *)
(* the smallest int, ARM the largest.                                      *)
(*                                                                         *)
(* An operator named Name_Defect is Name with a plausible defect.          *)
(***************************************************************************)
EXTENDS Integers, FiniteSetsExt

CONSTANTS IntBits, FloatBits, Operands

Half == 2 ^ (IntBits - 1)
Ints == -Half..Half - 1

VARIABLES
    op1, op2,  \* the operands
    main,      \* "start", "calling", "printed"
    call,      \* "none", "sent", "ok", "failed"
    response,  \* SumResult::result
    result     \* what main() prints

vars == <<op1, op2, main, call, response, result>>

TypeOK == /\ {op1, op2} \subseteq Operands
          /\ main \in {"start", "calling", "printed"}
          /\ call \in {"none", "sent", "ok", "failed"}
          /\ {response, result} \subseteq Ints

Init == /\ op1 \in Operands /\ op2 \in Operands
        /\ main = "start"
        /\ call = "none"
        /\ response = 0 /\ result = 0

-----------------------------------------------------------------------------
Wrapped(x) == ((x + Half) % (2 * Half)) - Half
Magnitude(x) == IF x < 0 THEN -x ELSE x

\* The distance of the floats around x.
Ulp(x) == Min({2 ^ k : k \in {j \in 0..IntBits : Magnitude(x) < 2 ^ (j + FloatBits)}})

\* Defect: the significand is cut off.
Float_Truncated(x) == (x \div Ulp(x)) * Ulp(x)

\* The float nearest to x, of two the one with the even significand.
Float(x) == LET u == Ulp(x)
                q == x \div u
                r == x % u
            IN IF 2 * r > u \/ (2 * r = u /\ q % 2 = 1) THEN (q + 1) * u ELSE q * u

ToInt(f) == IF f \in Ints THEN {f} ELSE {-Half, Half - 1}

Call == /\ main = "start"
        /\ main' = "calling" /\ call' = "sent"
        /\ UNCHANGED <<op1, op2, response, result>>

ComputeSum == /\ call = "sent"
              /\ call' = "ok"
              /\ response' \in ToInt(Float(Wrapped(op1 + op2)))
              /\ UNCHANGED <<op1, op2, main, result>>

\* No server, or a lost connection (external).
Fails == /\ call = "sent"
         /\ call' = "failed"
         /\ UNCHANGED <<op1, op2, main, response, result>>

Show == /\ main = "calling" /\ call \in {"ok", "failed"}
        /\ main' = "printed"
        /\ result' = IF call = "ok" THEN response ELSE 0
        /\ UNCHANGED <<op1, op2, call, response>>

Next == Call \/ ComputeSum \/ Fails \/ Show

Spec == Init /\ [][Next]_vars

-----------------------------------------------------------------------------
(* Properties.                                                             *)

Floats == {f \in -Half..Half : \E k \in 0..IntBits :
             f % (2 ^ k) = 0 /\ Magnitude(f) <= 2 ^ (k + FloatBits)}

Sum == op1 + op2

\* What is printed for a call that succeeded is a nearest float to the sum, as
\* long as int holds both: the sum itself up to 2^FloatBits, and above it not
\* further away than any other float (server.cpp:34-35).
NearestToTheSum ==
    main = "printed" /\ call = "ok" /\ Sum \in Ints /\ Float(Sum) \in Ints =>
        /\ result \in Floats
        /\ \A f \in Floats : Magnitude(result - Sum) <= Magnitude(f - Sum)
        /\ Magnitude(Sum) <= 2 ^ FloatBits => result = Sum

\* What the server answers is the float of the sum as an int, and what is printed is
\* what it answered.
ConvertsTheSum ==
    /\ main = "start" => call = "none"
    /\ call = "ok" => response \in ToInt(Float(Wrapped(Sum)))
    /\ main = "printed" => call # "sent" /\ (call = "ok" => result = response)

\* The inductive invariant (Calls_proofs).
IInv == TypeOK /\ ConvertsTheSum
=============================================================================
