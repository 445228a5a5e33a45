---------------------- MODULE CachingInterceptor_proofs ----------------------
(***************************************************************************)
(* The cache of 22, for any numbers and any availability of the server: it *)
(* holds what the server answered, and asks once.                          *)
(***************************************************************************)
EXTENDS CachingInterceptor, FiniteSetTheorems, SequenceTheorems, TLAPS

\* Nothing is cached, fetched or printed at the start.
LEMMA InitIInv == ASSUME Init PROVE IInv
<1>1. DOMAIN cache = {}
  BY DEF Init
<1>2. printed \in Seq({0, number}) /\ Len(printed) = 0
  BY DEF Init
<1>3. hijacked \in BOOLEAN
  BY DEF Init
<1>4. reached \in [1..2 -> BOOLEAN] /\ ~reached[1] /\ ~reached[2]
  BY DEF Init
<1>5. answer \in [ok : BOOLEAN, list : {0, number}]
  BY DEF Init, Nothing
<1>6. TypeOK
  BY <1>1, <1>2, <1>3, <1>4, <1>5 DEF Init, TypeOK
<1>7. Consistent /\ CacheIsTheServers /\ SecondAsFirst
  BY <1>1, <1>2, <1>4 DEF Init, Consistent, CacheIsTheServers, SecondAsFirst, Hit, This
<1>8. QED
  BY <1>6, <1>7 DEF IInv

\* The steps of main() around the hooks.
LEMMA MainIInv == ASSUME IInv, Calculate \/ Report PROVE IInv'
<1> USE DEF IInv, TypeOK, Consistent, CacheIsTheServers, SecondAsFirst, Hit, This
<1>1. CASE Calculate
  BY <1>1 DEF Calculate, Nothing
<1>2. CASE Report
  <2>1. /\ printed' \in Seq({0, number}) /\ Len(printed') = Len(printed) + 1
        /\ \A k \in 1..Len(printed) : printed'[k] = printed[k]
        /\ printed'[Len(printed) + 1] = response
    BY <1>2 DEF Report
  <2>2. TypeOK'
    BY <1>2, <2>1 DEF Report, interceptor
  <2>3. Consistent' /\ CacheIsTheServers'
    BY <1>2, <2>1 DEF Report, interceptor
  <2>4. SecondAsFirst'
    <3>1. CASE Len(printed) = 1 /\ reached[1]
      <4>1. Hit /\ printed[1] = number /\ response = number
        BY <1>2, <3>1 DEF Report
      <4>2. printed' = <<printed[1], response>>
        BY <2>1, <3>1
      <4>3. QED
        BY <1>2, <3>1, <4>1, <4>2 DEF Report, interceptor
    <3>2. CASE ~reached[1]
      BY <1>2, <3>2 DEF Report
    <3>3. CASE Len(printed) # 1 /\ reached[1]
      <4>1. main' # "exited"
        <5>1. Len(printed) \in Nat /\ Len(printed) \notin {1, 2} /\ Len(printed) <= 2
          BY <1>2, <3>3 DEF Report
        <5>2. \A n \in Nat : n \notin {1, 2} /\ n <= 2 => n = 0
          OBVIOUS
        <5>3. Len(printed) = 0
          BY <5>1, <5>2
        <5>4. This = 1
          BY <5>3
        <5>5. QED
          BY <1>2, <5>4 DEF Report
      <4>2. reached' = reached /\ ~reached[2]
        BY <1>2, <3>3 DEF Report
      <4>3. QED
        BY <4>1, <4>2
    <3>4. QED
      BY <3>1, <3>2, <3>3
  <2>5. QED
    BY <2>2, <2>3, <2>4
<1>3. QED
  BY <1>1, <1>2

\* The hooks, with what they leave in the cache.
LEMMA InterceptIInv == ASSUME IInv, Intercept PROVE IInv'
<1> USE DEF IInv, TypeOK, Consistent, CacheIsTheServers, SecondAsFirst, Hit, This
<1>1. CASE InterceptHit
  BY <1>1 DEF InterceptHit, Continue
<1>2. CASE InterceptMiss
  BY <1>2 DEF InterceptMiss
<1>3. CASE InterceptAnswer
  <2>1. CASE answer.ok
    <3>1. cache' = [n \in {number} |-> number] /\ response' = number
      BY <1>3, <2>1 DEF InterceptAnswer, Store
    <3>2. hijacked' \in BOOLEAN
      BY <1>3 DEF InterceptAnswer, Continue
    <3>3. QED
      BY <1>3, <2>1, <3>1, <3>2 DEF InterceptAnswer, Continue
  <2>2. CASE ~answer.ok
    <3>1. UNCHANGED <<cache, response>>
      BY <1>3, <2>2 DEF InterceptAnswer, Store
    <3>2. hijacked' \in BOOLEAN
      BY <1>3 DEF InterceptAnswer, Continue
    <3>3. QED
      BY <1>3, <2>2, <3>1, <3>2 DEF InterceptAnswer, Continue
  <2>3. QED
    BY <2>1, <2>2
<1>4. CASE InterceptReceive
  BY <1>4 DEF InterceptReceive, interceptor
<1>5. QED
  BY <1>1, <1>2, <1>3, <1>4 DEF Intercept

\* The server and the nested call.
LEMMA ServerIInv ==
  ASSUME IInv, GetFibonacciList \/ NestedFails \/ StartsOrStops
  PROVE  IInv'
<1> USE DEF IInv, TypeOK, Consistent, CacheIsTheServers, SecondAsFirst, Hit, This
<1>1. CASE GetFibonacciList
  BY <1>1 DEF GetFibonacciList
<1>2. CASE NestedFails
  BY <1>2 DEF NestedFails
<1>3. CASE StartsOrStops
  BY <1>3 DEF StartsOrStops, interceptor
<1>4. QED
  BY <1>1, <1>2, <1>3

\* A step that changes nothing.
LEMMA StutterIInv == ASSUME IInv, UNCHANGED vars PROVE IInv'
  BY DEF vars, interceptor, IInv, TypeOK, Consistent, CacheIsTheServers, SecondAsFirst,
         Hit, This

\* The hooks, the cache and the nested call stay consistent: the inductive
\* invariant.
THEOREM Invariance == Spec => []IInv
<1>1. ASSUME IInv, [Next]_vars PROVE IInv'
  BY <1>1, MainIInv, InterceptIInv, ServerIInv, StutterIInv DEF Next, Step
<1>2. QED
  BY InitIInv, <1>1, PTL DEF Spec

\* What is in the cache came from the server, never from a failed call
\* (client_interceptor.hpp:67-75).
THEOREM OnlyAnswersAreCached == Spec => []CacheIsTheServers
<1>1. IInv => CacheIsTheServers
  BY DEF IInv
<1>2. QED
  BY Invariance, <1>1, PTL

\* After one answer the server is not asked again (client_interceptor.hpp:53-58).
THEOREM AskedOnce == Spec => []SecondAsFirst
<1>1. IInv => SecondAsFirst
  BY DEF IInv
<1>2. QED
  BY Invariance, <1>1, PTL
=============================================================================
