------------------------- MODULE CachingInterceptor -------------------------
(***************************************************************************)
(* The client of 22-interceptor.  main() asks for the same list twice;     *)
(* each call has a CachingFiboInterceptor of its own, and all share the    *)
(* map cache_.  Intercept runs in the main thread: once for the batch that *)
(* sends the request (PRE_SEND_INITIAL_METADATA and PRE_SEND_MESSAGE), and *)
(* once for the batch that receives (PRE_RECV_MESSAGE).  It hijacks the    *)
(* call in the first, so that gRPC ends it with OK and with what the       *)
(* second puts into the message.                                           *)
(*                                                                         *)
(* A list is modelled by its length; the server's for number has that      *)
(* length.  The server may stop and start again at any time.               *)
(*                                                                         *)
(* An operator named Action_Defect is that action with a plausible defect. *)
(***************************************************************************)
EXTENDS Naturals, Sequences

CONSTANT Numbers  \* the lengths a client may ask for

ASSUME NumbersAssumption == Numbers \subseteq Nat

VARIABLES
    number,    \* argv[2]
    main,      \* "calling", "sending", "nested", "receiving", "answered", "exited"
    cache,     \* cache_: a partial function from Numbers to lengths
    response,  \* response_ of the interceptor of this call, 0 when empty
    hijacked,  \* has this call been hijacked?
    nested,    \* the call to the server: "none", "sent", "answered"
    answer,    \* its status and list
    process,   \* the server: "up", "down"
    reached,   \* [1..2 -> did the server answer during that call?]
    printed    \* the lists main() has printed

interceptor == <<response, hijacked, nested, answer>>
vars == <<number, main, cache, interceptor, process, reached, printed>>

\* The call main() works on.
This == Len(printed) + 1
Hit  == number \in DOMAIN cache

TypeOK == /\ number \in Numbers
          /\ main \in {"calling", "sending", "nested", "receiving", "answered", "exited"}
          /\ DOMAIN cache \subseteq {number}
          /\ nested \in {"none", "sent", "answered"}
          /\ answer \in [ok : BOOLEAN, list : {0, number}]
          /\ response \in {0, number}
          /\ \A n \in DOMAIN cache : cache[n] \in {0, number}
          /\ process \in {"up", "down"}
          /\ hijacked \in BOOLEAN /\ reached \in [1..2 -> BOOLEAN]
          /\ printed \in Seq({0, number}) /\ Len(printed) <= 2

Nothing == [ok |-> FALSE, list |-> 0]

Init == /\ number \in Numbers
        /\ main = "calling"
        /\ cache = <<>>
        /\ response = 0 /\ hijacked = FALSE
        /\ nested = "none" /\ answer = Nothing
        /\ process \in {"up", "down"}
        /\ reached = [k \in 1..2 |-> FALSE]
        /\ printed = <<>>

-----------------------------------------------------------------------------
\* A call gets an interceptor of its own (CreateClientInterceptor).
Calculate == /\ main = "calling" /\ Len(printed) < 2
             /\ main' = "sending"
             /\ response' = 0 /\ hijacked' = FALSE
             /\ nested' = "none" /\ answer' = Nothing
             /\ UNCHANGED <<number, cache, process, reached, printed>>

\* The sending batch always ends in Hijack().
Continue == main' = "receiving" /\ hijacked' = TRUE

\* PRE_SEND_MESSAGE, the number found in the cache.
InterceptHit == /\ main = "sending" /\ Hit
                /\ response' = cache[number]
                /\ Continue
                /\ UNCHANGED <<number, cache, nested, answer, process, reached, printed>>

\* PRE_SEND_MESSAGE, the number not found: a call of its own on the channel
\* below the interceptors.
InterceptMiss == /\ main = "sending" /\ ~Hit
                 /\ main' = "nested"
                 /\ nested' = "sent"
                 /\ UNCHANGED <<number, cache, response, hijacked, answer, process,
                                reached, printed>>

\* Defect: what came is stored whatever the status.
Store_Unchecked == /\ response' = answer.list
                   /\ cache' = [n \in {number} |-> answer.list]

\* Defect: the answer is not stored.
Store_Forgotten == response' = answer.list /\ UNCHANGED cache

\* A failed call only prints.
Store == \/ /\ answer.ok
            /\ response' = answer.list
            /\ cache' = [n \in {number} |-> answer.list]
         \/ ~answer.ok /\ UNCHANGED <<response, cache>>

InterceptAnswer == /\ main = "nested" /\ nested = "answered"
                   /\ Store
                   /\ Continue
                   /\ UNCHANGED <<number, nested, answer, process, reached, printed>>

\* PRE_RECV_MESSAGE fills in the message; the hijacked call is over, with OK.
InterceptReceive == /\ main = "receiving" /\ hijacked
                    /\ main' = "answered"
                    /\ UNCHANGED <<number, cache, interceptor, process, reached, printed>>

\* Await returns OK, and main() prints the list as "from server" the first time
\* and as "from cache" the second.
Report == /\ main = "answered"
          /\ main' = IF This = 1 THEN "calling" ELSE "exited"
          /\ printed' = Append(printed, response)
          /\ UNCHANGED <<number, cache, interceptor, process, reached>>

-----------------------------------------------------------------------------
(* The server, and the runtime under the nested call (external).           *)

\* FibonacciServerSlowReactor, behind an interceptor that only logs.
GetFibonacciList == /\ nested = "sent" /\ process = "up"
                    /\ nested' = "answered"
                    /\ answer' = [ok |-> TRUE, list |-> number]
                    /\ reached' = [reached EXCEPT ![This] = TRUE]
                    /\ UNCHANGED <<number, main, cache, response, hijacked, process, printed>>

NestedFails == /\ nested = "sent" /\ process = "down"
               /\ nested' = "answered"
               /\ UNCHANGED <<number, main, cache, response, hijacked, answer, process,
                              reached, printed>>

StartsOrStops == /\ main # "exited"
                 /\ process' = IF process = "up" THEN "down" ELSE "up"
                 /\ UNCHANGED <<number, main, cache, interceptor, reached, printed>>

-----------------------------------------------------------------------------
Intercept == InterceptHit \/ InterceptMiss \/ InterceptAnswer \/ InterceptReceive
Step == Calculate \/ Intercept \/ Report \/ GetFibonacciList \/ NestedFails

Next == Step \/ StartsOrStops

Spec == Init /\ [][Next]_vars

-----------------------------------------------------------------------------
(* Properties.                                                             *)

\* A failure is not remembered: whatever is in the cache came from the server, so
\* that the call after a failed one asks the server (client_interceptor.hpp:67-75).
CacheIsTheServers == Hit => cache[number] = number /\ \E k \in 1..2 : reached[k]

\* Once the server has answered, the next call is answered alike and without
\* the server, even if it is gone (client_interceptor.hpp:53-58).
SecondAsFirst == reached[1] => /\ ~reached[2]
                               /\ main = "exited" => printed = <<number, number>>

\* What makes them inductive: where main() is in its calls, what the nested call
\* has done, and what a response that was found or fetched is.
Consistent ==
    /\ (main = "exited") <=> (Len(printed) = 2)
    /\ main = "nested" => ~Hit /\ nested \in {"sent", "answered"}
    /\ nested = "sent" => main = "nested"
    /\ main = "sending" => ~answer.ok
    /\ main = "nested" /\ nested = "answered" /\ answer.ok =>
          answer.list = number /\ reached[This]
    /\ main = "nested" /\ nested = "sent" => ~answer.ok /\ ~reached[This]
    /\ main \in {"calling", "sending"} => ~reached[1] \/ This = 2
    /\ main \in {"calling", "sending"} => ~reached[2]
    /\ This = 1 => ~reached[2]
    /\ reached[1] => \/ Hit
                     \/ This = 1 /\ main = "nested" /\ nested = "answered" /\ answer.ok
    /\ Hit /\ main \in {"receiving", "answered"} => response = number
    /\ reached[1] /\ This > 1 => printed[1] = number

\* The inductive invariant of CachingInterceptor_proofs.
IInv == TypeOK /\ Consistent /\ CacheIsTheServers /\ SecondAsFirst

\* "Response (from server)" (client.cpp:123) is a response of the server.
FromTheServer == Len(printed) > 0 => reached[1]
=============================================================================
