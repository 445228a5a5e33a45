------------------------------ MODULE Multiplex ------------------------------
(***************************************************************************)
(* The client of 23-multiplex: for every i in 0..number, a thread per      *)
(* service method that multiplies i on the server and stores the answer in *)
(* slot i of the results of that method.  main() starts all threads, joins *)
(* them in that order and prints the table.  A failed call throws in its   *)
(* thread, where nothing catches it: the process is terminated.            *)
(*                                                                         *)
(* int32_t has Bits bits; a product that overflows on the server wraps.    *)
(* Within Calculate the thread and the reactor meet as in SqrtClient.      *)
(*                                                                         *)
(* An operator named Action_Defect is that action with a plausible defect. *)
(***************************************************************************)
EXTENDS Integers

CONSTANTS Bits,     \* the width of int32_t
          Factors,  \* the methods Calculate2x, ..., Calculate9x, by factor
          Numbers   \* what argv[2] may be

Half == 2 ^ (Bits - 1)

VARIABLES
    number,  \* argv[2]
    main,    \* "start", "launch", "join", "print", "exited", "terminated"
    i,       \* the counter of its loops
    method,  \* the method launched or joined next, by factor; 0 between rows
    thread,  \* [Slots -> "none", "calling", "answered", "ended"]
    answer,  \* [Slots -> what Calculate returned]
    results, \* [Slots -> results_2x[i], ..., results_9x[i]]
    printed, \* the rows of the table
    failed   \* has a call failed?

vars == <<number, main, i, method, thread, answer, results, printed, failed>>

Int32(x) == ((x + Half) % (2 * Half)) - Half

Slots == (0..number) \X Factors

TypeOK == /\ number \in Numbers
          /\ main \in {"start", "launch", "join", "print", "exited", "terminated"}
          /\ i \in 0..Half
          /\ method \in Factors
          /\ thread \in [Slots -> {"none", "calling", "answered", "ended"}]
          /\ answer \in [Slots -> -Half..Half - 1]
          /\ results \in [Slots -> -Half..Half - 1]
          /\ DOMAIN printed \subseteq 0..number
          /\ failed \in BOOLEAN

First == CHOOSE f \in Factors : \A g \in Factors : f <= g
Later(f) == {g \in Factors : g > f}

Init == /\ number \in Numbers
        /\ main = "start"
        /\ i = 0 /\ method = First
        /\ thread = [s \in Slots |-> "none"]
        /\ answer = [s \in Slots |-> 0]
        /\ results = [s \in Slots |-> 0]
        /\ printed = <<>>
        /\ failed = FALSE

-----------------------------------------------------------------------------
(* main().                                                                 *)

\* std::vector<int32_t> results_2x(number + 1): the length is a size_t, so that
\* a negative one throws.  For INT_MAX the sum is not defined; whatever it gives,
\* length, memory or, at the latest, threads do not suffice and the end is the same.
Declare == /\ main = "start"
           /\ main' = IF number + 1 \in 0..Half - 1 THEN "launch" ELSE "terminated"
           /\ UNCHANGED <<number, i, method, thread, answer, results, printed, failed>>

\* The next slot of a loop over all of them.
Step == IF Later(method) # {}
        THEN method' = (CHOOSE f \in Later(method) : \A g \in Later(method) : f <= g)
             /\ UNCHANGED i
        ELSE method' = First /\ i' = i + 1

\* threads.emplace_back.
Launch == /\ main = "launch" /\ i <= number
          /\ thread' = [thread EXCEPT ![<<i, method>>] = "calling"]
          /\ Step
          /\ UNCHANGED <<number, main, answer, results, printed, failed>>

\* The system has no more threads: emplace_back throws, outside of any try.
LaunchFails == /\ main = "launch" /\ i <= number
               /\ main' = "terminated"
               /\ UNCHANGED <<number, i, method, thread, answer, results, printed, failed>>

Launched == /\ main = "launch" /\ i > number
            /\ main' = "join"
            /\ i' = 0 /\ method' = First
            /\ UNCHANGED <<number, thread, answer, results, printed, failed>>

Joined == thread[<<i, method>>] = "ended" /\ Step

Join == /\ main = "join" /\ i <= number
        /\ Joined
        /\ UNCHANGED <<number, main, thread, answer, results, printed, failed>>

AllJoined == /\ main = "join" /\ i > number
             /\ main' = "print"
             /\ i' = 0
             /\ UNCHANGED <<number, method, thread, answer, results, printed, failed>>

PrintRow ==
    /\ main = "print" /\ i <= number
    /\ printed' = [r \in 0..i |-> IF r < i THEN printed[r]
                                  ELSE [f \in Factors |-> results[<<i, f>>]]]
    /\ i' = i + 1
    /\ UNCHANGED <<number, main, method, thread, answer, results, failed>>

Return == /\ main = "print" /\ i > number
          /\ main' = "exited"
          /\ UNCHANGED <<number, i, method, thread, answer, results, printed, failed>>

-----------------------------------------------------------------------------
(* The threads.                                                            *)

Running == main \notin {"exited", "terminated"}

\* Defect: the result has the width of the message's varint.
Product_Wide(s) == s[2] * s[1]

\* Calculate2x(number), ..., Calculate9x(number), on the server.
Product(s) == Int32(s[2] * s[1])

Answered(s) == /\ Running /\ thread[s] = "calling"
               /\ thread' = [thread EXCEPT ![s] = "answered"]
               /\ answer' = [answer EXCEPT ![s] = Product(s)]
               /\ UNCHANGED <<number, main, i, method, results, printed, failed>>

\* Defect: the exception is caught and the slot left as it is.
Terminate_Caught(s) == thread' = [thread EXCEPT ![s] = "ended"] /\ UNCHANGED main

\* Defect: OnDone signals successes only, and the thread waits on.
Terminate_Waits(s) == thread' = [thread EXCEPT ![s] = "none"] /\ UNCHANGED main

\* The exception leaves the thread.
Terminate(s) == main' = "terminated" /\ UNCHANGED thread

Failed(s) == /\ Running /\ thread[s] = "calling"
             /\ failed' = TRUE
             /\ Terminate(s)
             /\ UNCHANGED <<number, i, method, answer, results, printed>>

\* Defect: i is captured by reference.
Slot_ByReference(s) == IF i <= number THEN <<i, s[2]>> ELSE s

\* The slot of the thread: i is captured by value.
Slot(s) == s

Store(s) == /\ Running /\ thread[s] = "answered"
            /\ thread' = [thread EXCEPT ![s] = "ended"]
            /\ results' = [results EXCEPT ![Slot(s)] = answer[s]]
            /\ UNCHANGED <<number, main, i, method, answer, printed, failed>>

-----------------------------------------------------------------------------
MainStep == \/ Declare \/ Launch \/ Launched \/ Join
            \/ AllJoined \/ PrintRow \/ Return

ThreadStep == \E s \in Slots : Answered(s) \/ Failed(s) \/ Store(s)

Next == MainStep \/ LaunchFails \/ ThreadStep

Spec == Init /\ [][Next]_vars

(* Threads run and calls end; a thread has two steps, so that none of them *)
(* can keep the others from theirs.                                        *)
Fairness == WF_vars(MainStep) /\ WF_vars(ThreadStep)

FairSpec == Spec /\ Fairness

-----------------------------------------------------------------------------
(* Properties.                                                             *)

\* Every row that is printed has the product of every method, in whatever order
\* the answers came and were stored (client.cpp:573-606).
PrintsTheProducts ==
    \A r \in DOMAIN printed : printed[r] = [f \in Factors |-> Int32(f * r)]

\* A failed call leaves no table, not even a part of it: the process is
\* terminated before, even if all other threads were joined.
AllRowsOrNone ==
    /\ failed => printed = <<>>
    /\ main = "exited" => DOMAIN printed = 0..number

\* The process ends, by itself or by an exception.
Ends == <>(main \in {"exited", "terminated"})

-----------------------------------------------------------------------------
(* The inductive invariant.                                                *)

\* The slots that the loop of main() has passed.
Passed(s) == s[1] < i \/ (s[1] = i /\ s[2] < method)

\* A loop goes from the first slot to behind the last.
LoopInRange ==
    /\ main = "start" => i = 0 /\ method = First
    /\ main \in {"launch", "join", "print"} => number + 1 \in 0..Half - 1 /\ i <= number + 1
    /\ main \in {"launch", "join"} /\ i = number + 1 => method = First

\* main() has started the threads of the slots it passed, then joined them; it
\* prints when all have ended.
ThreadsFollowMain ==
    \A s \in Slots :
      /\ main = "start" => thread[s] = "none"
      /\ main = "launch" => (thread[s] # "none" <=> Passed(s))
      /\ main = "join" => thread[s] # "none" /\ (Passed(s) => thread[s] = "ended")
      /\ main \in {"print", "exited"} => thread[s] = "ended"

\* A slot has its product when its thread has ended.
SlotsHoldProducts ==
    \A s \in Slots :
      /\ thread[s] \in {"answered", "ended"} => answer[s] = Int32(s[2] * s[1])
      /\ thread[s] = "ended" => results[s] = Int32(s[2] * s[1])

\* The rows printed so far.
RowsFollowMain ==
    /\ DOMAIN printed = CASE main = "print" -> 0..i - 1
                          [] main = "exited" -> 0..number
                          [] OTHER -> {}
    /\ failed => main = "terminated"

IInv == /\ TypeOK /\ LoopInRange /\ ThreadsFollowMain /\ SlotsHoldProducts
        /\ RowsFollowMain /\ PrintsTheProducts

\* Every row that is printed has the product of every method, and a failed call
\* leaves no table, not even a part of it (client.cpp:573-606).
TableIsWhole == IInv /\ AllRowsOrNone
=============================================================================
