---------------------------- MODULE SlowFibonacci ----------------------------
(***************************************************************************)
(* The long unary call of 24-cancel, where a second thread of the client   *)
(* waits for a 'c' and cancels it, and of 27-deadline, where policy.json   *)
(* gives it a deadline.  The server computes the list element by element   *)
(* in the constructor of its reactor and asks IsCancelled before each.     *)
(* The calls of a server share no state, so there is one call.             *)
(*                                                                         *)
(* The list is modelled by its length.  How OnDone wakes up Await is in    *)
(* SqrtClient; here Await sees the status at once.                         *)
(*                                                                         *)
(* An operator named Action_Defect is that action with a plausible defect. *)
(***************************************************************************)
EXTENDS Naturals

CONSTANT Numbers  \* the lengths a client may ask for

ASSUME NumbersAssumption == Numbers \subseteq Nat

VARIABLES
    control,    \* what can end the call: "cancel" (24), "deadline" (27)
    number,     \* argv[2]
    main,       \* "start", "calling", "await", "printed", "failed", "exited"
    reactor,    \* has the pointer FibonacciClient::reactor been assigned?
    printed,    \* the length of the list main() printed
    user,       \* the cancel thread: "reading", "chosen", "cancelling",
                \* "saying", "ended"
    c,          \* its variable c, "unset" before the read
    requested,  \* has TryCancel been called?
    status,     \* the status of the call at the client, "none" before
    link,       \* "none", "up", "cut" (the client side), "reset" (the server knows)
    process,    \* the server: "up", "gone"
    handler,    \* its reactor: "none", "test", "compute", "finish", "finished",
                \* "deleted"
    size,       \* fibonacci_list.size()
    late,       \* how many of them it computed for a call it knew to be dead
    reply       \* the status given to Finish

given  == <<control, number>>
thread == <<user, c, requested>>
server == <<process, handler, size, late, reply>>
vars   == <<given, main, reactor, printed, thread, status, link, server>>

TypeOK == /\ control \in {"cancel", "deadline"}
          /\ number \in Numbers
          /\ main \in {"start", "calling", "await", "printed", "failed", "exited"}
          /\ user \in {"reading", "chosen", "cancelling", "saying", "ended"}
          /\ c \in {"unset", "c", "other"}
          /\ reactor \in BOOLEAN /\ requested \in BOOLEAN
          /\ printed \in 0..number /\ size \in 0..number /\ late \in 0..number
          /\ status \in {"none", "OK", "CANCELLED", "DEADLINE_EXCEEDED", "UNAVAILABLE"}
          /\ link \in {"none", "up", "cut", "reset"}
          /\ process \in {"up", "gone"}
          /\ handler \in {"none", "test", "compute", "finish", "finished", "deleted"}
          /\ reply \in {"none", "OK", "CANCELLED"}

Init == /\ control \in {"cancel", "deadline"}
        /\ number \in Numbers
        /\ main = "start"
        /\ reactor = FALSE
        /\ printed = 0
        /\ user = IF control = "cancel" THEN "reading" ELSE "ended"
        /\ c = "unset"
        /\ requested = FALSE
        /\ status = "none"
        /\ link = "none"
        /\ process \in {"up", "gone"}
        /\ handler = "none"
        /\ size = 0 /\ late = 0
        /\ reply = "none"

-----------------------------------------------------------------------------
(* The client's main thread.                                               *)

\* make_unique<FibonacciClientReactor>: StartCall.
Calculate == /\ main = "start"
             /\ main' = "calling"
             /\ link' = IF process = "up" THEN "up" ELSE "reset"
             /\ status' = IF process = "up" THEN "none" ELSE "UNAVAILABLE"
             /\ UNCHANGED <<given, reactor, printed, thread, server>>

\* The assignment to reactor.
Assign == /\ main = "calling"
          /\ main' = "await"
          /\ reactor' = TRUE
          /\ UNCHANGED <<given, printed, thread, status, link, server>>

\* Defect: what there is of the list is printed whatever the status.
Result_Unchecked == main' = "printed" /\ printed' = IF status = "OK" THEN size ELSE 0

\* Defect: only a list ends the wait.
Result_OnlyOK == status = "OK" /\ main' = "printed" /\ printed' = size

\* The list comes with the status OK, an exception with any other.
Result == \/ status = "OK" /\ main' = "printed" /\ printed' = size
          \/ status # "OK" /\ main' = "failed" /\ UNCHANGED printed

Await == /\ main = "await" /\ status # "none"
         /\ Result
         /\ UNCHANGED <<given, reactor, thread, status, link, server>>

\* Defect: the thread is detached.
Joined_Detached == TRUE

Joined == user = "ended"

\* main() joins the thread and destroys client, and the reactor with it.
Exit == /\ main \in {"printed", "failed"} /\ Joined
        /\ main' = "exited"
        /\ reactor' = FALSE
        /\ UNCHANGED <<given, printed, thread, status, link, server>>

-----------------------------------------------------------------------------
(* The cancel thread of 24.                                                *)

\* std::cin >> c: the user's answer; at the end of the input c stays what it
\* is, not initialised, which may be a 'c'.
ReadChar == /\ user = "reading"
            /\ user' = "chosen"
            /\ c' \in {"c", "other"}
            /\ UNCHANGED <<given, main, reactor, printed, requested, status, link, server>>

\* c == 'c', and if (this->reactor) in FibonacciClient::Cancel, where the
\* pointer is read while the main thread may assign it.
TestPointer == /\ user = "chosen"
               /\ user' = IF c # "c" THEN "ended"
                        ELSE IF reactor THEN "cancelling" ELSE "saying"
               /\ UNCHANGED <<given, main, reactor, printed, c, requested, status,
                              link, server>>

\* Defect: the call is not cancelled.
TryCancel_Forgotten == UNCHANGED <<status, link>>

\* TryCancel does nothing to a call that has ended.
TryCancel == IF status = "none"
             THEN status' = "CANCELLED" /\ link' = "cut"
             ELSE UNCHANGED <<status, link>>

Cancel == /\ user = "cancelling"
          /\ user' = "saying"
          /\ requested' = TRUE
          /\ TryCancel
          /\ UNCHANGED <<given, main, reactor, printed, c, server>>

Say == /\ user = "saying"
       /\ user' = "ended"
       /\ UNCHANGED <<given, main, reactor, printed, c, requested, status, link, server>>

-----------------------------------------------------------------------------
(* The server: the constructor of FibonacciServerSlowReactor.              *)

GetFibonacciList == /\ process = "up" /\ link \in {"up", "cut"} /\ handler = "none"
                    /\ handler' = "test"
                    /\ UNCHANGED <<given, main, reactor, printed, thread, status, link,
                                   process, size, late, reply>>

\* Defect: a dead call is noticed before the loop only.
IsCancelled_Once == link = "reset" /\ size = 0

IsCancelled == link = "reset"

\* The head of the loop.
Test == /\ process = "up" /\ handler = "test"
        /\ \/ /\ size < number /\ ~IsCancelled
              /\ handler' = "compute"
              /\ UNCHANGED reply
           \/ /\ size < number /\ IsCancelled
              /\ handler' = "finish"
              /\ reply' = "CANCELLED"
           \/ /\ size = number
              /\ handler' = "finish"
              /\ reply' = "OK"
        /\ UNCHANGED <<given, main, reactor, printed, thread, status, link, process,
                       size, late>>

\* getFibonacci(i).
Compute == /\ process = "up" /\ handler = "compute"
           /\ handler' = "test"
           /\ size' = size + 1
           /\ late' = IF link = "reset" THEN late + 1 ELSE late
           /\ UNCHANGED <<given, main, reactor, printed, thread, status, link, process,
                          reply>>

\* Finish, and the list with it, reach the client if its call still waits.
FinishCompletes ==
    /\ process = "up" /\ handler = "finish"
    /\ handler' = "finished"
    /\ status' = IF link = "up" THEN reply ELSE status
    /\ UNCHANGED <<given, main, reactor, printed, thread, link, process, size, late,
                   reply>>

\* Defect: the reactor is kept.
Delete_Forgotten == UNCHANGED handler

Delete == handler' = "deleted"

OnDone == /\ process = "up" /\ handler = "finished"
          /\ Delete
          /\ UNCHANGED <<given, main, reactor, printed, thread, status, link, process,
                         size, late, reply>>

-----------------------------------------------------------------------------
(* The runtime and the faults (external).                                  *)

\* The server is told of the end of the call; OnCancel only prints.
Learn == /\ process = "up" /\ link = "cut"
         /\ link' = "reset"
         /\ UNCHANGED <<given, main, reactor, printed, thread, status, server>>

Open == link = "up" /\ status = "none"

\* The deadline of policy.json, which the server knows, too.
Deadline == /\ control = "deadline" /\ Open
            /\ status' = "DEADLINE_EXCEEDED"
            /\ link' \in {"cut", "reset"}
            /\ UNCHANGED <<given, main, reactor, printed, thread, server>>

Kill == /\ process = "up"
        /\ process' = "gone"
        /\ UNCHANGED <<given, main, reactor, printed, thread, status, link, handler,
                       size, late, reply>>

ServerLost == /\ process = "gone" /\ Open
              /\ status' = "UNAVAILABLE"
              /\ link' = "reset"
              /\ UNCHANGED <<given, main, reactor, printed, thread, server>>

-----------------------------------------------------------------------------
MainStep   == Calculate \/ Assign \/ Await \/ Exit
UserStep   == TestPointer \/ Cancel \/ Say
ServerStep == GetFibonacciList \/ Test \/ Compute \/ FinishCompletes \/ OnDone

Next == \/ MainStep \/ UserStep \/ ReadChar \/ ServerStep
        \/ Learn \/ Deadline \/ Kill \/ ServerLost

Spec == Init /\ [][Next]_vars

(* The client's threads run, the timer fires and a lost server is noticed. *)
(* Nothing is assumed of the user, nor of the server, which may compute    *)
(* for ever.                                                               *)
Fairness == /\ WF_vars(MainStep) /\ WF_vars(UserStep)
            /\ WF_vars(Deadline) /\ WF_vars(ServerLost)

FairSpec == Spec /\ Fairness

(* A server that computes, and is told of dead calls.                      *)
ServerFairness == WF_vars(ServerStep) /\ WF_vars(Learn)

-----------------------------------------------------------------------------
(* Properties.                                                             *)

\* A list that is printed is whole: a cancelled, late or lost call never passes
\* for a shorter list, wherever it met the server's loop.
ListIsWhole == /\ main = "printed" => status = "OK" /\ printed = number
               /\ main = "failed"  => status # "OK"

\* The cancel thread never uses a reactor that is gone, although the call, and
\* with it Calculate, may have ended while the user was thinking
\* (client.cpp:85-91, 95, 154).
CancelsALiveCall == user = "cancelling" => reactor

\* The server drops a dead call behind at most one more element
\* (server.cpp:25-35).
AbandonsSoon == late <= 1

\* What makes them inductive: how far the call is where main() is, the status and
\* the connection agree, an answer "OK" has the whole list behind it, and an
\* element that was late is the last.
Consistent == /\ main = "start" => link = "none"
              /\ main \in {"start", "calling"} => ~reactor
              /\ main \in {"printed", "failed"} => status # "none"
              /\ status = "none" => link \in {"none", "up"}
              /\ link = "up" /\ status # "none" => handler \in {"finished", "deleted"}
              /\ handler = "finish" => reply # "none"
              /\ handler = "compute" => size < number
              /\ reply = "OK" =>
                    size = number /\ handler \in {"finish", "finished", "deleted"}
              /\ status = "OK" => size = number /\ handler \in {"finished", "deleted"}
              /\ late > 0 => link = "reset" /\ handler # "compute"

\* The inductive invariant (Calls_proofs).
IInv == TypeOK /\ Consistent /\ ListIsWhole /\ CancelsALiveCall /\ AbandonsSoon

\* A request to cancel frees the client even if the server computes for ever.
CancelFreesTheClient == requested ~> main = "exited"

\* The deadline frees the client even if the server computes for ever, and 27
\* does not wait for a user.
DeadlineFreesTheClient ==
    (control = "deadline" /\ main = "calling") ~> main = "exited"

\* No reactor outlives its call, whoever ends it, of a server that computes.
EveryReactorIsDeleted ==
    ServerFairness => (handler = "test" ~> handler = "deleted" \/ process # "up")
=============================================================================
