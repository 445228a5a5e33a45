---------------------------- MODULE ServicePolicy ----------------------------
(***************************************************************************)
(* 25-retry and 26-wait_for_ready: the same client and server of a sum; a  *)
(* policy.json tells the channel what to do for a call without a server.   *)
(* In 25 an attempt that ends with UNAVAILABLE is repeated, in 26 the call *)
(* waits until there is a server.  The server may start and stop.          *)
(*                                                                         *)
(* The channel is external.  A call it could not hand to the server it may *)
(* send again without counting an attempt.  Back-off times are left out.   *)
(*                                                                         *)
(* An operator named Action_Defect is that action with a plausible defect. *)
(***************************************************************************)
EXTENDS Naturals

CONSTANTS Policies,    \* what policy.json says: "retryPolicy" (25), "waitForReady" (26)
          MaxAttempts  \* maxAttempts of the retryPolicy

VARIABLES
    policy,    \* policy.json
    main,      \* "start", "ready", "calling", "exited"
    printed,   \* "nothing", "sum", "error"
    call,      \* "none", "picking", "sent", "executed", "backoff", "ok", "failed"
    attempts,  \* how many attempts were counted
    sent,      \* has the call been sent at all?
    executed,  \* how often the server computed the sum
    process    \* the server: "up", "down"

vars == <<policy, main, printed, call, attempts, sent, executed, process>>

TypeOK == /\ policy \in Policies
          /\ main \in {"start", "ready", "calling", "exited"}
          /\ printed \in {"nothing", "sum", "error"}
          /\ call \in {"none", "picking", "sent", "executed", "backoff", "ok", "failed"}
          /\ attempts \in 0..MaxAttempts /\ executed \in 0..MaxAttempts
          /\ sent \in BOOLEAN
          /\ process \in {"up", "down"}

Init == /\ policy \in Policies
        /\ main = "start" /\ printed = "nothing"
        /\ call = "none"
        /\ attempts = 0 /\ sent = FALSE /\ executed = 0
        /\ process \in {"up", "down"}

-----------------------------------------------------------------------------
(* The client.                                                             *)

\* policy.json is read, or is not there or not JSON.
LoadPolicy == /\ main = "start"
              /\ \/ main' = "ready" /\ UNCHANGED printed
                 \/ main' = "exited" /\ printed' = "error"
              /\ UNCHANGED <<policy, call, attempts, sent, executed, process>>

Calculate == /\ main = "ready"
             /\ main' = "calling" /\ call' = "picking"
             /\ UNCHANGED <<policy, printed, attempts, sent, executed, process>>

\* Defect: the status is not examined.
Printed_Unchecked == "sum"

\* ComputeSum throws the message of a call that failed.
Printed == IF call = "ok" THEN "sum" ELSE "error"

Await == /\ main = "calling" /\ call \in {"ok", "failed"}
         /\ main' = "exited"
         /\ printed' = Printed
         /\ UNCHANGED <<policy, call, attempts, sent, executed, process>>

-----------------------------------------------------------------------------
(* The server.                                                             *)

ComputeSum == /\ call = "sent" /\ process = "up"
              /\ call' = "executed"
              /\ executed' = executed + 1
              /\ UNCHANGED <<policy, main, printed, attempts, sent, process>>

StartsOrStops == /\ main # "exited"
                 /\ process' = IF process = "up" THEN "down" ELSE "up"
                 /\ UNCHANGED <<policy, main, printed, call, attempts, sent, executed>>

-----------------------------------------------------------------------------
(* The channel under the policy (external).                                *)

\* Defect: maxAttempts is taken for the number of repetitions.
Repeats_OneMore(n) == policy = "retryPolicy" /\ n <= MaxAttempts

\* policy.json of 25, after n attempts: maxAttempts, retryableStatusCodes.
Repeats(n) == policy = "retryPolicy" /\ n < MaxAttempts

\* Defect: the policy names another service.
Waits_OtherService == FALSE

\* Defect: the calls of every client wait for the server.
Waits_Always == TRUE

\* policy.json of 26.
Waits == policy = "waitForReady"

\* The call, the number of its attempts raised by one, ends with UNAVAILABLE.
Unavailable == /\ call' = IF Repeats(attempts) THEN "backoff" ELSE "failed"
               /\ UNCHANGED <<policy, main, printed, attempts, sent, executed, process>>

Send == /\ call = "picking" /\ process = "up"
        /\ call' = "sent" /\ sent' = TRUE
        /\ attempts' = attempts + 1
        /\ UNCHANGED <<policy, main, printed, executed, process>>

\* No server: an attempt, unless the call waits for one.
PickFails == /\ call = "picking" /\ process = "down" /\ ~Waits
             /\ attempts' = attempts + 1
             /\ call' = IF Repeats(attempts + 1) THEN "backoff" ELSE "failed"
             /\ UNCHANGED <<policy, main, printed, sent, executed, process>>

\* The connection breaks before, or after, the server worked.
Breaks == /\ call \in {"sent", "executed"} /\ process = "down"
          /\ Unavailable

SendAgain == /\ call = "sent" /\ process = "down"
             /\ call' = "picking"
             /\ attempts' = attempts - 1
             /\ UNCHANGED <<policy, main, printed, sent, executed, process>>

Backoff == /\ call = "backoff"
           /\ call' = "picking"
           /\ UNCHANGED <<policy, main, printed, attempts, sent, executed, process>>

Respond == /\ call = "executed" /\ process = "up"
           /\ call' = "ok"
           /\ UNCHANGED <<policy, main, printed, attempts, sent, executed, process>>

-----------------------------------------------------------------------------
Channel == Send \/ PickFails \/ Breaks \/ SendAgain \/ Backoff \/ Respond

Step == LoadPolicy \/ Calculate \/ Await \/ ComputeSum \/ Channel

Next == Step \/ StartsOrStops

Spec == Init /\ [][Next]_vars

(* Client, channel and server run.                                         *)
FairSpec == Spec /\ WF_vars(Step)

-----------------------------------------------------------------------------
(* Properties.                                                             *)

\* The handler of one call runs at most maxAttempts times, and without a retry
\* policy once, although its answers may be lost (25 policy.json:8).
ExecutedAtMost == executed <= IF policy = "retryPolicy" THEN MaxAttempts ELSE 1

\* A sum is printed for a call that the server executed, an error only for one
\* that failed or was never made: a lost answer that was repeated is no error.
PrintedAsItEnded ==
    /\ printed = "sum" => executed > 0 /\ call = "ok"
    /\ printed = "error" => call \in {"none", "failed"}

\* A call that waits for its server fails only once it had been sent to one.
WaitsForTheServer == policy = "waitForReady" /\ call = "failed" => sent

\* Once the server stays as it is the client ends; only a call that waits may
\* wait on for a server that stays away.
EndsOnceSettled ==
    (\/ <>[](process = "up")
     \/ policy = "retryPolicy" /\ <>[](process = "down"))
    => <>(main = "exited")

-----------------------------------------------------------------------------
(* The inductive invariant.                                                *)

\* How often the policy lets a call be sent.
Budget == IF policy = "retryPolicy" THEN MaxAttempts ELSE 1

\* Every execution has an attempt of its own, and a call that may be sent once more
\* has an attempt left.
OneAttemptEach ==
    /\ executed <= attempts /\ attempts <= Budget
    /\ call = "sent" => executed < attempts
    /\ call \in {"none", "picking", "backoff"} => attempts < Budget

\* A call is where its client, and what was sent of it, let it be.
CallFollowsMain ==
    /\ main \in {"start", "ready"} => call = "none"
    /\ main = "calling" => call # "none"
    /\ call \in {"sent", "executed"} => sent
    /\ call \in {"executed", "ok"} => executed > 0
    /\ main = "exited" => call \in {"none", "ok", "failed"}
    /\ printed # "nothing" => main = "exited"

IInv == TypeOK /\ OneAttemptEach /\ CallFollowsMain /\ PrintedAsItEnded /\ WaitsForTheServer

\* A call is executed as often as the policy allows, at most, its sum is printed
\* only if it was executed and answered, and a call that waits for its server fails
\* only once it had been sent to one (25 policy.json:8).
PolicyKept == IInv /\ ExecutedAtMost
=============================================================================
