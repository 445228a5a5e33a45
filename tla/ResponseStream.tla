--------------------------- MODULE ResponseStream ---------------------------
(***************************************************************************)
(* What a server-streaming call promises its client: the client receives   *)
(* the responses 1, 2, 3 ... in order, none twice and none skipped, and    *)
(* the call succeeds only when all of them have been received.  A call may *)
(* fail at any time.  Responses are named by their position in the stream. *)
(***************************************************************************)
EXTENDS Naturals

CONSTANTS Calls,
          Limits    \* the numbers of responses a client may ask for

VARIABLES limit,    \* [Calls -> the number asked for]
          received, \* [Calls -> how many responses the client has]
          outcome   \* [Calls -> "idle", "open", "ok" or "error"]

vars == <<limit, received, outcome>>

Init == /\ limit \in [Calls -> Limits]
        /\ received = [c \in Calls |-> 0]
        /\ outcome = [c \in Calls |-> "idle"]

Open(c) == /\ outcome[c] = "idle"
           /\ outcome' = [outcome EXCEPT ![c] = "open"]
           /\ UNCHANGED <<limit, received>>

Receive(c) == /\ outcome[c] = "open"
              /\ received[c] < limit[c]
              /\ received' = [received EXCEPT ![c] = @ + 1]
              /\ UNCHANGED <<limit, outcome>>

Succeed(c) == /\ outcome[c] = "open"
              /\ received[c] = limit[c]
              /\ outcome' = [outcome EXCEPT ![c] = "ok"]
              /\ UNCHANGED <<limit, received>>

Fail(c) == /\ outcome[c] = "open"
           /\ outcome' = [outcome EXCEPT ![c] = "error"]
           /\ UNCHANGED <<limit, received>>

Next == \E c \in Calls : Open(c) \/ Receive(c) \/ Succeed(c) \/ Fail(c)

Spec == Init /\ [][Next]_vars
=============================================================================
