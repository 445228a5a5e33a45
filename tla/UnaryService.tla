---------------------------- MODULE UnaryService ----------------------------
(***************************************************************************)
(* What a unary gRPC service of the course promises its clients, whatever  *)
(* machinery implements it (completion queue, reactor or thread pool).     *)
(* A call is answered only after its handler ran, the handler runs at most *)
(* once per call, the answer is the one computed from the call's own       *)
(* request, and a call that was cancelled, answered or failed stays so.    *)
(*                                                                         *)
(* A call stands for its own request: the value of reply[c] is the call    *)
(* whose operands the answer was computed from.                            *)
(***************************************************************************)
CONSTANTS Calls,  \* the RPCs that clients may start
          None    \* "no answer yet"

VARIABLES rpc,    \* [Calls -> state of the RPC as its client sees it]
          reply,  \* [Calls -> Calls \cup {None}]
          up      \* does the service accept new calls?

vars == <<rpc, reply, up>>

RpcStates ==
    {"idle", "pending", "executed", "answered", "cancelled", "failed"}

Init == /\ rpc = [c \in Calls |-> "idle"]
        /\ reply = [c \in Calls |-> None]
        /\ up = FALSE

\* The service starts, or stops, accepting calls.
Switch == /\ up' = ~up
          /\ UNCHANGED <<rpc, reply>>

\* A client starts a call; without a server it fails at once.
StartCall(c) == /\ rpc[c] = "idle"
                /\ rpc' = [rpc EXCEPT ![c] = IF up THEN "pending" ELSE "failed"]
                /\ UNCHANGED <<reply, up>>

\* The handler computes the answer of a pending call.
Execute(c) == /\ up
              /\ rpc[c] = "pending"
              /\ rpc' = [rpc EXCEPT ![c] = "executed"]
              /\ UNCHANGED <<reply, up>>

\* The answer reaches the client.
Answer(c) == /\ rpc[c] = "executed"
             /\ rpc' = [rpc EXCEPT ![c] = "answered"]
             /\ reply' = [reply EXCEPT ![c] = c]
             /\ UNCHANGED up

\* The client gives the call up.
Cancel(c) == /\ rpc[c] \in {"pending", "executed"}
             /\ rpc' = [rpc EXCEPT ![c] = "cancelled"]
             /\ UNCHANGED <<reply, up>>

\* A call the service will no longer execute fails.
Fail(c) == /\ ~up
           /\ rpc[c] = "pending"
           /\ rpc' = [rpc EXCEPT ![c] = "failed"]
           /\ UNCHANGED <<reply, up>>

Next == \/ Switch
        \/ \E c \in Calls : \/ StartCall(c) \/ Execute(c) \/ Answer(c)
                            \/ Cancel(c) \/ Fail(c)

Spec == Init /\ [][Next]_vars
=============================================================================
