--------------------------- MODULE AsyncSumClient ---------------------------
(***************************************************************************)
(* The two clients of 05-sum-async.  client.cpp sends its call and waits   *)
(* for it on a completion queue in the main thread.  client-thread.cpp     *)
(* polls the queue in a second thread, AsyncCompleteRpc; the main thread   *)
(* sends the call, shuts the queue down at once and joins.  Each process   *)
(* makes one call, so a process also names its call and its operands.      *)
(*                                                                         *)
(* The server is any that keeps the promises of UnaryService, as           *)
(* AsyncSumServer does: this module is the other half of that system.      *)
(*                                                                         *)
(* The completion queue is external.  It reports the tag of Finish once    *)
(* the RPC is over, also after Shutdown(), and Next() returns false when   *)
(* the queue is shut down and no tag is pending.                           *)
(*                                                                         *)
(* An operator named Action_Defect is that action with a plausible defect. *)
(***************************************************************************)
CONSTANTS Simple,    \* the processes that run client.cpp
          Threaded,  \* the processes that run client-thread.cpp
          None

VARIABLES
    rpc, reply, up,  \* the calls and the server, see UnaryService
    main,    \* [Processes -> "start", "call", "finish", "handed", "shutdown",
             \*  "join", "next", "exited"]
    poller,  \* [Processes -> the thread: "none", "next", "event", "ended"]
    call,    \* [Processes -> the AsyncClientCall: "none", "live", "deleted"]
    queue,   \* [Processes -> the tag of Finish: "none", "pending", "ready", "taken"]
    open,    \* the processes whose queue has not been shut down
    lines    \* [Processes -> what was printed: a set of "sum", "failed"]

clients == <<main, poller, call, queue, open, lines>>
vars    == <<rpc, reply, up, clients>>

Processes == Simple \cup Threaded

Service == INSTANCE UnaryService WITH Calls <- Processes

Over(p) == rpc[p] \in {"answered", "cancelled", "failed"}

TypeOK == /\ rpc \in [Processes -> Service!RpcStates]
          /\ reply \in [Processes -> Processes \cup {None}]
          /\ up \in BOOLEAN
          /\ main \in [Processes -> {"start", "call", "finish", "handed", "shutdown",
                                     "join", "next", "exited"}]
          /\ poller \in [Processes -> {"none", "next", "event", "ended"}]
          /\ call \in [Processes -> {"none", "live", "deleted"}]
          /\ queue \in [Processes -> {"none", "pending", "ready", "taken"}]
          /\ open \subseteq Processes
          /\ lines \in [Processes -> SUBSET {"sum", "failed"}]

Init == /\ Service!Init
        /\ main = [p \in Processes |-> "start"]
        /\ poller = [p \in Processes |-> "none"]
        /\ call = [p \in Processes |-> "none"]
        /\ queue = [p \in Processes |-> "none"]
        /\ open = Processes
        /\ lines = [p \in Processes |-> {}]

Goto(p, from, to) == main[p] = from /\ main' = [main EXCEPT ![p] = to]

-----------------------------------------------------------------------------
(* The main threads.                                                       *)

\* std::thread(&SumClient::AsyncCompleteRpc, &client).
StartThread(p) == /\ p \in Threaded
                  /\ Goto(p, "start", "call")
                  /\ poller' = [poller EXCEPT ![p] = "next"]
                  /\ UNCHANGED <<rpc, reply, up, call, queue, open, lines>>

\* ComputeSum up to StartCall(), or AsyncComputeSum().
StartCall(p) == /\ Goto(p, IF p \in Threaded THEN "call" ELSE "start", "finish")
                /\ Service!StartCall(p)
                /\ call' = [call EXCEPT ![p] = "live"]
                /\ UNCHANGED <<poller, queue, open, lines>>

\* rpc->Finish(reply, status, tag) hands the call over to the queue ...
Finish(p) == /\ Goto(p, "finish", "handed")
             /\ queue' = [queue EXCEPT ![p] = "pending"]
             /\ UNCHANGED <<rpc, reply, up, poller, call, open, lines>>

\* ... and returns; the polling thread may have deleted the call by then.
FinishReturns(p) ==
    /\ Goto(p, "handed", IF p \in Threaded THEN "shutdown" ELSE "next")
    /\ UNCHANGED <<rpc, reply, up, poller, call, queue, open, lines>>

\* Defect: a statement behind Finish() looks into the call.
InCall_Behind(p) == main[p] \in {"finish", "handed"}

\* main() uses the call up to the handover, and then no more.
InCall(p) == main[p] = "finish"

\* Defect: the queue is left open.
Shutdown_Forgotten(p) == /\ Goto(p, "shutdown", "join")
                         /\ UNCHANGED <<rpc, reply, up, poller, call, queue, open, lines>>

Shutdown(p) == /\ Goto(p, "shutdown", "join")
               /\ open' = open \ {p}
               /\ UNCHANGED <<rpc, reply, up, poller, call, queue, lines>>

\* Defect: the thread is detached.
Join_Detaches(p) == /\ Goto(p, "join", "exited")
                    /\ UNCHANGED <<rpc, reply, up, poller, call, queue, open, lines>>

Join(p) == /\ poller[p] = "ended"
           /\ Goto(p, "join", "exited")
           /\ UNCHANGED <<rpc, reply, up, poller, call, queue, open, lines>>

\* Defect: the status is not examined.
Printed_Unchecked(p) == "sum"

\* The sum, or the error (client.cpp throws it to main(), which prints it).
Printed(p) == IF rpc[p] = "answered" THEN "sum" ELSE "failed"

\* client.cpp: Next() and the rest of ComputeSum, with its locals.
NextReturns(p) == /\ queue[p] = "ready"
                  /\ Goto(p, "next", "exited")
                  /\ queue' = [queue EXCEPT ![p] = "taken"]
                  /\ lines' = [lines EXCEPT ![p] = @ \cup {Printed(p)}]
                  /\ call' = [call EXCEPT ![p] = "deleted"]
                  /\ UNCHANGED <<rpc, reply, up, poller, open>>

-----------------------------------------------------------------------------
(* The polling threads.                                                    *)

TakeEvent(p) == /\ poller[p] = "next" /\ queue[p] = "ready"
                /\ poller' = [poller EXCEPT ![p] = "event"]
                /\ queue' = [queue EXCEPT ![p] = "taken"]
                /\ UNCHANGED <<rpc, reply, up, main, call, open, lines>>

\* Defect: the call is not deleted.
Delete_Forgotten(p) == UNCHANGED call

Delete(p) == call' = [call EXCEPT ![p] = "deleted"]

\* The body of the loop.
HandleEvent(p) == /\ poller[p] = "event"
                  /\ poller' = [poller EXCEPT ![p] = "next"]
                  /\ lines' = [lines EXCEPT ![p] = @ \cup {Printed(p)}]
                  /\ Delete(p)
                  /\ UNCHANGED <<rpc, reply, up, main, queue, open>>

\* Defect: a shut down queue ends the loop although a tag is pending.
Drained_AtOnce(p) == TRUE

Drained(p) == queue[p] \notin {"pending", "ready"}

LeaveLoop(p) == /\ poller[p] = "next"
                /\ p \notin open /\ Drained(p)
                /\ poller' = [poller EXCEPT ![p] = "ended"]
                /\ UNCHANGED <<rpc, reply, up, main, call, queue, open, lines>>

-----------------------------------------------------------------------------
(* The completion queue and the server (external).                         *)

Complete(p) == /\ queue[p] = "pending" /\ Over(p)
               /\ queue' = [queue EXCEPT ![p] = "ready"]
               /\ UNCHANGED <<rpc, reply, up, main, poller, call, open, lines>>

Serve(p) == /\ \/ Service!Execute(p) \/ Service!Answer(p) \/ Service!Fail(p)
            /\ UNCHANGED clients

Switch == Service!Switch /\ UNCHANGED clients

\* The connection of a client is lost.
Lose(p) == /\ main[p] # "exited" /\ Service!Cancel(p)
           /\ UNCHANGED clients

-----------------------------------------------------------------------------
Process(p) == \/ StartThread(p) \/ StartCall(p) \/ Finish(p) \/ FinishReturns(p)
              \/ Shutdown(p) \/ Join(p) \/ NextReturns(p)

Poller(p) == TakeEvent(p) \/ HandleEvent(p) \/ LeaveLoop(p)

Next == \/ \E p \in Processes : \/ Process(p) \/ Poller(p)
                                \/ Complete(p) \/ Serve(p) \/ Lose(p)
        \/ Switch

Spec == Init /\ [][Next]_vars

(* Threads run, and the queue reports what is over.  That a call is ever    *)
(* over is not assumed: a client has no deadline, and the server of 05 can  *)
(* leave it waiting.                                                       *)
Fairness == \A p \in Processes : /\ WF_vars(Process(p)) /\ WF_vars(Poller(p))
                                 /\ WF_vars(Complete(p))

FairSpec == Spec /\ Fairness

-----------------------------------------------------------------------------
(* Properties.                                                             *)

\* A process that ends has reported its call, as it went.
ReportsItsCall ==
    \A p \in Processes : main[p] = "exited" =>
        lines[p] = {IF rpc[p] = "answered" THEN "sum" ELSE "failed"} /\ call[p] = "deleted"

\* Neither thread of client-thread.cpp uses a call that has been deleted: the
\* polling thread has it only after main() gave it away, which may be before
\* Finish() returns (lines 55, 66-83), deletes it once, and main() does not look
\* into it again.
OneOwner ==
    \A p \in Processes :
      /\ InCall(p) \/ poller[p] = "event" => call[p] = "live"
      /\ poller[p] = "event" => main[p] \in {"handed", "shutdown", "join"}

\* A process whose call is over ends, and its loop with it.
EveryProcessEnds == \A p \in Processes : Over(p) ~> main[p] = "exited"

-----------------------------------------------------------------------------
(* The inductive invariant.                                                *)

\* How far a process is, in its main thread, its call, its queue and the thread
\* that polls it.
InStep ==
    \A p \in Processes :
      /\ main[p] \in {"start", "call"} <=> call[p] = "none"
      /\ call[p] = "none" <=> rpc[p] = "idle"
      /\ main[p] \in {"start", "call", "finish"} <=> queue[p] = "none"
      /\ main[p] \in {"call", "shutdown", "join"} => p \in Threaded
      /\ main[p] = "next" => p \notin Threaded
      /\ p \notin open => main[p] \in {"join", "exited"}
      /\ poller[p] = "none" <=> p \notin Threaded \/ main[p] = "start"
      /\ queue[p] = "none" => poller[p] \in {"none", "next"}

\* A tag is reported for a call that is over, and once: its thread prints the
\* outcome, deletes the call and only then may leave the loop.
HandledOnce ==
    \A p \in Processes :
      /\ queue[p] \in {"ready", "taken"} => Over(p)
      /\ poller[p] = "event" => main[p] \in {"handed", "shutdown", "join"}
      /\ poller[p] \in {"event", "ended"} => queue[p] = "taken"
      /\ call[p] = "deleted" <=> queue[p] = "taken" /\ poller[p] # "event"
      /\ lines[p] = IF call[p] = "deleted" THEN {Printed(p)} ELSE {}
      /\ main[p] = "exited" => queue[p] = "taken" /\ poller[p] # "event"

IInv == TypeOK /\ InStep /\ HandledOnce

\* A process ends with its call reported, as it went, and freed, although the
\* queue is shut down while the call is under way (client-thread.cpp:123), and
\* neither main() nor the polling thread uses a call that was deleted.
ReportedAndFreed == IInv /\ ReportsItsCall /\ OneOwner
=============================================================================
