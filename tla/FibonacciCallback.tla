------------------------- MODULE FibonacciCallback -------------------------
(***************************************************************************)
(* The server-streaming example of 07-fibonacci-callback: one              *)
(* FibonacciWriterReactor per call on the server, one                      *)
(* FibonacciReaderReactor and one waiting main thread per client process.  *)
(* 33-reflection/src/FibonacciServiceImpl.hpp is the same server reactor.  *)
(*                                                                         *)
(* Responses are named by their position: i stands for the i-th Fibonacci  *)
(* number.  The callbacks of one reactor are serialised by gRPC, so each   *)
(* callback is one action; those of different reactors interleave.         *)
(*                                                                         *)
(* The gRPC runtime is external.  A write completes with ok when the       *)
(* transport takes the message (at most Window of them in transit) and     *)
(* without ok when the server knows the call is dead.  OnDone comes last.  *)
(* A second Finish on one call is an API misuse that gRPC answers by       *)
(* aborting the process.                                                   *)
(*                                                                         *)
(* An operator named Action_Defect is that action with a plausible defect. *)
(***************************************************************************)
EXTENDS Naturals, Sequences, SequencesExt

CONSTANTS Calls,    \* the calls, one per client process
          Fragile,  \* those whose client may die or lose its connection
          Limits,   \* the limits clients ask for
          Window    \* how many messages fit into the transport

ASSUME FragileAssumption == Fragile \subseteq Calls
ASSUME LimitsAssumption == Limits \subseteq Nat
ASSUME WindowAssumption == Window \in Nat \ {0}

VARIABLES
    limit,    \* [Calls -> request.number]
    main,     \* [Calls -> the client's main thread]
    reading,  \* [Calls -> is a StartRead outstanding?]
    numbers,  \* [Calls -> fibonacci_numbers]
    status,   \* [Calls -> the status OnDone received, "none" before]
    wire,     \* [Calls -> the messages in transit]
    trailer,  \* [Calls -> the status in transit, "none" before]
    link,     \* [Calls -> "up", "cut" (client side), "reset" (server knows)]
    process,  \* the server: "down", "up", "gone", "aborted"
    reactor,  \* [Calls -> the server's: "none", "live", "finished", "deleted"]
    current,  \* [Calls -> position of current_response, from 0]
    write,    \* [Calls -> "none", "started", "ok", "failed"]
    finish    \* [Calls -> the status given to Finish, "none" before]

client    == <<limit, main, reading, numbers, status>>
transport == <<wire, trailer, link>>
server    == <<process, reactor, current, write, finish>>
vars      == <<client, transport, server>>

Codes == {"OK", "UNKNOWN", "UNAVAILABLE"}

TypeOK == /\ limit \in [Calls -> Limits]
          /\ main \in [Calls -> {"idle", "calling", "await", "returned", "threw",
                               "crashed", "died"}]
          /\ reading \in [Calls -> BOOLEAN]
          /\ numbers \in [Calls -> Seq(Nat)]
          /\ \A c \in Calls : numbers[c] \in Seq(1..limit[c])
          /\ status \in [Calls -> Codes \cup {"none"}]
          /\ wire \in [Calls -> Seq(Nat)]
          /\ \A c \in Calls : wire[c] \in Seq(1..limit[c])
          /\ trailer \in [Calls -> Codes \cup {"none"}]
          /\ link \in [Calls -> {"up", "cut", "reset"}]
          /\ process \in {"down", "up", "gone", "aborted"}
          /\ reactor \in [Calls -> {"none", "live", "finished", "deleted"}]
          /\ current \in [Calls -> Nat]
          /\ \A c \in Calls : current[c] \in 0..limit[c]
          /\ write \in [Calls -> {"none", "started", "ok", "failed"}]
          /\ finish \in [Calls -> {"none", "OK", "UNKNOWN"}]

Init == /\ limit \in [Calls -> Limits]
        /\ main = [c \in Calls |-> "idle"]
        /\ reading = [c \in Calls |-> FALSE]
        /\ numbers = [c \in Calls |-> <<>>]
        /\ status = [c \in Calls |-> "none"]
        /\ wire = [c \in Calls |-> <<>>]
        /\ trailer = [c \in Calls |-> "none"]
        /\ link = [c \in Calls |-> "up"]
        /\ process = "down"
        /\ reactor = [c \in Calls |-> "none"]
        /\ current = [c \in Calls |-> 0]
        /\ write = [c \in Calls |-> "none"]
        /\ finish = [c \in Calls |-> "none"]

-----------------------------------------------------------------------------
(* The server (server.cpp).                                                *)

\* Run(): without the port there is no server, and main() ends.
Run == /\ process = "down"
       /\ process' \in {"up", "gone"}
       /\ UNCHANGED <<client, transport, reactor, current, write, finish>>

\* The server is killed.
Kill == /\ process = "up"
        /\ process' = "gone"
        /\ UNCHANGED <<client, transport, reactor, current, write, finish>>

\* Finish(s), for a reactor whose Finish has been called with f before.
Finish(c, f, s) == IF f = "none"
                   THEN /\ finish' = [finish EXCEPT ![c] = s]
                        /\ UNCHANGED process
                   ELSE /\ process' = "aborted"
                        /\ finish' = [finish EXCEPT ![c] = f]

\* Defect: the end of the responses is passed by one.
NextWrite_PastTheEnd(c, f) ==
    \/ /\ current[c] > limit[c]
       /\ Finish(c, f, "OK")
       /\ write' = [write EXCEPT ![c] = "none"]
       /\ UNCHANGED current
    \/ /\ current[c] <= limit[c]
       /\ current' = [current EXCEPT ![c] = @ + 1]
       /\ write' = [write EXCEPT ![c] = "started"]
       /\ finish' = [finish EXCEPT ![c] = f]
       /\ UNCHANGED process

\* Defect: the stream ends before its last response.
NextWrite_StopsEarly(c, f) ==
    \/ /\ current[c] + 1 >= limit[c]
       /\ Finish(c, f, "OK")
       /\ write' = [write EXCEPT ![c] = "none"]
       /\ UNCHANGED current
    \/ /\ current[c] + 1 < limit[c]
       /\ current' = [current EXCEPT ![c] = @ + 1]
       /\ write' = [write EXCEPT ![c] = "started"]
       /\ finish' = [finish EXCEPT ![c] = f]
       /\ UNCHANGED process

\* Defect: no Finish after the last response.
NextWrite_NoFinish(c, f) ==
    /\ current' = [current EXCEPT ![c] = IF @ < limit[c] THEN @ + 1 ELSE @]
    /\ write' = [write EXCEPT ![c] = IF current[c] < limit[c] THEN "started" ELSE "none"]
    /\ finish' = [finish EXCEPT ![c] = f]
    /\ UNCHANGED process

\* NextWrite() after a Finish with f, or with f = "none".
NextWrite(c, f) ==
    \/ /\ current[c] = limit[c]
       /\ Finish(c, f, "OK")
       /\ write' = [write EXCEPT ![c] = "none"]
       /\ UNCHANGED current
    \/ /\ current[c] < limit[c]
       /\ current' = [current EXCEPT ![c] = @ + 1]
       /\ write' = [write EXCEPT ![c] = "started"]
       /\ finish' = [finish EXCEPT ![c] = f]
       /\ UNCHANGED process

\* GetFibonaccisStream: the new reactor computes its responses and starts
\* with the first.
GetFibonaccisStream(c) ==
    /\ process = "up"
    /\ main[c] # "idle" /\ trailer[c] = "none" /\ reactor[c] = "none"
    /\ reactor' = [reactor EXCEPT ![c] = "live"]
    /\ NextWrite(c, "none")
    /\ UNCHANGED <<client, transport>>

\* Defect: the test of ok is inverted.
OnWriteDone_Inverted(c) ==
    /\ process = "up"
    /\ write[c] = "ok"
    /\ NextWrite(c, "UNKNOWN")
    /\ UNCHANGED <<client, transport, reactor>>

\* OnWriteDone(true).
OnWriteDone(c) ==
    /\ process = "up"
    /\ write[c] = "ok"
    /\ NextWrite(c, finish[c])
    /\ UNCHANGED <<client, transport, reactor>>

\* OnWriteDone(false): Finish, and then NextWrite all the same.
OnWriteFailed(c) ==
    /\ process = "up"
    /\ write[c] = "failed"
    /\ IF finish[c] = "none"
       THEN NextWrite(c, "UNKNOWN")
       ELSE /\ process' = "aborted"
            /\ UNCHANGED <<current, write, finish>>
    /\ UNCHANGED <<client, transport, reactor>>

\* OnDone(): delete this.
OnDone(c) == /\ process = "up"
             /\ reactor[c] = "finished" /\ write[c] = "none"
             /\ reactor' = [reactor EXCEPT ![c] = "deleted"]
             /\ UNCHANGED <<client, transport, process, current, write, finish>>

-----------------------------------------------------------------------------
(* The client (client.cpp).                                                *)

\* GetFibonacciSequence: the reactor's constructor starts the call.
GetFibonacciSequence(c) ==
    /\ main[c] = "idle"
    /\ main' = [main EXCEPT ![c] = "calling"]
    /\ trailer' = [trailer EXCEPT ![c] = IF process = "up" THEN "none"
                                         ELSE "UNAVAILABLE"]
    /\ UNCHANGED <<limit, reading, numbers, status, wire, link, server>>

\* The constructor starts the first read, and the main thread waits in Await.
FirstRead(c) ==
    /\ main[c] = "calling" /\ status[c] = "none"
    /\ main' = [main EXCEPT ![c] = "await"]
    /\ reading' = [reading EXCEPT ![c] = TRUE]
    /\ UNCHANGED <<limit, numbers, status, transport, server>>

\* The call failed, or had no response, and OnDone ran in a thread of gRPC before
\* the constructor came to its StartRead: gRPC has freed the call.
StartsTooLate(c) ==
    /\ main[c] = "calling" /\ status[c] # "none"
    /\ main' = [main EXCEPT ![c] = "crashed"]
    /\ UNCHANGED <<limit, reading, numbers, status, transport, server>>

\* Defect: the response is not kept.
OnReadDone_Drops(c) ==
    /\ main[c] = "await" /\ reading[c]
    /\ wire[c] # <<>>
    /\ wire' = [wire EXCEPT ![c] = Tail(@)]
    /\ UNCHANGED <<client, trailer, link, server>>

\* OnReadDone(true): push_back and the next StartRead.
OnReadDone(c) ==
    /\ main[c] = "await" /\ reading[c]
    /\ wire[c] # <<>>
    /\ numbers' = [numbers EXCEPT ![c] = Append(@, Head(wire[c]))]
    /\ wire' = [wire EXCEPT ![c] = Tail(@)]
    /\ UNCHANGED <<limit, main, reading, status, trailer, link, server>>

\* Defect: a read is started whatever ok says.
OnReadEnded_Restarts(c) ==
    /\ main[c] = "await" /\ reading[c]
    /\ wire[c] = <<>> /\ trailer[c] # "none"
    /\ UNCHANGED vars

\* OnReadDone(false): no message will come, no read is started.
OnReadEnded(c) ==
    /\ main[c] = "await" /\ reading[c]
    /\ wire[c] = <<>> /\ trailer[c] # "none"
    /\ reading' = [reading EXCEPT ![c] = FALSE]
    /\ UNCHANGED <<limit, main, numbers, status, transport, server>>

\* OnDone(status): the waiting thread is notified.
OnCallDone(c) ==
    /\ main[c] \in {"calling", "await"} /\ ~reading[c]
    /\ wire[c] = <<>>
    /\ status[c] = "none" /\ trailer[c] # "none"
    /\ status' = [status EXCEPT ![c] = trailer[c]]
    /\ UNCHANGED <<limit, main, reading, numbers, transport, server>>

\* Await returns: the sequence on OK, an exception otherwise.
Await(c) ==
    /\ main[c] = "await" /\ status[c] # "none"
    /\ main' = [main EXCEPT ![c] = IF status[c] = "OK" THEN "returned" ELSE "threw"]
    /\ UNCHANGED <<limit, reading, numbers, status, transport, server>>

-----------------------------------------------------------------------------
(* The gRPC runtime and the network (external).                            *)

\* The transport takes the message, or refuses it on a dead call.
WriteCompletes(c) ==
    /\ process = "up"
    /\ write[c] = "started"
    /\ \/ /\ link[c] # "reset" /\ Len(wire[c]) < Window
          /\ write' = [write EXCEPT ![c] = "ok"]
          /\ wire' = [wire EXCEPT ![c] = IF link[c] = "up" THEN Append(@, current[c])
                                         ELSE @]
       \/ /\ link[c] = "reset"
          /\ write' = [write EXCEPT ![c] = "failed"]
          /\ UNCHANGED wire
    /\ UNCHANGED <<client, trailer, link, process, reactor, current, finish>>

\* The status goes to the wire behind the messages, or nowhere.
FinishCompletes(c) ==
    /\ process = "up"
    /\ reactor[c] = "live" /\ finish[c] # "none"
    /\ reactor' = [reactor EXCEPT ![c] = "finished"]
    /\ trailer' = [trailer EXCEPT ![c] = IF link[c] = "up" THEN finish[c] ELSE @]
    /\ UNCHANGED <<client, wire, link, process, current, write, finish>>

\* The client loses the server: what is in transit may be lost, and the call
\* fails with UNAVAILABLE.
Lose(c) == /\ main[c] \in {"calling", "await"}
           /\ main[c] = "await" => reading[c]
           /\ status[c] = "none" /\ trailer[c] # "UNAVAILABLE"
           /\ \E n \in 0..Len(wire[c]) :
                wire' = [wire EXCEPT ![c] = SubSeq(@, 1, n)]
           /\ trailer' = [trailer EXCEPT ![c] = "UNAVAILABLE"]
           /\ link' = [link EXCEPT ![c] = "cut"]
           /\ UNCHANGED <<client, server>>

ServerLost(c) == process # "up" /\ Lose(c)
NetworkFails(c) == c \in Fragile /\ link[c] = "up" /\ Lose(c)

\* The client process dies.
ClientDies(c) == /\ c \in Fragile
                 /\ main[c] \in {"calling", "await"}
                 /\ main' = [main EXCEPT ![c] = "died"]
                 /\ link' = [link EXCEPT ![c] = IF @ = "up" THEN "cut" ELSE @]
                 /\ UNCHANGED <<limit, reading, numbers, status, wire, trailer, server>>

\* The server learns that the client is gone: OnCancel() only logs.
OnCancel(c) == /\ process = "up"
               /\ link[c] = "cut"
               /\ link' = [link EXCEPT ![c] = "reset"]
               /\ UNCHANGED <<client, wire, trailer, server>>

-----------------------------------------------------------------------------
ServerStep(c) == \/ GetFibonaccisStream(c) \/ OnWriteDone(c) \/ OnWriteFailed(c)
                 \/ OnDone(c)
ClientStep(c) == \/ FirstRead(c) \/ StartsTooLate(c) \/ OnReadDone(c)
                 \/ OnReadEnded(c) \/ OnCallDone(c) \/ Await(c)
RuntimeStep(c) == \/ WriteCompletes(c) \/ FinishCompletes(c) \/ ServerLost(c)
                  \/ OnCancel(c)

Next == \/ Run \/ Kill
        \/ \E c \in Calls : \/ GetFibonacciSequence(c)
                            \/ ServerStep(c) \/ ClientStep(c) \/ RuntimeStep(c)
                            \/ NetworkFails(c) \/ ClientDies(c)

Spec == Init /\ [][Next]_vars

(* Callbacks and awakened threads run and the runtime delivers what it has. *)
Fairness == \A c \in Calls : /\ WF_vars(GetFibonaccisStream(c))
                             /\ WF_vars(OnWriteDone(c) \/ OnWriteFailed(c))
                             /\ WF_vars(OnDone(c))
                             /\ WF_vars(ClientStep(c))
                             /\ WF_vars(WriteCompletes(c))
                             /\ WF_vars(FinishCompletes(c))
                             /\ WF_vars(ServerLost(c))
                             /\ WF_vars(OnCancel(c))

FairSpec == Spec /\ Fairness

-----------------------------------------------------------------------------
(* Properties.                                                             *)

\* The positions 1..n of a stream.
Upto(n) == [i \in 1..n |-> i]

\* What the client has and what is on its way is the stream from its start,
\* as far as the server's iterator has come (server.cpp:48-50): nothing is
\* skipped, repeated or reordered, however writes, reads and a lost
\* connection interleave.
StreamFromTheStart ==
    \A c \in Calls : /\ IsPrefix(numbers[c] \o wire[c], Upto(current[c]))
                     /\ link[c] = "up" /\ write[c] # "started" =>
                          numbers[c] \o wire[c] = Upto(current[c])

\* The server process is brought down only by the reactor of a call whose
\* client is gone: patient clients alone cannot reach the double Finish.
OnlyLostCallsAbort ==
    process = "aborted" => \E c \in Calls : link[c] = "reset" /\ finish[c] = "UNKNOWN"

\* Once Finish is called, no write is started and no second Finish either:
\* NextWrite returns after its own Finish (server.cpp:44-45), and "Write
\* failed." (server.cpp:33) is the status the call ends with.
FinishIsLast ==
    [][/\ process' # "aborted"
       /\ \A c \in Calls : finish'[c] # "none" /\ write'[c] = "started"
                            => write[c] = "started"]_<<write, process, finish>>

\* What it takes for a call to be over before the constructor's StartRead
\* (client.cpp:15-16): it failed, or had no response to send.
OverBeforeTheFirstRead(c) == limit[c] = 0 \/ status[c] \in {"UNKNOWN", "UNAVAILABLE"}

\* Every client gets its sequence or an exception, dies with its process, or crashes:
\* its constructor may start the first read on a call that is over, and freed.  It
\* crashes that way of a call that failed or had no response to send, and of no other
\* (client.cpp:15-16, 28-42).
EveryClientReturns ==
    \A c \in Calls :
      main[c] # "idle" ~> \/ main[c] \in {"returned", "threw", "died"}
                          \/ main[c] = "crashed" /\ OverBeforeTheFirstRead(c)

\* Every reactor is deleted, unless the process ends first.
EveryReactorIsDeleted ==
    \A c \in Calls : reactor[c] = "live" ~> reactor[c] = "deleted" \/ process # "up"

-----------------------------------------------------------------------------
(* The inductive invariant: where the responses are, and what a lost call  *)
(* leaves on either side.                                                  *)

\* How many responses the transport has taken, or dropped on a lost call.
Taken(c) == IF write[c] = "started" THEN current[c] - 1 ELSE current[c]

\* The client has the first responses, the wire the ones that follow; only a
\* lost connection makes them fewer than were taken.
NothingSkipped ==
    \A c \in Calls :
      /\ \A i \in 1..Len(numbers[c]) : numbers[c][i] = i
      /\ \A i \in 1..Len(wire[c]) : wire[c][i] = Len(numbers[c]) + i
      /\ Len(numbers[c]) + Len(wire[c]) <= Taken(c)
      /\ link[c] = "up" => Len(numbers[c]) + Len(wire[c]) = Taken(c)

\* A connection is lost with its call, or with the client.
LossFailsTheCall ==
    \A c \in Calls : /\ main[c] = "idle" => link[c] = "up"
                     /\ link[c] # "up" => trailer[c] = "UNAVAILABLE" \/ main[c] = "died"

\* Finish(OK) comes when the responses are out and nothing is being written; a
\* reactor that has finished and writes has met a dead call.
FinishFollowsWrites ==
    \A c \in Calls :
      /\ reactor[c] = "none" => current[c] = 0 /\ write[c] = "none" /\ finish[c] = "none"
      /\ write[c] = "failed" => link[c] = "reset"
      /\ write[c] # "none" /\ finish[c] # "none" => finish[c] = "UNKNOWN" /\ link[c] = "reset"
      /\ finish[c] = "OK" => current[c] = limit[c]

\* The status OK travels behind the last response.
SuccessIsWhole ==
    \A c \in Calls :
      /\ trailer[c] = "OK" => /\ finish[c] = "OK"
                             /\ Len(numbers[c]) + Len(wire[c]) = limit[c]
      /\ status[c] = "OK" => Len(numbers[c]) = limit[c]

\* Before the first read there is no response and no read under way; a client that
\* crashes has met OnDone there.
NothingBeforeTheFirstRead ==
    \A c \in Calls :
      /\ main[c] \in {"idle", "calling", "crashed"} => numbers[c] = <<>> /\ ~reading[c]
      /\ main[c] = "crashed" => status[c] # "none"
      /\ main[c] = "crashed" => OverBeforeTheFirstRead(c)

IInv == /\ TypeOK
        /\ NothingSkipped
        /\ LossFailsTheCall
        /\ FinishFollowsWrites
        /\ SuccessIsWhole
        /\ NothingBeforeTheFirstRead
        /\ OnlyLostCallsAbort

-----------------------------------------------------------------------------
\* Refinement: the client sees an ordered prefix and success only at its end.
Outcome == [c \in Calls |->
              CASE main[c] = "idle" -> "idle"
                [] main[c] \in {"calling", "await"} -> "open"
                [] main[c] = "returned" -> "ok"
                [] OTHER -> "error"]

Stream == INSTANCE ResponseStream
            WITH received <- [c \in Calls |-> Len(numbers[c])], outcome <- Outcome

ImplementsResponseStream == Stream!Spec
=============================================================================
