--------------------------- MODULE AverageCallback ---------------------------
(***************************************************************************)
(* The client-streaming example 08-average-callback: AverageWriteReactor   *)
(* sends its samples, AverageReadReactor sums them up and answers with     *)
(* their average when its reads end.  The calls of a server share no       *)
(* state, so there is one call.                                            *)
(*                                                                         *)
(* An average is modelled by what it is computed from: the sum and the     *)
(* number of the samples.  What float makes of them is left out.           *)
(*                                                                         *)
(* An operator named Action_Defect is that action with a plausible defect. *)
(***************************************************************************)
EXTENDS StreamWriter

VARIABLES
    reactor,   \* the server's: "none", "live", "finished", "deleted"
    incoming,  \* the server's request
    total,     \* accumulator and counter
    read,      \* the server's StartRead: "none", "started", "ok", "end"
    response,  \* what Finish sends, None before
    average    \* what the client's caller has, None before

server == <<reactor, incoming, total, read, response>>
vars   == <<writer, average, server, transport, process>>

None == [sum |-> 0, count |-> 0, known |-> FALSE]

TypeOK == /\ WriterTypeOK
          /\ reactor \in {"none", "live", "finished", "deleted"}
          /\ read \in {"none", "started", "ok", "end"}
          /\ up \in Seq(Nat) /\ down = <<>>
          /\ {total, response, average} \subseteq [sum : Nat, count : Nat, known : BOOLEAN]

Init == /\ TransportInit
        /\ WriterInit
        /\ reactor = "none"
        /\ incoming = 0
        /\ total = None
        /\ read = "none"
        /\ response = None
        /\ average = None

-----------------------------------------------------------------------------
(* The server (server.cpp).                                                *)

\* Run(): main() ends with an exception when the port is taken.
Run == Listen /\ UNCHANGED <<writer, average, server>>

ComputeAvg == /\ process = "up" /\ link \in {"up", "cut"} /\ reactor = "none"
              /\ reactor' = "live"
              /\ read' = "started"
              /\ UNCHANGED <<incoming, total, response, writer, average, transport, process>>

\* Defect: the next sample may overwrite this one before it is counted.
Add_Late(t) == [t EXCEPT !.sum = @ + Head(Append(up, incoming)), !.count = @ + 1]

Add(t) == [t EXCEPT !.sum = @ + incoming, !.count = @ + 1]

\* OnReadDone(true).
OnReadDone == /\ process = "up" /\ read = "ok"
              /\ total' = Add(total)
              /\ read' = "started"
              /\ UNCHANGED <<reactor, incoming, response, writer, average, transport, process>>

\* Defect: the reactor waits for more.
Ended_Ignored == read' = "started" /\ UNCHANGED response

Ended == read' = "none" /\ response' = [total EXCEPT !.known = TRUE]

\* OnReadDone(false): the client has closed its direction, or is gone.
OnReadEnd == /\ process = "up" /\ read = "end"
             /\ Ended
             /\ UNCHANGED <<reactor, incoming, total, writer, average, transport, process>>

Delete == reactor' = "deleted"

\* OnDone().
OnDone == /\ process = "up" /\ reactor = "finished"
          /\ Delete
          /\ UNCHANGED <<incoming, total, read, response, writer, average, transport, process>>

\* OnCancel() only prints.
OnCancel == Learn /\ UNCHANGED <<writer, average, server>>

ReadCompletes ==
    /\ process = "up" /\ read = "started"
    /\ \/ Take /\ read' = "ok" /\ incoming' = Head(up)
       \/ TakeEnds /\ read' = "end" /\ UNCHANGED incoming
    /\ UNCHANGED <<reactor, total, response, writer, average>>

FinishCompletes ==
    /\ process = "up" /\ reactor = "live" /\ response.known
    /\ Conclude("OK")
    /\ reactor' = "finished"
    /\ UNCHANGED <<incoming, total, read, response, writer, average>>

-----------------------------------------------------------------------------
(* The client (client.cpp); the response comes with the status.            *)

ClientStep == /\ \/ OnWriteDone \/ WriteNext \/ OnWriteFailed
                 \/ WriteAccepted \/ WriteRefused \/ CloseCompletes
                 \/ OnCallDone(trailer) \/ Advance \/ StartsTooLate
                 \/ main = "calling" /\ status = "none" /\ FirstWrite
              /\ UNCHANGED <<average, server>>

\* main() calls ComputeAverage, and gets the average or an exception.
ComputeAverage == StartCall /\ UNCHANGED <<average, server>>

Returns == /\ Await
           /\ average' = IF status = "OK" THEN response ELSE average
           /\ UNCHANGED server

Disturb == /\ \/ (Lose \/ Kill) /\ UNCHANGED writer
              \/ WriterFaults
           /\ UNCHANGED <<average, server>>

-----------------------------------------------------------------------------
ServerStep  == ComputeAvg \/ OnReadDone \/ OnReadEnd \/ OnDone
RuntimeStep == ReadCompletes \/ FinishCompletes \/ OnCancel

Next == \/ Run \/ ComputeAverage \/ Returns \/ Disturb
        \/ ClientStep \/ ServerStep \/ RuntimeStep

Spec == Init /\ [][Next]_vars

(* Threads and callbacks run, the runtime completes what it can, and a lost *)
(* server is noticed.                                                      *)
Fairness == /\ WF_vars(ServerStep) /\ WF_vars(RuntimeStep)
            /\ WF_vars(ClientStep) /\ WF_vars(Returns)
            /\ WF_vars(process = "gone" /\ Lose /\ UNCHANGED <<writer, average, server>>)
            /\ WF_vars(ClientGone /\ UNCHANGED <<average, server>>)

FairSpec == Spec /\ Fairness

-----------------------------------------------------------------------------
(* Properties.                                                             *)

SumOf(s) == LET sum[k \in 0..Len(s)] == IF k = 0 THEN 0 ELSE sum[k - 1] + s[k]
            IN sum[Len(s)]

Totals(s) == [sum |-> SumOf(s), count |-> Len(s), known |-> TRUE]

\* A client that dies or loses its connection ends the server's reads as a
\* client that is done does (server.cpp:24-33), and the reactor finishes OK with
\* the average of a part.  No client is ever given such an average: the one that
\* ComputeAverage returns is of everything the client has written.
WholeAnswers == average.known => closed /\ average = Totals(sent)

\* Every ComputeAverage ends, also when a write fails and StartWritesDone is
\* called on a dying call (client.cpp:29).
EveryClientReturns ==
    main # "idle" ~> main \in {"returned", "threw", "crashed", "died"}

\* No reactor outlives its call, however the call ends.
EveryReactorIsDeleted ==
    reactor = "live" ~> reactor = "deleted" \/ process # "up"

-----------------------------------------------------------------------------
(* The inductive invariant.                                                *)

\* The samples the server has examined are the first that the client wrote, the rest
\* is in its incoming or on its way.
SamplesInOrder ==
    LET n == total.count
        k == IF read = "ok" THEN n + 1 ELSE n
    IN /\ k + Len(up) = Len(sent)
       /\ \A i \in 1..Len(up) : up[i] = sent[k + i]
       /\ read = "ok" => incoming = sent[k]
       /\ total.sum = SumOf(SubSeq(sent, 1, n)) /\ ~total.known

\* Everything the client wrote has been counted, and there is an answer.
AllCounted == response.known /\ closed /\ up = <<>>

\* The server's reads end behind the last sample or with the connection, and only
\* behind the last sample can the answer reach a client.
EndsBehindTheLast ==
    /\ closed <=> sending = "closed"
    /\ main = "idle" <=> link = "none"
    /\ link = "none" => reactor = "none"
    /\ reactor = "none" => read = "none" /\ ~response.known
    /\ read = "end" \/ response.known => link = "reset" \/ (closed /\ up = <<>>)
    /\ response.known => read = "none" /\ response = [total EXCEPT !.known = TRUE]
    /\ "OK" \in {trailer, status} => AllCounted
    /\ average.known => AllCounted /\ average = response

IInv == TypeOK /\ CursorFollowsWrites /\ SamplesInOrder /\ EndsBehindTheLast
=============================================================================
