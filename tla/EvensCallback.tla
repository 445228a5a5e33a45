---------------------------- MODULE EvensCallback ----------------------------
(***************************************************************************)
(* The bidirectional example 09-evens-callback: EvensClientBidiReactor     *)
(* writes its numbers and reads at the same time, EvensServerBidiReactor   *)
(* reads, queues the even numbers in buffer and writes them back, with one *)
(* operation under way at a time.  The calls of a server share no state,   *)
(* so there is one call.                                                   *)
(*                                                                         *)
(* An operator named Action_Defect is that action with a plausible defect. *)
(***************************************************************************)
EXTENDS StreamWriter, SequencesExt

VARIABLES
    reading,   \* the client's StartRead: "no", "yes", "ended"
    evens,     \* received_evens
    reactor,   \* the server's: "none", "live", "finished", "deleted"
    incoming,  \* incoming
    buffer,    \* buffer
    read,      \* the server's StartRead: "none", "started", "ok", "end"
    write,     \* the server's StartWrite: "none", "started", "ok", "failed"
    finish     \* the status given to Finish, "none" before

client == <<writer, reading, evens>>
server == <<reactor, incoming, buffer, read, write, finish>>
vars   == <<client, server, transport, process>>

TypeOK == /\ WriterTypeOK
          /\ reading \in {"no", "yes", "ended"}
          /\ evens \in Seq(Nat) /\ up \in Seq(Nat) /\ down \in Seq(Nat)
          /\ buffer \in Seq(Nat) /\ incoming \in Nat
          /\ reactor \in {"none", "live", "finished", "deleted"}
          /\ read \in {"none", "started", "ok", "end"}
          /\ write \in {"none", "started", "ok", "failed"}
          /\ finish \in {"none", "OK", "CANCELLED"}

Init == /\ TransportInit
        /\ WriterInit
        /\ reading = "no"
        /\ evens = <<>>
        /\ reactor = "none"
        /\ incoming = 0
        /\ buffer = <<>>
        /\ read = "none"
        /\ write = "none"
        /\ finish = "none"

-----------------------------------------------------------------------------
(* The server (server.cpp).                                                *)

\* Run(): main() ends when the port is taken.
Run == Listen /\ UNCHANGED <<client, server>>

\* Defect: the next read does not wait for the write.
NextCicle_ReadsToo(b) == /\ buffer' = b
                         /\ write' = IF b # <<>> THEN "started" ELSE "none"
                         /\ read' = "started"

\* NextCicle() with the queue b.
NextCicle(b) == /\ buffer' = b
                /\ write' = IF b # <<>> THEN "started" ELSE "none"
                /\ read' = IF b = <<>> THEN "started" ELSE "none"

FindEvens == /\ process = "up" /\ link \in {"up", "cut"} /\ reactor = "none"
             /\ reactor' = "live"
             /\ NextCicle(<<>>)
             /\ UNCHANGED <<client, incoming, finish, transport, process>>

Queue(b, n) == IF n % 2 = 0 THEN Append(b, n) ELSE b

\* OnReadDone(true).
OnReadDone == /\ process = "up" /\ read = "ok"
              /\ NextCicle(Queue(buffer, incoming))
              /\ UNCHANGED <<client, reactor, incoming, finish, transport, process>>

\* Defect: the reactor waits for more.
Ended_Ignored == UNCHANGED finish

Ended == finish' = "OK"

\* OnReadDone(false): the client is done, or gone.
OnReadEnd == /\ process = "up" /\ read = "end"
             /\ Ended
             /\ read' = "none"
             /\ UNCHANGED <<client, reactor, incoming, buffer, write, transport, process>>

\* Defect: what has been written stays in the queue.
Pop_Forgotten(b) == b

Pop(b) == Tail(b)

\* OnWriteDone(true).
OnWritten == /\ process = "up" /\ write = "ok"
             /\ NextCicle(Pop(buffer))
             /\ UNCHANGED <<client, reactor, incoming, finish, transport, process>>

Stop == write' = "none" /\ UNCHANGED <<buffer, read>>

\* OnWriteDone(false).
OnWriteLost == /\ process = "up" /\ write = "failed"
               /\ finish' = "CANCELLED"
               /\ Stop
               /\ UNCHANGED <<client, reactor, incoming, transport, process>>

\* OnDone(), behind every other callback: delete this.
OnDone == /\ process = "up" /\ reactor = "finished"
          /\ read = "none" /\ write = "none"
          /\ reactor' = "deleted"
          /\ UNCHANGED <<client, incoming, buffer, read, write, finish, transport, process>>

\* OnCancel() only prints.
OnCancel == Learn /\ UNCHANGED <<client, server>>

ReadCompletes ==
    /\ process = "up" /\ read = "started"
    /\ \/ Take /\ read' = "ok" /\ incoming' = Head(up)
       \/ TakeEnds /\ read' = "end" /\ UNCHANGED incoming
    /\ UNCHANGED <<client, reactor, buffer, write, finish>>

WriteCompletes ==
    /\ process = "up" /\ write = "started"
    /\ \/ Reply(Head(buffer)) /\ write' = "ok"
       \/ ReplyFails /\ write' = "failed"
    /\ UNCHANGED <<client, reactor, incoming, buffer, read, finish>>

FinishCompletes ==
    /\ process = "up" /\ reactor = "live" /\ finish # "none"
    /\ Conclude(finish)
    /\ reactor' = "finished"
    /\ UNCHANGED <<client, incoming, buffer, read, write, finish>>

-----------------------------------------------------------------------------
(* The client (client.cpp).                                                *)

\* GetEvens: the constructor begins.
GetEvens == StartCall /\ UNCHANGED <<reading, evens, server>>

FirstRead == /\ main = "calling" /\ status = "none" /\ reading = "no"
             /\ reading' = "yes"
             /\ UNCHANGED <<writer, evens, server, transport, process>>

\* OnReadDone(true): push_back and the next StartRead.
OnEven == /\ Alive /\ reading = "yes"
          /\ Get
          /\ evens' = Append(evens, Head(down))
          /\ UNCHANGED <<writer, reading, server>>

\* OnReadDone(false): no message will come.
OnEvensEnd == /\ Alive /\ reading = "yes"
              /\ GetEnds
              /\ reading' = "ended"
              /\ UNCHANGED <<writer, evens, server>>

Write == /\ \/ OnWriteDone \/ WriteNext \/ OnWriteFailed
            \/ WriteAccepted \/ WriteRefused \/ CloseCompletes
            \/ Advance \/ StartsTooLate \/ Await
            \/ main = "calling" /\ status = "none" /\ reading # "no" /\ FirstWrite
            \/ reading # "yes" /\ OnCallDone(trailer)
         /\ UNCHANGED <<reading, evens, server>>

Disturb == /\ \/ (Lose \/ Kill) /\ UNCHANGED writer
              \/ WriterFaults
           /\ UNCHANGED <<reading, evens, server>>

-----------------------------------------------------------------------------
ServerStep  == FindEvens \/ OnReadDone \/ OnReadEnd \/ OnWritten \/ OnWriteLost \/ OnDone
RuntimeStep == ReadCompletes \/ WriteCompletes \/ FinishCompletes \/ OnCancel
ReadStep    == FirstRead \/ OnEven \/ OnEvensEnd

Next == Run \/ GetEvens \/ ServerStep \/ RuntimeStep \/ ReadStep \/ Write \/ Disturb

Spec == Init /\ [][Next]_vars

(* Threads and callbacks run, the runtime completes what it can, and a lost *)
(* peer is noticed.                                                        *)
Fairness == /\ WF_vars(ServerStep) /\ WF_vars(RuntimeStep)
            /\ WF_vars(ReadStep) /\ WF_vars(Write)
            /\ WF_vars(process = "gone" /\ Lose /\ UNCHANGED <<client, server>>)
            /\ WF_vars(ClientGone /\ UNCHANGED <<reading, evens, server>>)

FairSpec == Spec /\ Fairness

-----------------------------------------------------------------------------
(* Properties.                                                             *)

EvensOf(s) ==
    LET evensOf[k \in 0..Len(s)] ==
            IF k = 0 THEN <<>>
            ELSE IF s[k] % 2 = 0 THEN Append(evensOf[k - 1], s[k]) ELSE evensOf[k - 1]
    IN evensOf[Len(s)]

\* What the server's queue still owes, and what it has not examined.
Owed   == IF write = "ok" THEN Tail(buffer) ELSE buffer
Unread == (IF read = "ok" THEN <<incoming>> ELSE <<>>) \o up

\* No even number that the client wrote is lost, repeated or overtaken on its
\* way through the transport, incoming and buffer (server.cpp:27-44) and back,
\* at any moment of a call whose connection holds; of a call that lost it the
\* client has the evens from the first on, and a list that GetEvens returns is
\* complete.
NothingLost ==
    /\ IsPrefix(evens \o down, EvensOf(sent))
    /\ link = "up" => evens \o down \o Owed \o EvensOf(Unread) = EvensOf(sent)
    /\ main = "returned" => evens = EvensOf(sent) /\ closed

\* The reactor has one operation under way until Finish and none after it: the
\* front of the queue stays there while it is written, incoming is examined
\* before it is read into again (server.cpp:27, 44, 64-74), and Finish is called
\* once.
OneOperation ==
    reactor = "live" =>
        \E op \in {"read", "write", "finish"} :
            /\ (op = "read") <=> (read # "none")
            /\ (op = "write") <=> (write # "none")
            /\ (op = "finish") <=> (finish # "none")

\* GetEvens ends, whatever the order in which a failed write, the end of the
\* reads and the status arrive (client.cpp:22-55).
EveryClientReturns ==
    main # "idle" ~> main \in {"returned", "threw", "crashed", "died"}

\* No reactor outlives its call, however the call ends.
EveryReactorIsDeleted ==
    reactor = "live" ~> reactor = "deleted" \/ process # "up"

-----------------------------------------------------------------------------
(* The inductive invariant.                                                *)

\* The reactor reads when it owes nothing, writes when it does, and starts nothing
\* behind its end.
OneAtATime ==
    /\ OneOperation
    /\ reactor # "live" => read = "none" /\ write = "none"
    /\ reactor = "none" => finish = "none" /\ buffer = <<>>
    /\ read # "none" \/ finish = "OK" => buffer = <<>>
    /\ write # "none" => buffer # <<>>
    /\ write = "failed" \/ finish = "CANCELLED" => link = "reset"

\* The client's reads end behind the last even number or with the connection, and
\* only behind the last can the status be OK.
EndsBehindTheLast ==
    /\ closed <=> sending = "closed"
    /\ main = "idle" <=> link = "none"
    /\ link = "none" => reactor = "none" /\ up = <<>> /\ reading = "no"
    /\ read = "end" \/ finish = "OK" => link = "reset" \/ (closed /\ up = <<>>)
    /\ sending # "none" => reading # "no"
    /\ reading = "ended" => down = <<>> /\ trailer # "none"
    /\ trailer # "none" => link # "up" \/ reactor \in {"finished", "deleted"}
    /\ trailer = "OK" => closed /\ evens \o down = EvensOf(sent)
    /\ status = "OK" => reading = "ended" /\ closed /\ evens = EvensOf(sent)
    /\ main = "returned" => status = "OK"

IInv == TypeOK /\ CursorFollowsWrites /\ NothingLost /\ OneAtATime /\ EndsBehindTheLast
=============================================================================
