---------------------------- MODULE StreamWriter ----------------------------
(***************************************************************************)
(* The writing side of the callback clients: AverageWriteReactor (08) and  *)
(* EvensClientBidiReactor (09) send a list of numbers, one StartWrite at a *)
(* time, and close their direction behind the last.                        *)
(*                                                                         *)
(* The callbacks of a reactor are serialised by gRPC.  The constructor is  *)
(* no callback: it runs in the main thread, and the first callbacks of the *)
(* call run beside its last statements.  Each callback is one action, but  *)
(* for OnWriteDone, whose test of the cursor and use of it are two: the    *)
(* constructor may move the cursor in between.                             *)
(*                                                                         *)
(* An operator named Action_Defect is that action with a plausible defect. *)
(***************************************************************************)
EXTENDS Transport

CONSTANT Inputs  \* the lists of numbers a client may be given

VARIABLES
    numbers,  \* stream_samples, numbers_to_send
    current,  \* position of current_sample, from 0
    request,  \* the number of the write under way
    sending,  \* "none", "write", "written", "tested", "failed", "close", "closed"
    sent,     \* what the transport has taken, a history
    status,   \* the status OnDone received, "none" before
    main      \* the main thread: "idle", "calling", "writing", "await", then
              \* "returned", "threw", "crashed" or "died"

cursor == <<numbers, current, request>>
writer == <<cursor, sending, sent, status, main>>

Alive == main \in {"calling", "writing", "await"}

WriterTypeOK ==
    /\ numbers \in Inputs
    /\ current \in 0..Len(numbers) + 1
    /\ request \in Nat /\ sent \in Seq(Nat)
    /\ sending \in {"none", "write", "written", "tested", "failed", "close", "closed"}
    /\ {status, trailer} \subseteq {"none", "OK", "CANCELLED", "UNAVAILABLE"}
    /\ main \in {"idle", "calling", "writing", "await", "returned", "threw",
                 "crashed", "died"}

WriterInit == /\ numbers \in Inputs
              /\ current = 0
              /\ request = 0
              /\ sending = "none"
              /\ sent = <<>>
              /\ status = "none"
              /\ main = "idle"

-----------------------------------------------------------------------------
(* The constructor.                                                        *)

StartCall == /\ main = "idle"
             /\ main' = "calling"
             /\ Open
             /\ UNCHANGED <<cursor, sending, sent, status>>

\* The first NextWrite() up to its StartWrite or StartWritesDone.
FirstWrite ==
    \/ /\ numbers # <<>>
       /\ sending' = "write"
       /\ request' = numbers[1]
       /\ main' = "writing"
       /\ UNCHANGED <<numbers, current, sent, status, transport, process>>
    \/ /\ numbers = <<>>
       /\ sending' = "close"
       /\ main' = "await"
       /\ UNCHANGED <<cursor, sent, status, transport, process>>

\* An operation is started on a call whose OnDone has run: gRPC has freed it.
StartsTooLate == /\ main = "calling" /\ status # "none"
                 /\ main' = "crashed"
                 /\ UNCHANGED <<cursor, sending, sent, status, transport, process>>

\* Defect: the iterator is moved twice.
Increment_Twice == current' = current + 2

\* It may be lost, wholly or in part, to the increments of OnWriteDone.
Increment == current' \in 1..current + 1

\* The increment behind the first StartWrite, unsynchronised with OnWriteDone.
Advance == /\ main = "writing"
           /\ main' = "await"
           /\ Increment
           /\ UNCHANGED <<numbers, request, sending, sent, status, transport, process>>

-----------------------------------------------------------------------------
(* The callbacks.                                                          *)

\* Defect: the direction is never closed.
AtEnd_StaysOpen == sending' = "none"

AtEnd == sending' = "close"

\* OnWriteDone(true): NextWrite() tests the cursor; past the end is not the end.
OnWriteDone ==
    /\ Alive /\ sending = "written"
    /\ \/ current # Len(numbers) /\ sending' = "tested"
       \/ current = Len(numbers) /\ AtEnd
    /\ UNCHANGED <<cursor, sent, status, main, transport, process>>

\* The rest of NextWrite() dereferences the cursor, from the end on memory that is
\* not the list's, writes and moves on.
WriteNext ==
    /\ Alive /\ sending = "tested"
    /\ \/ /\ current < Len(numbers)
          /\ request' = numbers[current + 1]
          /\ current' = current + 1
          /\ sending' = "write"
          /\ UNCHANGED main
       \/ /\ current >= Len(numbers)
          /\ main' = "crashed"
          /\ UNCHANGED <<request, current, sending>>
    /\ UNCHANGED <<numbers, sent, status, transport, process>>

\* OnWriteDone(false): StartWritesDone().
OnWriteFailed == /\ Alive /\ sending = "failed"
                 /\ sending' = "close"
                 /\ UNCHANGED <<cursor, sent, status, main, transport, process>>

\* OnDone(s), behind every other callback: no operation is under way.
OnCallDone(s) == /\ Alive /\ status = "none" /\ trailer # "none"
                 /\ main = "calling" \/ sending = "closed"
                 /\ status' = s
                 /\ UNCHANGED <<cursor, sending, sent, main, transport, process>>

\* Await returns; the caller gets its result or an exception.
Await == /\ main = "await" /\ status # "none"
         /\ main' = IF status = "OK" THEN "returned" ELSE "threw"
         /\ UNCHANGED <<cursor, sending, sent, status, transport, process>>

-----------------------------------------------------------------------------
(* The runtime (external).                                                 *)

WriteAccepted == /\ Alive /\ sending = "write"
                 /\ Put(request)
                 /\ sending' = "written"
                 /\ sent' = Append(sent, request)
                 /\ UNCHANGED <<cursor, status, main>>

WriteRefused == /\ Alive /\ sending = "write"
                /\ PutFails
                /\ sending' = "failed"
                /\ UNCHANGED <<cursor, sent, status, main>>

CloseCompletes == /\ Alive /\ sending = "close"
                  /\ Close
                  /\ sending' = "closed"
                  /\ UNCHANGED <<cursor, sent, status, main>>

\* The process of the client ends in the middle of the call.
ClientEnds == /\ main \in {"calling", "writing", "await"}
              /\ main' = "died"
              /\ Hangup
              /\ UNCHANGED <<cursor, sending, sent, status>>

\* A crashed client takes its connection with it.
ClientGone == /\ main = "crashed" /\ link = "up"
              /\ link' = "cut"
              /\ UNCHANGED <<writer, messages, trailer, process>>

-----------------------------------------------------------------------------
WriterFaults == ClientEnds \/ ClientGone

(* What a reader of the code expects of the cursor.                        *)

\* Every number is sent once and in order: the next write is of the next number
\* (08 client.cpp:23, 58; 09 client.cpp:26, 75).  The increment behind the first
\* StartWrite races with the first OnWriteDone.
SendsItsNumbers == \E n \in 0..Len(numbers) : sent = SubSeq(numbers, 1, n)

\* The client process dies of its own only of a call that ended before its
\* first operation, or of that race, and then behind the last number: as many as
\* the list has were sent, and unless the increment of the constructor fell between
\* the test and the dereference, one of them twice.
CrashesOfItsConstructor ==
    main = "crashed" =>
      \/ sent = <<>> /\ status # "none"
      \/ /\ sending = "tested" /\ Len(sent) >= Len(numbers)
         /\ current # Len(numbers) => ~SendsItsNumbers

\* The writes that have been started, the first of them in the constructor.
Started == Len(sent) + IF sending = "write" THEN 1 ELSE 0

\* The cursor never overtakes the writes, and stays one behind until the constructor
\* has moved it: what leads a client past the end of its list is a number written twice.
CursorFollowsWrites ==
    /\ main \in {"idle", "calling"} => sending = "none" /\ sent = <<>> /\ current = 0
    /\ main = "writing" => current <= Len(numbers)
    /\ sending \in {"write", "written", "tested"} =>
         /\ main = "writing" => current < Started
         /\ main = "await" => current <= Started
    /\ main = "crashed" => \/ sent = <<>> /\ status # "none"
                           \/ /\ sending = "tested"
                              /\ Len(numbers) <= current /\ current <= Len(sent)
=============================================================================
