----------------------------- MODULE SyncStreams -----------------------------
(***************************************************************************)
(* The synchronous streaming examples: 02-fibonacci (a request, a stream   *)
(* of responses), 03-average (a stream of samples, a response) and         *)
(* 04-evens (streams both ways).  The client's stub call and the server's  *)
(* handler each run in a thread of their own and block in every Read and   *)
(* Write.  The client writes all it has, closes its direction, and only    *)
(* then reads; the server answers each message before it reads the next.   *)
(* The calls of a server share no state, so there is one call.             *)
(*                                                                         *)
(* The responses of 02 are named by their position; the average of 03 is   *)
(* modelled by the samples it is computed from.                            *)
(*                                                                         *)
(* An operator named Action_Defect is that action with a plausible defect. *)
(***************************************************************************)
EXTENDS Transport, SequencesExt

CONSTANT Inputs  \* [Examples -> the lists its clients send], <<limit>> in 02

Examples == {"fibonacci", "average", "evens"}

ASSUME InputsAssumption == \A e \in Examples : Inputs[e] \subseteq Seq(Nat)

VARIABLES
    example,   \* the program, of Examples
    input,     \* samples, numbers, <<limit>>
    position,  \* how many of them the write loop is past
    client,    \* the client's thread: "idle", "write", "read", "finish",
               \* "returned", "died"
    received,  \* sequence, evens_list
    status,    \* of Finish, "none" before
    result,    \* what the stub call returns
    handler,   \* the server's thread: "none", "read", "answered", "returned"
    queue,     \* what the handler has still to write for the last message
    seen       \* what the handler has read

caller == <<example, input, position, client, received, status, result>>
callee == <<handler, queue, seen>>
vars   == <<caller, callee, transport, process>>

Init == /\ TransportInit
        /\ example \in Examples
        /\ input \in Inputs[example]
        /\ position = 0
        /\ client = "idle"
        /\ received = <<>>
        /\ status = "none"
        /\ result = <<>>
        /\ handler = "none"
        /\ queue = <<>>
        /\ seen = <<>>

-----------------------------------------------------------------------------
(* The client.                                                             *)

Call == /\ client = "idle"
        /\ client' = "write"
        /\ Open
        /\ UNCHANGED <<example, input, position, received, status, result, callee>>

\* 03 leaves the loop when a Write fails, 04 goes on.
Refused(k) == IF example = "average" THEN Len(input) ELSE k + 1

Write == /\ client = "write" /\ position < Len(input)
         /\ \/ Put(input[position + 1]) /\ position' = position + 1
            \/ PutFails /\ position' = Refused(position)
         /\ UNCHANGED <<example, input, client, received, status, result, callee>>

\* Defect: the client's direction stays open.
HalfClose_Forgotten == UNCHANGED <<transport, process>>

HalfClose == Close

WritesDone == /\ client = "write" /\ position = Len(input)
              /\ client' = "read"
              /\ HalfClose
              /\ UNCHANGED <<example, input, position, received, status, result, callee>>

\* Defect: the message is dropped.
Keep_Drops(s, m) == s

Keep(s, m) == Append(s, m)

Read == /\ client = "read"
        /\ \/ Get /\ received' = Keep(received, Head(down)) /\ UNCHANGED client
           \/ GetEnds /\ client' = "finish" /\ UNCHANGED received
        /\ UNCHANGED <<example, input, position, status, result, callee>>

\* Defect: the status is not looked at.
Result_Unchecked == IF example = "average" THEN seen ELSE received

\* An empty list, or the average 0, stands for an error.
Result == IF trailer # "OK" THEN <<>>
          ELSE IF example = "average" THEN seen ELSE received

Finish == /\ client = "finish"
          /\ client' = "returned"
          /\ status' = trailer
          /\ result' = Result
          /\ UNCHANGED <<example, input, position, received, callee, transport, process>>

-----------------------------------------------------------------------------
(* The server.                                                             *)

\* Run(): main() ends when the port is taken.
Run == Listen /\ UNCHANGED <<caller, callee>>

Handle == /\ process = "up" /\ link \in {"up", "cut"} /\ handler = "none"
          /\ handler' = "read"
          /\ UNCHANGED <<queue, seen, caller, transport, process>>

\* What a message is answered with in example e.
Answers(e, m) == CASE e = "fibonacci"          -> [k \in 1..m |-> k]
                   [] e = "evens" /\ m % 2 = 0 -> <<m>>
                   [] OTHER                   -> <<>>

HandlerReads == /\ process = "up" /\ handler = "read" /\ queue = <<>>
                /\ Take
                /\ queue' = Answers(example, Head(up))
                /\ seen' = Append(seen, Head(up))
                /\ UNCHANGED <<handler, caller>>

\* Defect: the answer is not written.
Respond_Forgotten(m) == UNCHANGED <<transport, process>>

\* The result of Write is ignored.
Respond(m) == Reply(m) \/ ReplyFails

HandlerWrites == /\ process = "up" /\ handler = "read" /\ queue # <<>>
                 /\ Respond(Head(queue))
                 /\ queue' = Tail(queue)
                 /\ UNCHANGED <<handler, seen, caller>>

HandlerReturns == /\ process = "up" /\ handler = "read" /\ queue = <<>>
                  /\ TakeEnds
                  /\ handler' = "answered"
                  /\ UNCHANGED <<queue, seen, caller>>

-----------------------------------------------------------------------------
(* The runtime and the faults (external).                                  *)

SendsStatus == /\ process = "up" /\ handler = "answered"
               /\ Conclude("OK")
               /\ handler' = "returned"
               /\ UNCHANGED <<queue, seen, caller>>

NetworkOrServer == (Lose \/ Learn \/ Kill) /\ UNCHANGED <<caller, callee>>

ClientDies == /\ client \in {"write", "read", "finish"}
              /\ client' = "died"
              /\ Hangup
              /\ UNCHANGED <<example, input, position, received, status, result, callee>>

-----------------------------------------------------------------------------
CallerStep == Write \/ WritesDone \/ Read \/ Finish
CalleeStep == Handle \/ HandlerReads \/ HandlerWrites \/ HandlerReturns \/ SendsStatus

Next == Run \/ Call \/ CallerStep \/ CalleeStep \/ NetworkOrServer \/ ClientDies

Spec == Init /\ [][Next]_vars

(* Threads run, and a lost peer is noticed.                                *)
Fairness == /\ WF_vars(CallerStep) /\ WF_vars(CalleeStep)
            /\ WF_vars(Learn /\ UNCHANGED <<caller, callee>>)
            /\ WF_vars(process = "gone" /\ Lose /\ UNCHANGED <<caller, callee>>)

FairSpec == Spec /\ Fairness

-----------------------------------------------------------------------------
(* Properties.                                                             *)

\* What a list is answered with.
AnswersIn(e, s) == FlattenSeq([k \in DOMAIN s |-> Answers(e, s[k])])
AnswersTo(s)    == AnswersIn(example, s)

Ended == client \in {"returned", "died"}

\* The two threads of a call wait for each other.
Blocked == /\ client = "write" /\ position < Len(input) /\ Len(up) = Window
           /\ queue # <<>> /\ Len(down) = Window
           /\ link = "up"

\* The lists that block 04: behind the message whose answer fills the client's
\* window there are more than the server's window takes (04 client.cpp:22-30).
BlocksOn(s) == \E p \in 0..Len(s) : /\ Len(AnswersTo(SubSeq(s, 1, p))) > Window
                                    /\ Len(s) > p + Window

Disturbed == link # "up" \/ process # "up" \/ client = "died"

\* The client that writes all before it reads blocks for ever against the server
\* that answers as it reads, exactly for these lists, unless one of them dies or
\* the connection is lost ...
LongListsBlock == (link = "up" /\ BlocksOn(input)) ~> ([]Blocked \/ Disturbed)

\* ... and every other call ends: 02 and 03 always do.
OtherCallsEnd == (client # "idle" /\ ~BlocksOn(input)) ~> Ended

Statuses == {"none", "OK", "UNAVAILABLE"}

TypeOK == /\ example \in Examples /\ input \in Inputs[example]
          /\ position \in 0..Len(input)
          /\ client \in {"idle", "write", "read", "finish", "returned", "died"}
          /\ handler \in {"none", "read", "answered", "returned"}
          /\ {received, queue, seen, up, down} \subseteq Seq(Nat)
          /\ closed \in BOOLEAN /\ {trailer, status} \subseteq Statuses
          /\ link \in {"none", "up", "cut", "reset"} /\ process \in {"down", "up", "gone"}

\* The stages of a call follow each other: it is closed behind the last write,
\* concluded behind the last answer, and finished behind the last read.
StagesInOrder ==
    /\ client = "idle" => /\ position = 0 /\ link = "none"
                          /\ received = <<>> /\ down = <<>> /\ seen = <<>>
    /\ link = "none" => client = "idle" /\ handler = "none" /\ up = <<>> /\ trailer = "none"
    /\ client \in {"idle", "write"} => ~closed
    /\ closed => position = Len(input)
    /\ handler # "read" => queue = <<>>
    /\ handler = "answered" /\ link = "up" => up = <<>> /\ closed
    /\ trailer = "OK" => handler = "returned" /\ closed
    /\ trailer = "UNAVAILABLE" => link # "up"
    /\ link = "up" => (handler = "returned" <=> trailer = "OK")
    /\ client = "finish" => down = <<>> /\ trailer # "none"
    /\ client = "returned" <=> status # "none"

\* As long as the connection holds, every message is written once and read once, in its
\* place, and every answer is; there are never more responses than the answer has.
EveryMessageAnswered ==
    /\ link \in {"none", "up"} =>
         /\ seen \o up = SubSeq(input, 1, position)
         /\ received \o down \o queue = AnswersTo(seen)
    /\ trailer = "OK" => seen = input /\ received \o down = AnswersTo(input)
    /\ Len(received) + Len(down) <= Len(AnswersTo(input))

\* A list that a stub call returns is the whole answer or empty: the answer to
\* a part of the input (a server that reads its end from a client that is gone,
\* 03 server.cpp:41) or a part of the answer (02 client.cpp:23-34) is never
\* taken for it.
WholeOrNothing ==
    client = "returned" => result \in {<<>>, IF example = "average" THEN input
                                            ELSE AnswersTo(input)}

\* The inductive invariant (SyncStreams_proofs).
IInv == TypeOK /\ StagesInOrder /\ EveryMessageAnswered /\ WholeOrNothing

\* Refinement: the responses arrive in order, and success comes behind all.
Outcome == CASE client = "idle"                         -> "idle"
             [] client \in {"write", "read", "finish"} -> "open"
             [] client = "returned" /\ status = "OK"    -> "ok"
             [] OTHER                                   -> "error"

Stream == INSTANCE ResponseStream
            WITH Calls    <- {"call"},
                 Limits   <- Nat,
                 limit    <- [c \in {"call"} |-> Len(AnswersTo(input))],
                 received <- [c \in {"call"} |-> Len(received)],
                 outcome  <- [c \in {"call"} |-> Outcome]

ImplementsResponseStream == Stream!Spec
=============================================================================
