------------------------------- MODULE Streams -------------------------------
(***************************************************************************)
(* The streaming examples over one transport.  A behaviour is that of one  *)
(* program: of 02, 03 or 04 (SyncStreams), of 08 (AverageCallback) or of   *)
(* 09 (EvensCallback); the variables of the others keep their first value. *)
(***************************************************************************)
EXTENDS SyncStreams

CONSTANTS Samples,  \* the lists the clients of 08 write
          Numbers   \* those of 09

ASSUME SamplesAssumption == Samples \subseteq Seq(Nat)
ASSUME NumbersAssumption == Numbers \subseteq Seq(Nat)

VARIABLES numbers, current, request, sending, sent, main,  \* StreamWriter
          reactor, incoming, read,                         \* 08 and 09
          total, response, average,                        \* 08
          reading, evens, buffer, write, finish            \* 09

blocking  == <<input, position, client, received, result, handler, queue, seen>>
writing   == <<numbers, current, request, sending, sent, main>>
serving   == <<reactor, incoming, read>>
averaging == <<total, response, average>>
filtering == <<reading, evens, buffer, write, finish>>
all       == <<vars, writing, serving, averaging, filtering>>

Average == INSTANCE AverageCallback WITH Inputs <- Samples
Evens   == INSTANCE EvensCallback WITH Inputs <- Numbers

-----------------------------------------------------------------------------
BlockingRests == /\ input = <<>> /\ position = 0 /\ client = "idle"
                 /\ received = <<>> /\ result = <<>>
                 /\ handler = "none" /\ queue = <<>> /\ seen = <<>>

CallbacksRest == /\ numbers = <<>> /\ current = 0 /\ request = 0
                 /\ sending = "none" /\ sent = <<>> /\ main = "idle"
                 /\ reactor = "none" /\ incoming = 0 /\ read = "none"

AveragingRests == total = Average!None /\ response = Average!None /\ average = Average!None

FilteringRests == /\ reading = "no" /\ evens = <<>>
                  /\ buffer = <<>> /\ write = "none" /\ finish = "none"

StreamsInit ==
    \/ Init /\ CallbacksRest /\ AveragingRests /\ FilteringRests
    \/ example = "average_callback" /\ Average!Init /\ BlockingRests /\ FilteringRests
    \/ example = "evens_callback" /\ Evens!Init /\ BlockingRests /\ AveragingRests

\* Steps of one of the programs.
Sync(A) == /\ example \in Examples /\ A
           /\ UNCHANGED <<writing, serving, averaging, filtering>>
In08(A) == /\ example = "average_callback" /\ A
           /\ UNCHANGED <<example, blocking, filtering>>
In09(A) == /\ example = "evens_callback" /\ A
           /\ UNCHANGED <<example, blocking, averaging>>

StreamsNext == Sync(Next) \/ In08(Average!Next) \/ In09(Evens!Next)

StreamsSpec == StreamsInit /\ [][StreamsNext]_all

LostServer == process = "gone" /\ Lose

\* The fairness of each program; only one of them takes steps.
StreamsFairness ==
    /\ WF_all(Sync(CallerStep) \/ In08(Average!ClientStep) \/ In09(Evens!Write))
    /\ WF_all(Sync(CalleeStep) \/ In08(Average!ServerStep) \/ In09(Evens!ServerStep))
    /\ WF_all(In08(Average!RuntimeStep) \/ In09(Evens!RuntimeStep))
    /\ WF_all(In08(Average!Returns) \/ In09(Evens!ReadStep))
    /\ WF_all(\/ Sync(LostServer /\ UNCHANGED <<caller, callee>>)
              \/ In08(LostServer /\ UNCHANGED <<writing, status, serving, averaging>>)
              \/ In09(LostServer /\ UNCHANGED <<writing, status, serving, filtering>>))
    /\ WF_all(\/ Sync(Learn /\ UNCHANGED <<caller, callee>>)
              \/ In08(Average!ClientGone /\ UNCHANGED <<serving, averaging>>)
              \/ In09(Evens!ClientGone /\ UNCHANGED <<serving, filtering>>))

FairStreams == StreamsSpec /\ StreamsFairness

-----------------------------------------------------------------------------
(* The properties; those of 02, 03 and 04 hold of a client that rests.     *)

\* No client is given a part of an answer, or an answer to a part of what it
\* sent (02 client.cpp:23-34, 03 server.cpp:41, 08 server.cpp:24-33).
WholeAnswers == /\ example \in Examples => IInv
                /\ WholeOrNothing
                /\ example = "average_callback" => Average!WholeAnswers

\* The variables of 08 and 09 have their types, the cursor that the constructor
\* shares with its callbacks among them, and its race is the only crash of a
\* client (08 client.cpp:19-27, 09 client.cpp:22-30).
CrashesOfItsConstructor ==
    /\ example = "average_callback" => Average!IInv /\ Average!CrashesOfItsConstructor
    /\ example = "evens_callback" => Evens!IInv /\ Evens!CrashesOfItsConstructor

\* No even number is lost, repeated or overtaken, and none is read over while it
\* is being written: the reactor has one operation under way (09
\* server.cpp:27-44, 64-74).
NothingLost == example = "evens_callback" => Evens!NothingLost /\ Evens!OneOperation

\* Every call returns, throws or ends with its process, but for those of 04 that
\* block (08 client.cpp:29, 09 client.cpp:22-55, 04 client.cpp:22-34).
EveryClientReturns ==
    OtherCallsEnd /\ Average!EveryClientReturns /\ Evens!EveryClientReturns

\* No reactor of 08 and 09 outlives its call, however the call ends.
EveryReactorIsDeleted == Average!EveryReactorIsDeleted /\ Evens!EveryReactorIsDeleted
=============================================================================
