------------------------------- MODULE Console -------------------------------
(***************************************************************************)
(* The examples whose processes take commands in a thread: 29-health (the  *)
(* server's q, s and r), 30-keepalive, 31-compress and 32-ssl (q of the    *)
(* server, c and q of the client).  main() starts the server or the        *)
(* channel, then the thread, and joins it; so one location serves both.    *)
(* One server and one client.  The client of 29 has no console: it asks    *)
(* for the server's health once and then, perhaps, for the sum.            *)
(*                                                                         *)
(* A user types a script; behind it the input is at its end, where         *)
(* std::cin >> command leaves command as it is.                            *)
(*                                                                         *)
(* An operator named Action_Defect is that action with a plausible defect. *)
(***************************************************************************)
EXTENDS Naturals, FiniteSets, Sequences, SequencesExt

CONSTANTS ServerScripts,  \* [Examples -> sets of sequences of "s", "r", "q"]
          ClientScripts   \* [Examples -> sets of sequences of "c", "x", "q"]

Examples == {"health", "keepalive", "compress", "ssl"}

VARIABLES
    example,    \* the program, of Examples
    server,     \* "start", "prompt", "quit", "draining", "stopped", "exited",
                \* "crashed"
    listening,  \* does SumServer::server listen?
    sscript,    \* what the server's user types
    sread,      \* how much of it has been read
    serving,    \* is_serving
    health,     \* what the health service of gRPC answers
    client,     \* "start", "prompt", "calling", "exited", "terminated", "failed"
    cscript,    \* what the client's user types
    cread,      \* how much of it has been read
    made,       \* how many calls it led to, at most one more than its length
    call        \* "none", "sent", "accepted", "ok", "failed"

typed      == <<example, sscript, cscript>>
serverVars == <<server, listening, sread, serving, health>>
clientVars == <<client, cread, made>>
vars       == <<typed, serverVars, clientVars, call>>

TypeOK == /\ example \in Examples
          /\ server \in {"start", "prompt", "quit", "draining", "stopped", "exited",
                         "crashed"}
          /\ {listening, serving} \subseteq BOOLEAN
          /\ sscript \in ServerScripts[example] /\ sread \in 0..Len(sscript)
          /\ health \in {"SERVING", "NOT_SERVING"}
          /\ client \in {"start", "prompt", "calling", "exited", "terminated", "failed"}
          /\ cscript \in ClientScripts[example] /\ cread \in 0..Len(cscript)
          /\ made \in 0..Len(cscript) + 1
          /\ call \in {"none", "sent", "accepted", "ok", "failed"}

Init == /\ example \in Examples
        /\ server = "start"
        /\ listening = FALSE
        /\ sscript \in ServerScripts[example] /\ sread = 0
        /\ serving = TRUE /\ health = "SERVING"
        /\ client = "start"
        /\ cscript \in ClientScripts[example] /\ cread = 0
        /\ made = 0
        /\ call = "none"

\* The command that std::cin >> command leaves when k of a script were read.
Command(script, k) == IF k < Len(script) THEN script[k + 1]
                      ELSE IF script = <<>> THEN "" ELSE Last(script)

\* Defect: a line is taken for the first of its commands.
Advance_Sticks(script, k) == IF k = 0 /\ script # <<>> THEN 1 ELSE k

Advance(script, k) == IF k < Len(script) THEN k + 1 ELSE k

-----------------------------------------------------------------------------
(* The server.                                                             *)

\* Start(), when the port is free.
Start == /\ server = "start"
         /\ server' = "prompt"
         /\ listening' = TRUE
         /\ UNCHANGED <<typed, sread, serving, health, clientVars, call>>

\* BuildAndStart() returns null when the port is taken.  29 uses the pointer;
\* the others go on without a server.
StartFails == /\ server = "start"
              /\ server' = IF example = "health" THEN "crashed" ELSE "prompt"
              /\ UNCHANGED <<typed, listening, sread, serving, health, clientVars, call>>

\* 32 without its certificates: ReadFile throws, main() returns.
NoCertificates == /\ example = "ssl" /\ server = "start"
                  /\ server' = "exited"
                  /\ UNCHANGED <<typed, listening, sread, serving, health,
                                 clientVars, call>>

\* Defect: is_serving is not kept up to date.
SetHealth_Stale(active) == /\ health' = IF serving = active THEN health
                                        ELSE IF active THEN "SERVING" ELSE "NOT_SERVING"
                           /\ UNCHANGED serving

SetHealth(active) == /\ health' = IF serving = active THEN health
                                  ELSE IF active THEN "SERVING" ELSE "NOT_SERVING"
                     /\ serving' = active

\* One turn of the loop of the server's thread.
ServerCommand ==
    /\ server = "prompt"
    /\ sread' = Advance(sscript, sread)
    /\ LET command == Command(sscript, sread)
       IN \/ /\ command = "q"
             /\ server' = "quit"
             /\ UNCHANGED <<serving, health>>
          \/ /\ command \in {"s", "r"} /\ example = "health"
             /\ SetHealth(command = "r")
             /\ UNCHANGED server
          \/ /\ command # "q" /\ (command = "" \/ example # "health")
             /\ UNCHANGED <<server, serving, health>>
    /\ UNCHANGED <<typed, listening, clientVars, call>>

\* Stop(): Shutdown() refuses new calls ...
Stop == /\ server = "quit"
        /\ server' = "draining"
        /\ listening' = FALSE
        /\ UNCHANGED <<typed, sread, serving, health, clientVars, call>>

\* Defect: Shutdown with a deadline that has passed.
Drained_AtOnce == TRUE

Drained == call # "accepted"

\* ... and waits for those under way.  The thread ends, and main() joins it.
Stopped == /\ server = "draining" /\ Drained
           /\ server' = "stopped"
           /\ UNCHANGED <<typed, listening, sread, serving, health, clientVars, call>>

\* Defect: Stop() waits to be told that the server has stopped.
StopAgain_Waits == /\ server = "stopped" /\ listening
                   /\ server' = "exited"

\* The second Stop(), of the destructor: without a server it returns, and a second
\* Shutdown() has nothing to refuse or to wait for.
StopAgain == /\ server = "stopped"
             /\ server' = "exited"

Exit == /\ StopAgain
        /\ UNCHANGED <<typed, listening, sread, serving, health, clientVars, call>>

-----------------------------------------------------------------------------
(* The client.                                                             *)

\* main() up to the thread, or to HealthCheck().
Connect == /\ client = "start"
           /\ client' = "prompt"
           /\ UNCHANGED <<typed, serverVars, cread, made, call>>

\* 32 without its certificates: ReadFile throws, main() returns.
NoClientCertificates == /\ example = "ssl" /\ client = "start"
                        /\ client' = "failed"
                        /\ UNCHANGED <<typed, serverVars, cread, made, call>>

Calls == /\ client' = "calling"
         /\ call' = "sent"

\* One turn of the loop of the client's thread.  GetFileChecksum (31, 32) throws
\* without a call when the file cannot be read.
ClientCommand ==
    /\ example # "health" /\ client = "prompt"
    /\ cread' = Advance(cscript, cread)
    /\ LET command == Command(cscript, cread)
       IN \/ /\ command = "c"
             /\ made' = IF made > Len(cscript) THEN made ELSE made + 1
             /\ \/ Calls
                \/ example \in {"compress", "ssl"} /\ UNCHANGED <<client, call>>
          \/ /\ command = "q"
             /\ client' = "exited"
             /\ UNCHANGED <<made, call>>
          \/ /\ command \notin {"c", "q"}
             /\ UNCHANGED <<client, made, call>>
    /\ UNCHANGED <<typed, serverVars>>

\* HealthCheck() of 29: the sum is asked for only if the answer is SERVING.
HealthCheck == /\ example = "health" /\ client = "prompt"
               /\ IF listening /\ health = "SERVING"
                  THEN Calls
                  ELSE client' = "exited" /\ UNCHANGED call
               /\ UNCHANGED <<typed, serverVars, cread, made>>

\* Defect: the exception of a failed call leaves the loop.
Failed_Leaves == client' = "exited"

\* Defect: OnDone signals successes only.
Failed_Waits == client' = "calling"

\* The exception of a failed call: 29's main() ends with it, 30's thread does
\* not catch it, the others print it.
Failed == client' = CASE example = "health"    -> "exited"
                      [] example = "keepalive" -> "terminated"
                      [] OTHER                 -> "prompt"

Await == /\ client = "calling" /\ call \in {"ok", "failed"}
         /\ call' = "none"
         /\ \/ call = "failed" /\ Failed
            \/ call = "ok" /\ client' = IF example = "health" THEN "exited" ELSE "prompt"
         /\ UNCHANGED <<typed, serverVars, cread, made>>

-----------------------------------------------------------------------------
(* The call (external, but for the answer).                                *)

Accepted == /\ call = "sent" /\ listening
            /\ call' = "accepted"
            /\ UNCHANGED <<typed, serverVars, clientVars>>

Refused == /\ \/ call = "sent" /\ ~listening
              \/ call = "accepted" /\ server = "exited"
           /\ call' = "failed"
           /\ UNCHANGED <<typed, serverVars, clientVars>>

\* ComputeSum, UploadFile: whatever is_serving says.
ComputeSum == /\ call = "accepted" /\ server # "exited"
              /\ call' = "ok"
              /\ UNCHANGED <<typed, serverVars, clientVars>>

-----------------------------------------------------------------------------
ServerStep == \/ Start \/ StartFails \/ NoCertificates
              \/ ServerCommand \/ Stop \/ Stopped \/ Exit
ClientStep == Connect \/ NoClientCertificates \/ ClientCommand \/ HealthCheck \/ Await
CallStep   == Accepted \/ Refused \/ ComputeSum

Next == ServerStep \/ ClientStep \/ CallStep

Spec == Init /\ [][Next]_vars

(* Threads run; users type on, and calls are answered or fail.             *)
FairSpec == Spec /\ WF_vars(ServerStep) /\ WF_vars(ClientStep) /\ WF_vars(CallStep)

-----------------------------------------------------------------------------
(* Properties.                                                             *)

\* The calls that a script asks for before its first q.
CsBeforeQ(script) ==
    Cardinality({k \in DOMAIN script :
                   script[k] = "c" /\ \A j \in 1..k : script[j] # "q"})

\* A client that was told to quit has made every call its user asked for before:
\* a failed call does not end the loop (31 client.cpp:106-114), and in 30, where
\* it does, the process does not end as if it had been told to.  Nor does that of
\* 32 without its certificates, which has made none.
QuitsAfterAllCalls ==
    /\ client = "exited" /\ example # "health" => made = CsBeforeQ(cscript)
    /\ client = "terminated" => example = "keepalive"
    /\ client = "failed" => example = "ssl" /\ made = 0

\* A call the server had accepted when its user typed q is answered: Stop()
\* waits for it before the process ends.
AcceptedCallsAreAnswered ==
    [][call = "accepted" => call' \in {"accepted", "ok"}]_vars

\* The health that clients are told is that of the last s or r, through any
\* repetition of them (29 server.cpp:30-38).
HealthOfLastCommand ==
    example = "health" =>
      health = IF \E k \in 1..sread : /\ sscript[k] = "s"
                                      /\ \A j \in k..sread : sscript[j] # "r"
               THEN "NOT_SERVING" ELSE "SERVING"

\* A user who types q ends the server, through both Stop(), unless it crashed before
\* it read anything: that of 29, whose port was taken (29 server.cpp:72-73).
QuitEndsServer ==
    Contains(sscript, "q") ~> \/ server = "exited"
                              \/ server = "crashed" /\ example = "health" /\ sread = 0

\* A user who types q ends the client, whatever becomes of its calls; that of 29
\* ends in any case, although the server is suspended or gone between its check and
\* its call (29 client.cpp:127-131).
QuitEndsClient ==
    Contains(cscript, "q") \/ example = "health" ~>
        client \in {"exited", "terminated", "failed"}

-----------------------------------------------------------------------------
(* The inductive invariant.                                                *)

\* The flag follows what clients are told, and only a server at its prompt, or one
\* that has just left it, listens.
ServerInStep ==
    /\ serving <=> health = "SERVING"
    /\ listening => server \in {"prompt", "quit"}
    /\ server \in {"start", "stopped", "exited"} => call # "accepted"

\* A client waits while it has a call, and was told to do something else before.
ClientInStep ==
    /\ call # "none" => client = "calling"
    /\ client = "start" => cread = 0 /\ made = 0
    /\ client \in {"start", "prompt", "calling"} =>
         \A k \in 1..cread : cscript[k] # "q"
    /\ client \in {"start", "prompt", "calling"} /\ example # "health" =>
         (cread < Len(cscript) =>
            made = Cardinality({k \in 1..cread : cscript[k] = "c"}))

IInv == TypeOK /\ ServerInStep /\ ClientInStep /\ HealthOfLastCommand /\ QuitsAfterAllCalls

\* Commands take effect once each and in their order: clients are told the health
\* of the last s or r (29 server.cpp:30-38), and a client that was told to quit has
\* made every call its user asked for before (31 client.cpp:106-114).
CommandsTakeEffect == IInv
=============================================================================
