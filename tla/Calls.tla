-------------------------------- MODULE Calls --------------------------------
(***************************************************************************)
(* The programs around a unary call.  A behaviour is that of one program:  *)
(* the long call of 24 and 27 (SlowFibonacci), the clients of 05           *)
(* (AsyncSumClient), the table of 23 (Multiplex), the policies of 25 and   *)
(* 26 (ServicePolicy), the consoles of 29 to 32 (Console), the sum of 01   *)
(* (SyncSum) or the numbers of 02 to 33 (FibonacciNumbers).  The variables *)
(* of the others keep a first value.                                       *)
(***************************************************************************)
EXTENDS SlowFibonacci, Integers, Sequences

CONSTANTS
    Simple, Threaded, None,        \* 05: the processes
    Bits, Factors, Counts,         \* 23: int32_t, the methods, the numbers of rows
    Policies, MaxAttempts,         \* 25, 26: what policy.json says
    ServerScripts, ClientScripts,  \* 29 to 32: what users type
    IntBits, FloatBits, Operands,  \* 01: int and float, and what is added
    ShortBits, LongBits, Limits    \* 02 to 33: int32_t and int64_t, and the limits

\* A table has methods and numbers, and half of the range of an int32_t is positive.
ASSUME TableAssumption == /\ 2 ^ (Bits - 1) \in Nat \ {0}
                          /\ Factors \subseteq Nat /\ Factors # {}
                          /\ Counts \subseteq Int

\* gRPC wants at least one attempt (25 policy.json:8).
ASSUME AttemptsAssumption == MaxAttempts \in Nat \ {0}

\* There are more numbers than one of either width, and long is not the shorter.
ASSUME WidthsAssumption == /\ 2 ^ ShortBits \in Nat \ {0, 1}
                           /\ 2 ^ LongBits \in Nat \ {0, 1}
                           /\ 2 ^ ShortBits <= 2 ^ LongBits
                           /\ Limits \subseteq Nat

\* What a power of two is, up to the largest that 01 needs.
ASSUME PowersAssumption ==
    /\ IntBits \in Nat \ {0} /\ FloatBits \in Nat \ {0} /\ Operands \subseteq Int
    /\ 2 ^ 0 = 1 /\ \A k \in 0..IntBits + FloatBits : 2 ^ (k + 1) = 2 * 2 ^ k

ConsoleNames == {"health", "keepalive", "compress", "ssl"}

\* Users type commands.
ASSUME ScriptsAssumption ==
    /\ ServerScripts \in [ConsoleNames -> SUBSET Seq({"s", "r", "q"})]
    /\ ClientScripts \in [ConsoleNames -> SUBSET Seq({"c", "x", "q"})]

VARIABLES
    program,  \* one of Programs
    rpc, cReply, up, cMain, poller, cCall, queue, open, lines,        \* 05
    tNumber, tMain, tRow, tMethod, tThread, answer, results, rows, failed,  \* 23
    policy, pMain, pPrinted, pCall, attempts, sent, executed, pServer, \* 25, 26
    example, oServer, listening, sscript, sread, serving,   \* 29 to 32
    health, oClient, cscript, cread, made, oCall,
    op1, op2, sMain, sCall, response, result,                          \* 01
    generator, limit, smaller, larger, list, received                  \* 02 to 33

slow       == <<control, number, main, reactor, printed, user, c, requested, status,
                link, process, handler, size, late, reply>>
clientVars == <<rpc, cReply, up, cMain, poller, cCall, queue, open, lines>>
tableVars  == <<tNumber, tMain, tRow, tMethod, tThread, answer, results, rows, failed>>
policyVars == <<policy, pMain, pPrinted, pCall, attempts, sent, executed, pServer>>
prompts    == <<example, oServer, listening, sscript, sread, serving,
                health, oClient, cscript, cread, made, oCall>>
sumVars    == <<op1, op2, sMain, sCall, response, result>>
numberVars == <<generator, limit, smaller, larger, list, received>>

-----------------------------------------------------------------------------
\* One process of each client of 05.
Clients == INSTANCE AsyncSumClient
             WITH reply <- cReply, main <- cMain, call <- cCall

Table == INSTANCE Multiplex
           WITH Numbers <- Counts, number <- tNumber, main <- tMain, i <- tRow,
                method <- tMethod, thread <- tThread, printed <- rows

Policy == INSTANCE ServicePolicy
            WITH main <- pMain, printed <- pPrinted, call <- pCall, process <- pServer

Prompt == INSTANCE Console
            WITH server <- oServer, client <- oClient, call <- oCall

Sum == INSTANCE SyncSum WITH main <- sMain, call <- sCall

Fib == INSTANCE FibonacciNumbers WITH IntBits <- ShortBits, a <- smaller, b <- larger

-----------------------------------------------------------------------------
Programs == {"slow", "clients", "table", "policy", "console", "sum", "numbers"}

\* The inputs of the program that runs, and one input each for those that rest.
OneOf(S) == {CHOOSE x \in S : TRUE}
For(p, S) == IF program = p THEN S ELSE OneOf(S)

Inputs == /\ program \in Programs
          /\ number \in For("slow", Numbers)
          /\ control \in For("slow", {"cancel", "deadline"})
          /\ process \in For("slow", {"up", "gone"})
          /\ tNumber \in For("table", Counts)
          /\ policy \in For("policy", Policies)
          /\ pServer \in For("policy", {"up", "down"})
          /\ example \in For("console", ConsoleNames)
          /\ sscript \in For("console", ServerScripts[example])
          /\ cscript \in For("console", ClientScripts[example])
          /\ op1 \in For("sum", Operands) /\ op2 \in For("sum", Operands)
          /\ generator \in For("numbers",
                               {"GenerateFibonacci", "SetResponseStream", "getFibonacci"})
          /\ limit \in For("numbers", Limits)

CallsInit == /\ Inputs
             /\ Init /\ Clients!Init /\ Table!Init /\ Policy!Init
             /\ Prompt!Init /\ Sum!Init /\ Fib!Init

\* Steps of one of the programs.
Slow(A)      == program = "slow" /\ A
                /\ UNCHANGED <<program, clientVars, tableVars, policyVars, prompts, sumVars,
                               numberVars>>
OfClients(A) == program = "clients" /\ A
                /\ UNCHANGED <<program, slow, tableVars, policyVars, prompts, sumVars,
                               numberVars>>
OfTable(A)   == program = "table" /\ A
                /\ UNCHANGED <<program, slow, clientVars, policyVars, prompts, sumVars,
                               numberVars>>
OfPolicy(A)  == program = "policy" /\ A
                /\ UNCHANGED <<program, slow, clientVars, tableVars, prompts, sumVars,
                               numberVars>>
OfConsole(A) == program = "console" /\ A
                /\ UNCHANGED <<program, slow, clientVars, tableVars, policyVars, sumVars,
                               numberVars>>

CallsNext ==
    \/ Slow(Next) \/ OfClients(Clients!Next) \/ OfTable(Table!Next)
    \/ OfPolicy(Policy!Next) \/ OfConsole(Prompt!Next)
    \/ /\ program = "sum" /\ Sum!Next
       /\ UNCHANGED <<program, slow, clientVars, tableVars, policyVars, prompts, numberVars>>
    \/ /\ program = "numbers" /\ Fib!Next
       /\ UNCHANGED <<program, slow, clientVars, tableVars, policyVars, prompts, sumVars>>

all == <<program, slow, clientVars, tableVars, policyVars, prompts, sumVars, numberVars>>

CallsSpec == CallsInit /\ [][CallsNext]_all

\* The fairness of each program; only one of them takes steps.
CallsFairness ==
    /\ WF_all(\/ Slow(MainStep) \/ OfTable(Table!MainStep) \/ OfPolicy(Policy!Step)
              \/ OfConsole(Prompt!ServerStep))
    /\ WF_all(\/ Slow(UserStep) \/ OfTable(Table!ThreadStep)
              \/ OfConsole(Prompt!ClientStep))
    /\ WF_all(Slow(Deadline) \/ OfConsole(Prompt!CallStep))
    /\ WF_all(Slow(ServerLost))
    /\ \A p \in Simple \cup Threaded :
         /\ WF_all(OfClients(Clients!Process(p))) /\ WF_all(OfClients(Clients!Poller(p)))
         /\ WF_all(OfClients(Clients!Complete(p)))

FairCalls == CallsSpec /\ CallsFairness

-----------------------------------------------------------------------------
(* The properties, to which those of SlowFibonacci belong.  A program that  *)
(* rests satisfies those of safety, too.                                   *)

\* 05: a process ends with its call reported, as it went, and freed, and neither
\* main() nor the polling thread uses a call that was deleted (client-thread.cpp:55,
\* 66-83, 123).
ReportedAndFreed == Clients!ReportedAndFreed

\* 23: every row that is printed has the product of every method, and a failed
\* call leaves no table, not even a part of it (client.cpp:573-606).
TableIsWhole == Table!TableIsWhole

\* 25 and 26: a call is executed as often as the policy allows, at most, its sum
\* is printed only if it was executed and answered, and a call that waits for
\* its server fails only once it had been sent to one (25 policy.json:8).
PolicyKept == Policy!PolicyKept

\* 29 to 32: commands take effect once each and in their order: clients are told
\* the health of the last s or r (29 server.cpp:30-38), and a client that was
\* told to quit has made every call its user asked for before (31
\* client.cpp:106-114).
CommandsTakeEffect == Prompt!CommandsTakeEffect

\* 29 to 32: a call the server had accepted before q is answered.
AcceptedCallsAreAnswered == Prompt!AcceptedCallsAreAnswered

\* 01: what is printed is a nearest float to the sum (server.cpp:34-35).
NearestToTheSum == Sum!IInv /\ Sum!NearestToTheSum

\* 02 to 33: the generators agree up to the overflow of their widths, and beyond
\* it have the remainders (02 server.cpp:29, 07 server.cpp:62, 24 server.cpp:14).
FibonacciModuloWidth == Fib!TypeOK /\ Fib!FibonacciModuloWidth

\* 24 and 27: a request to cancel, or the deadline, frees the client even if the
\* server computes for ever.
EndingFreesTheClient == CancelFreesTheClient /\ DeadlineFreesTheClient

\* The others end, too.  A client of 05 ends once its call is over, which the server
\* of 05 does not promise; that of 23 always; those of 25 and 26 once the server stays
\* as it is; the servers and clients of 29 to 32 once a q was typed, and the client of
\* 29 without.  The server of 29 crashes instead if its port is taken.
EveryProgramEnds ==
    /\ program = "clients" => Clients!EveryProcessEnds
    /\ program = "table" => Table!Ends
    /\ program = "policy" => Policy!EndsOnceSettled
    /\ program = "console" => Prompt!QuitEndsServer /\ Prompt!QuitEndsClient
=============================================================================
