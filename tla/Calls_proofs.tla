----------------------------- MODULE Calls_proofs -----------------------------
(***************************************************************************)
(* What holds of the programs around a unary call, for every value of the  *)
(* constants: any lists, processes, tables, attempts, scripts and widths.  *)
(*                                                                         *)
(* One part for each program, with the lemmas about what it computes and   *)
(* that its steps keep its inductive invariant; the last part says what    *)
(* that makes of all of them together.                                     *)
(***************************************************************************)
EXTENDS Calls, FiniteSetTheorems, SequenceTheorems, WellFoundedInduction, TLAPS

(* 24 and 27: the long call, for lists of any length and both controls.    *)

\* At the start nothing has been sent, computed or printed.
LEMMA SlowInit == ASSUME Init PROVE IInv
<1>1. reactor \in BOOLEAN /\ requested \in BOOLEAN /\ ~reactor
  BY DEF Init
<1>2. user \in {"reading", "ended"}
  BY DEF Init
<1>3. QED
  BY <1>1, <1>2, NumbersAssumption
     DEF Init, IInv, TypeOK, Consistent, ListIsWhole, CancelsALiveCall, AbandonsSoon

\* The steps of main() and of the constructor of its reactor.
LEMMA SlowMainStep == ASSUME IInv, MainStep PROVE IInv'
<1> USE NumbersAssumption
        DEF IInv, TypeOK, Consistent, ListIsWhole, CancelsALiveCall, AbandonsSoon,
            given, thread, server
<1>1. CASE Calculate
  BY <1>1 DEF Calculate
<1>2. CASE Assign
  BY <1>2 DEF Assign
<1>3. CASE Await
  BY <1>3 DEF Await, Result
<1>4. CASE Exit
  <2>1. reactor' \in BOOLEAN /\ ~reactor'
    BY <1>4 DEF Exit
  <2>2. QED
    BY <1>4, <2>1 DEF Exit, Joined
<1>5. QED
  BY <1>1, <1>2, <1>3, <1>4 DEF MainStep

\* The steps of the cancel thread, and what its user types.
LEMMA SlowUserStep ==
  ASSUME IInv, UserStep \/ ReadChar
  PROVE  IInv'
<1> USE NumbersAssumption
        DEF IInv, TypeOK, Consistent, ListIsWhole, CancelsALiveCall, AbandonsSoon,
            given, server
<1>1. CASE ReadChar
  BY <1>1 DEF ReadChar
<1>2. CASE TestPointer
  BY <1>2 DEF TestPointer
<1>3. CASE Cancel
  BY <1>3 DEF Cancel, TryCancel
<1>4. CASE Say
  BY <1>4 DEF Say
<1>5. QED
  BY <1>1, <1>2, <1>3, <1>4 DEF UserStep

\* The steps of the server's reactor.
LEMMA SlowServerStep == ASSUME IInv, ServerStep PROVE IInv'
<1> USE NumbersAssumption
        DEF IInv, TypeOK, Consistent, ListIsWhole, CancelsALiveCall, AbandonsSoon,
            given, thread
<1>1. CASE GetFibonacciList
  BY <1>1 DEF GetFibonacciList
<1>2. CASE Test
  BY <1>2 DEF Test, IsCancelled
<1>3. CASE Compute
  BY <1>3 DEF Compute
<1>4. CASE FinishCompletes
  BY <1>4 DEF FinishCompletes
<1>5. CASE OnDone
  BY <1>5 DEF OnDone, Delete
<1>6. QED
  BY <1>1, <1>2, <1>3, <1>4, <1>5 DEF ServerStep

\* What the runtime reports, the deadline, and the death of the server.
LEMMA SlowFault ==
  ASSUME IInv, Learn \/ Deadline \/ Kill \/ ServerLost
  PROVE  IInv'
<1> USE NumbersAssumption
        DEF IInv, TypeOK, Consistent, ListIsWhole, CancelsALiveCall, AbandonsSoon,
            given, thread, server, Open
<1>1. CASE Learn
  BY <1>1 DEF Learn
<1>2. CASE Deadline
  BY <1>2 DEF Deadline
<1>3. CASE Kill
  BY <1>3 DEF Kill
<1>4. CASE ServerLost
  BY <1>4 DEF ServerLost
<1>5. QED
  BY <1>1, <1>2, <1>3, <1>4

\* A step that changes nothing.
LEMMA SlowStutter == ASSUME IInv, UNCHANGED vars PROVE IInv'
  BY DEF vars, given, thread, server, IInv, TypeOK, Consistent, ListIsWhole,
         CancelsALiveCall, AbandonsSoon

-----------------------------------------------------------------------------
(* 05: the clients, for any number of processes of either.                 *)

\* A status that has been decided stays as it is.
LEMMA OverStays ==
  ASSUME Clients!TypeOK, NEW p \in Clients!Processes, Clients!Over(p),
         NEW e \in Clients!Processes,
         Clients!Serve(e) \/ Clients!Lose(e) \/ UNCHANGED rpc
  PROVE  rpc'[p] = rpc[p]
BY DEF Clients!TypeOK, Clients!Over, Clients!Serve, Clients!Lose,
       Clients!Service!Execute, Clients!Service!Answer, Clients!Service!Fail,
       Clients!Service!Cancel, Clients!Service!RpcStates

\* The state of one process.
ProcessInv(p) ==
  /\ cMain[p] \in {"start", "call"} <=> cCall[p] = "none"
  /\ cCall[p] = "none" <=> rpc[p] = "idle"
  /\ cMain[p] \in {"start", "call", "finish"} <=> queue[p] = "none"
  /\ cMain[p] \in {"call", "shutdown", "join"} => p \in Threaded
  /\ cMain[p] = "next" => p \notin Threaded
  /\ p \notin open => cMain[p] \in {"join", "exited"}
  /\ poller[p] = "none" <=> p \notin Threaded \/ cMain[p] = "start"
  /\ queue[p] = "none" => poller[p] \in {"none", "next"}
  /\ queue[p] \in {"ready", "taken"} => Clients!Over(p)
  /\ poller[p] = "event" => cMain[p] \in {"handed", "shutdown", "join"}
  /\ poller[p] \in {"event", "ended"} => queue[p] = "taken"
  /\ cCall[p] = "deleted" <=> queue[p] = "taken" /\ poller[p] # "event"
  /\ lines[p] = IF cCall[p] = "deleted" THEN {Clients!Printed(p)} ELSE {}
  /\ cMain[p] = "exited" => queue[p] = "taken" /\ poller[p] # "event"

\* IInv speaks of each process for itself.
LEMMA ByProcess ==
  /\ Clients!IInv <=> Clients!TypeOK /\ \A p \in Clients!Processes : ProcessInv(p)
  /\ Clients!IInv' <=> Clients!TypeOK' /\ \A p \in Clients!Processes : ProcessInv(p)'
BY ZenonT(30) DEF Clients!IInv, Clients!InStep, Clients!HandledOnce, ProcessInv

\* A process that a step does not touch.
LEMMA Untouched ==
  ASSUME NEW p \in Clients!Processes, ProcessInv(p),
         <<rpc[p], cMain[p], poller[p], cCall[p], queue[p], lines[p]>>'
           = <<rpc[p], cMain[p], poller[p], cCall[p], queue[p], lines[p]>>,
         p \in open <=> p \in open'
  PROVE  ProcessInv(p)'
BY DEF ProcessInv, Clients!Over, Clients!Printed

\* A step of one process.
LEMMA OneProcess ==
  ASSUME Clients!IInv, NEW p \in Clients!Processes, Clients!TypeOK', ProcessInv(p)',
         \A e \in Clients!Processes \ {p} :
           /\ <<rpc[e], cMain[e], poller[e], cCall[e], queue[e], lines[e]>>'
                = <<rpc[e], cMain[e], poller[e], cCall[e], queue[e], lines[e]>>
           /\ e \in open <=> e \in open'
  PROVE  Clients!IInv'
BY ByProcess, Untouched

-----------------------------------------------------------------------------
\* At the start no process has a call.
LEMMA ClientsInit ==
  ASSUME Clients!Init
  PROVE  Clients!IInv
BY DEF Clients!Init, Clients!Service!Init, Clients!Service!RpcStates, Clients!IInv,
       Clients!TypeOK, Clients!InStep, Clients!HandledOnce, Clients!Processes,
       Clients!Over

\* Every step of a client keeps the invariant; another process touches neither
\* its object nor its events.
LEMMA ClientsStep ==
  ASSUME Clients!IInv, NEW p \in Clients!Processes,
         \/ Clients!Process(p) \/ Clients!Poller(p)
         \/ Clients!Complete(p) \/ Clients!Serve(p) \/ Clients!Lose(p)
  PROVE  Clients!IInv'
<1>1. Clients!TypeOK /\ ProcessInv(p)
  BY ByProcess
<1> USE <1>1 DEF Clients!Goto, Clients!clients
<1>2. CASE Clients!StartThread(p)
  <2>1. Clients!TypeOK'
    BY <1>2 DEF Clients!StartThread, Clients!TypeOK
  <2>2. ProcessInv(p)'
    BY <1>2
       DEF Clients!StartThread, Clients!TypeOK, ProcessInv, Clients!Over,
           Clients!Printed
  <2> QED BY <1>2, <2>1, <2>2, OneProcess DEF Clients!StartThread, Clients!TypeOK
<1>3. CASE Clients!StartCall(p)
  <2>1. Clients!TypeOK'
    BY <1>3
       DEF Clients!StartCall, Clients!Service!StartCall, Clients!Service!RpcStates,
           Clients!TypeOK
  <2>2. ProcessInv(p)'
    BY <1>3
       DEF Clients!StartCall, Clients!Service!StartCall, Clients!Service!RpcStates,
           Clients!TypeOK, ProcessInv, Clients!Over, Clients!Printed
  <2> QED BY <1>3, <2>1, <2>2, OneProcess
             DEF Clients!StartCall, Clients!Service!StartCall, Clients!TypeOK
<1>4. CASE Clients!Finish(p)
  <2>1. Clients!TypeOK'
    BY <1>4 DEF Clients!Finish, Clients!TypeOK
  <2>2. ProcessInv(p)'
    BY <1>4
       DEF Clients!Finish, Clients!TypeOK, ProcessInv, Clients!Over, Clients!Printed
  <2> QED BY <1>4, <2>1, <2>2, OneProcess DEF Clients!Finish, Clients!TypeOK
<1>13. CASE Clients!FinishReturns(p)
  <2>1. Clients!TypeOK'
    BY <1>13 DEF Clients!FinishReturns, Clients!TypeOK
  <2>2. ProcessInv(p)'
    BY <1>13
       DEF Clients!FinishReturns, Clients!TypeOK, ProcessInv, Clients!Over,
           Clients!Printed
  <2> QED BY <1>13, <2>1, <2>2, OneProcess DEF Clients!FinishReturns, Clients!TypeOK
<1>5. CASE Clients!Shutdown(p)
  <2>1. Clients!TypeOK'
    BY <1>5 DEF Clients!Shutdown, Clients!TypeOK
  <2>2. ProcessInv(p)'
    BY <1>5
       DEF Clients!Shutdown, Clients!TypeOK, ProcessInv, Clients!Over, Clients!Printed
  <2> QED BY <1>5, <2>1, <2>2, OneProcess DEF Clients!Shutdown, Clients!TypeOK
<1>6. CASE Clients!Join(p)
  <2>1. Clients!TypeOK'
    BY <1>6 DEF Clients!Join, Clients!TypeOK
  <2>2. ProcessInv(p)'
    BY <1>6 DEF Clients!Join, Clients!TypeOK, ProcessInv, Clients!Over, Clients!Printed
  <2> QED BY <1>6, <2>1, <2>2, OneProcess DEF Clients!Join, Clients!TypeOK
<1>7. CASE Clients!NextReturns(p)
  <2>1. Clients!TypeOK'
    BY <1>7 DEF Clients!NextReturns, Clients!TypeOK, Clients!Printed
  <2>2. ProcessInv(p)'
    BY <1>7
       DEF Clients!NextReturns, Clients!TypeOK, ProcessInv, Clients!Over,
           Clients!Printed
  <2> QED BY <1>7, <2>1, <2>2, OneProcess DEF Clients!NextReturns, Clients!TypeOK
<1>8. CASE Clients!TakeEvent(p)
  <2>1. Clients!TypeOK'
    BY <1>8 DEF Clients!TakeEvent, Clients!TypeOK
  <2>2. ProcessInv(p)'
    BY <1>8
       DEF Clients!TakeEvent, Clients!TypeOK, ProcessInv, Clients!Over, Clients!Printed
  <2> QED BY <1>8, <2>1, <2>2, OneProcess DEF Clients!TakeEvent, Clients!TypeOK
<1>9. CASE Clients!HandleEvent(p)
  <2>1. Clients!TypeOK'
    BY <1>9 DEF Clients!HandleEvent, Clients!Delete, Clients!TypeOK, Clients!Printed
  <2>2. ProcessInv(p)'
    BY <1>9
       DEF Clients!HandleEvent, Clients!Delete, Clients!TypeOK, ProcessInv,
           Clients!Over, Clients!Printed
  <2> QED BY <1>9, <2>1, <2>2, OneProcess
             DEF Clients!HandleEvent, Clients!Delete, Clients!TypeOK
<1>10. CASE Clients!LeaveLoop(p)
  <2>1. Clients!TypeOK'
    BY <1>10 DEF Clients!LeaveLoop, Clients!TypeOK
  <2>2. ProcessInv(p)'
    BY <1>10
       DEF Clients!LeaveLoop, Clients!Drained, Clients!TypeOK, ProcessInv, Clients!Over,
           Clients!Printed
  <2> QED BY <1>10, <2>1, <2>2, OneProcess DEF Clients!LeaveLoop, Clients!TypeOK
<1>11. CASE Clients!Complete(p)
  <2>1. Clients!TypeOK'
    BY <1>11 DEF Clients!Complete, Clients!TypeOK
  <2>2. ProcessInv(p)'
    BY <1>11
       DEF Clients!Complete, Clients!TypeOK, ProcessInv, Clients!Over, Clients!Printed
  <2> QED BY <1>11, <2>1, <2>2, OneProcess DEF Clients!Complete, Clients!TypeOK
<1>12. CASE Clients!Serve(p) \/ Clients!Lose(p)
  <2> USE <1>12
          DEF Clients!Serve, Clients!Lose, Clients!Service!Execute,
              Clients!Service!Answer, Clients!Service!Fail, Clients!Service!Cancel,
              Clients!Service!RpcStates, Clients!TypeOK
  <2>1. Clients!TypeOK'
    OBVIOUS
  <2>2. ProcessInv(p)'
    BY DEF ProcessInv, Clients!Over, Clients!Printed
  <2> QED BY <2>1, <2>2, OneProcess
<1> QED BY <1>2, <1>3, <1>4, <1>5, <1>6, <1>7, <1>8, <1>9, <1>10, <1>11, <1>12,
           <1>13
           DEF Clients!Process, Clients!Poller

\* So do the steps of the servers, and of nobody.
LEMMA ClientsRest ==
  ASSUME Clients!IInv, Clients!Switch \/ UNCHANGED Clients!vars
  PROVE  Clients!IInv'
<1>1. Clients!TypeOK' /\ UNCHANGED <<rpc, cMain, poller, cCall, queue, open, lines>>
  BY DEF Clients!IInv, Clients!TypeOK, Clients!Switch, Clients!Service!Switch,
         Clients!vars, Clients!clients
<1> QED BY <1>1, ByProcess, Untouched

-----------------------------------------------------------------------------
(* 23: the table, for any number of rows and any set of methods, whichever *)
(* the order in which answers come and threads end.                        *)

\* What is known of the constants.
Parameters == /\ Table!Half \in Nat \ {0}
              /\ Factors \subseteq Nat /\ Factors # {}
              /\ Counts \subseteq Int

\* A set of numbers has a least one.
LEMMA LeastNumber ==
  ASSUME NEW T, T \subseteq Nat, T # {}
  PROVE  \E m \in T : \A n \in T : m <= n
<1>1. PICK m \in T : \A n \in T : ~ (<<n, m>> \in OpToRel(<, Nat))
  BY NatLessThanWellFounded, WFMin
<1>2. \A n \in T : ~ (n < m)
  BY <1>1 DEF OpToRel
<1> QED BY <1>2

\* A row begins with the least method ...
LEMMA RowBegins ==
  ASSUME Parameters
  PROVE  Table!First \in Factors /\ \A g \in Factors : Table!First <= g
<1>1. \E f \in Factors : \A g \in Factors : f <= g
  BY LeastNumber DEF Parameters
<1> QED BY <1>1 DEF Table!First

\* The product is an int32_t.
LEMMA ProductInRange ==
  ASSUME Parameters, NEW x \in Int
  PROVE  Table!Int32(x) \in -Table!Half..Table!Half - 1
BY DEF Table!Int32, Parameters

\* ... and the loop goes from each slot to the next.
LEMMA StepPasses ==
  ASSUME Parameters, tRow \in Int, tMethod \in Factors, Table!Step
  PROVE  /\ tMethod' \in Factors /\ tRow' \in Int
         /\ tRow' = tRow \/ (tRow' = tRow + 1 /\ tMethod' = Table!First)
         /\ \A k \in Int, f \in Factors :
              (k < tRow' \/ (k = tRow' /\ f < tMethod')) <=>
                k < tRow \/ (k = tRow /\ f < tMethod) \/ (k = tRow /\ f = tMethod)
<1>1. CASE Table!Later(tMethod) # {}
  <2>1. \E m \in Table!Later(tMethod) : \A g \in Table!Later(tMethod) : m <= g
    BY <1>1, LeastNumber DEF Table!Later, Parameters
  <2>2. /\ tMethod' \in Table!Later(tMethod)
        /\ \A g \in Table!Later(tMethod) : tMethod' <= g
        /\ tRow' = tRow
    BY <1>1, <2>1 DEF Table!Step
  <2> QED BY <2>2 DEF Table!Later, Parameters
<1>2. CASE Table!Later(tMethod) = {}
  <2>1. tMethod' = Table!First /\ tRow' = tRow + 1
    BY <1>2 DEF Table!Step
  <2>2. Table!First \in Factors /\ \A g \in Factors : Table!First <= g /\ g <= tMethod
    BY <1>2, RowBegins DEF Table!Later, Parameters
  <2> QED BY <2>1, <2>2 DEF Parameters
<1> QED BY <1>1, <1>2

\* The slots of a table.
LEMMA SlotParts ==
  ASSUME NEW s \in Table!Slots
  PROVE  s[1] \in 0..tNumber /\ s[2] \in Factors /\ s = <<s[1], s[2]>>
BY DEF Table!Slots

\* At its begin a loop has passed no slot, at its end all of them.
LEMMA PassedAtTheEnds ==
  ASSUME Parameters, Table!TypeOK, NEW s \in Table!Slots
  PROVE  /\ tRow = 0 /\ tMethod = Table!First => ~Table!Passed(s)
         /\ tRow > tNumber => Table!Passed(s)
<1>1. /\ tRow \in Int /\ s[1] \in 0..tNumber /\ tNumber \in Int
      /\ s[2] \in Factors /\ s[2] \in Int
  BY SlotParts DEF Table!TypeOK, Parameters
<1>2. Table!First \in Factors /\ Table!First <= s[2]
  BY <1>1, RowBegins
<1>3. Table!First \in Int
  BY <1>2 DEF Parameters
<1> QED BY <1>1, <1>2, <1>3 DEF Table!Passed

\* One turn of a loop passes one slot.
LEMMA PassesOne ==
  ASSUME Parameters, Table!TypeOK, Table!Step, NEW s \in Table!Slots
  PROVE  Table!Passed(s)' <=> Table!Passed(s) \/ s = <<tRow, tMethod>>
<1>1. tRow \in Int /\ tMethod \in Factors /\ s[1] \in Int /\ s[2] \in Factors
      /\ s = <<s[1], s[2]>> /\ tNumber \in Int
  BY SlotParts DEF Table!TypeOK, Parameters
<1> QED BY <1>1, StepPasses DEF Table!Passed

-----------------------------------------------------------------------------
(* Every step keeps the invariant.                                         *)

\* main() declares its vectors.
LEMMA TableDeclare ==
  ASSUME Parameters, Table!IInv, Table!Declare
  PROVE  Table!IInv'
<1> USE DEF Table!IInv, Table!Declare
<1>1. Table!TypeOK'
  BY DEF Table!TypeOK, Table!LoopInRange, Parameters, Table!Slots, Table!RowsFollowMain
<1>2. Table!LoopInRange'
  BY DEF Table!TypeOK, Table!LoopInRange, Parameters
<1>3. Table!ThreadsFollowMain'
  <2>1. \A s \in Table!Slots : ~Table!Passed(s) /\ tThread[s] = "none"
    BY PassedAtTheEnds DEF Table!LoopInRange, Table!ThreadsFollowMain
  <2> QED BY <2>1 DEF Table!ThreadsFollowMain, Table!Passed, Table!Slots
<1>4. Table!SlotsHoldProducts'
  BY SlotParts DEF Table!TypeOK, Table!SlotsHoldProducts, Table!Slots
<1>5. Table!RowsFollowMain'
  BY DEF Table!TypeOK, Table!RowsFollowMain, Table!LoopInRange, Parameters
<1>6. Table!PrintsTheProducts'
  BY DEF Table!PrintsTheProducts, Table!RowsFollowMain
<1> QED BY <1>1, <1>2, <1>3, <1>4, <1>5, <1>6

\* A thread is started.
LEMMA TableLaunch ==
  ASSUME Parameters, Table!IInv, Table!Launch
  PROVE  Table!IInv'
<1> USE DEF Table!IInv, Table!Launch
<1>1. Table!TypeOK'
  BY SMTT(30), StepPasses
     DEF Table!TypeOK, Table!LoopInRange, Parameters, Table!Slots, Table!RowsFollowMain
<1>2. Table!LoopInRange'
  BY StepPasses DEF Table!TypeOK, Table!LoopInRange, Parameters
<1>3. Table!ThreadsFollowMain'
  BY PassesOne, SlotParts
     DEF Table!TypeOK, Table!LoopInRange, Table!ThreadsFollowMain, Table!Passed,
         Table!Slots, Parameters
<1>4. Table!SlotsHoldProducts'
  BY SlotParts DEF Table!TypeOK, Table!SlotsHoldProducts, Table!Slots
<1>5. Table!RowsFollowMain'
  BY DEF Table!TypeOK, Table!RowsFollowMain, Table!LoopInRange, Parameters
<1>6. Table!PrintsTheProducts'
  BY DEF Table!PrintsTheProducts, Table!RowsFollowMain
<1> QED BY <1>1, <1>2, <1>3, <1>4, <1>5, <1>6

\* No thread can be started.
LEMMA TableLaunchFails ==
  ASSUME Parameters, Table!IInv, Table!LaunchFails
  PROVE  Table!IInv'
<1> USE DEF Table!IInv, Table!LaunchFails
<1>1. Table!TypeOK'
  BY DEF Table!TypeOK, Table!LoopInRange, Parameters, Table!Slots, Table!RowsFollowMain
<1>2. Table!LoopInRange'
  BY DEF Table!TypeOK, Table!LoopInRange, Parameters
<1>3. Table!ThreadsFollowMain'
  BY SlotParts
     DEF Table!TypeOK, Table!LoopInRange, Table!ThreadsFollowMain, Table!Passed,
         Table!Slots, Parameters
<1>4. Table!SlotsHoldProducts'
  BY SlotParts DEF Table!TypeOK, Table!SlotsHoldProducts, Table!Slots
<1>5. Table!RowsFollowMain'
  BY DEF Table!TypeOK, Table!RowsFollowMain, Table!LoopInRange, Parameters
<1>6. Table!PrintsTheProducts'
  BY DEF Table!PrintsTheProducts, Table!RowsFollowMain
<1> QED BY <1>1, <1>2, <1>3, <1>4, <1>5, <1>6

\* All threads have been started.
LEMMA TableLaunched ==
  ASSUME Parameters, Table!IInv, Table!Launched
  PROVE  Table!IInv'
<1> USE DEF Table!IInv, Table!Launched
<1>1. Table!TypeOK'
  BY RowBegins
     DEF Table!TypeOK, Table!LoopInRange, Parameters, Table!Slots, Table!RowsFollowMain
<1>2. Table!LoopInRange'
  BY DEF Table!TypeOK, Table!LoopInRange, Parameters
<1>3. Table!ThreadsFollowMain'
  <2>1. \A s \in Table!Slots : tThread[s] # "none"
    BY PassedAtTheEnds DEF Table!ThreadsFollowMain
  <2>2. \A s \in Table!Slots : ~Table!Passed(s)'
    <3> SUFFICES ASSUME NEW s \in Table!Slots, Table!Passed(s)' PROVE FALSE
      OBVIOUS
    <3>1. s[1] \in 0..tNumber /\ s[2] \in Factors /\ s[2] \in Int /\ tNumber \in Int
      BY SlotParts DEF Table!TypeOK, Parameters
    <3>2. Table!First \in Factors /\ Table!First <= s[2]
      BY <3>1, RowBegins
    <3>3. Table!First \in Int
      BY <3>2 DEF Parameters
    <3> QED BY <3>1, <3>2, <3>3 DEF Table!Passed
  <2> QED BY <2>1, <2>2 DEF Table!ThreadsFollowMain, Table!Slots
<1>4. Table!SlotsHoldProducts'
  BY SlotParts DEF Table!TypeOK, Table!SlotsHoldProducts, Table!Slots
<1>5. Table!RowsFollowMain'
  BY DEF Table!TypeOK, Table!RowsFollowMain, Table!LoopInRange, Parameters
<1>6. Table!PrintsTheProducts'
  BY DEF Table!PrintsTheProducts, Table!RowsFollowMain
<1> QED BY <1>1, <1>2, <1>3, <1>4, <1>5, <1>6

\* A thread is joined.
LEMMA TableJoin ==
  ASSUME Parameters, Table!IInv, Table!Join
  PROVE  Table!IInv'
<1> USE DEF Table!IInv, Table!Join, Table!Joined
<1>1. Table!TypeOK'
  BY SMTT(30), StepPasses
     DEF Table!TypeOK, Table!LoopInRange, Parameters, Table!Slots, Table!RowsFollowMain
<1>2. Table!LoopInRange'
  BY StepPasses DEF Table!TypeOK, Table!LoopInRange, Parameters
<1>3. Table!ThreadsFollowMain'
  BY PassesOne, SlotParts
     DEF Table!TypeOK, Table!LoopInRange, Table!ThreadsFollowMain, Table!Passed,
         Table!Slots, Parameters
<1>4. Table!SlotsHoldProducts'
  BY SlotParts DEF Table!TypeOK, Table!SlotsHoldProducts, Table!Slots
<1>5. Table!RowsFollowMain'
  BY DEF Table!TypeOK, Table!RowsFollowMain, Table!LoopInRange, Parameters
<1>6. Table!PrintsTheProducts'
  BY DEF Table!PrintsTheProducts, Table!RowsFollowMain
<1> QED BY <1>1, <1>2, <1>3, <1>4, <1>5, <1>6

\* All threads have been joined.
LEMMA TableAllJoined ==
  ASSUME Parameters, Table!IInv, Table!AllJoined
  PROVE  Table!IInv'
<1> USE DEF Table!IInv, Table!AllJoined
<1>1. Table!TypeOK'
  BY DEF Table!TypeOK, Table!LoopInRange, Parameters, Table!Slots, Table!RowsFollowMain
<1>2. Table!LoopInRange'
  BY DEF Table!TypeOK, Table!LoopInRange, Parameters
<1>3. Table!ThreadsFollowMain'
  BY SlotParts
     DEF Table!TypeOK, Table!LoopInRange, Table!ThreadsFollowMain, Table!Passed,
         Table!Slots, Parameters
<1>4. Table!SlotsHoldProducts'
  BY SlotParts DEF Table!TypeOK, Table!SlotsHoldProducts, Table!Slots
<1>5. Table!RowsFollowMain'
  BY DEF Table!TypeOK, Table!RowsFollowMain, Table!LoopInRange, Parameters
<1>6. Table!PrintsTheProducts'
  BY DEF Table!PrintsTheProducts, Table!RowsFollowMain
<1> QED BY <1>1, <1>2, <1>3, <1>4, <1>5, <1>6

\* A row is printed.
LEMMA TablePrintRow ==
  ASSUME Parameters, Table!IInv, Table!PrintRow
  PROVE  Table!IInv'
<1> USE DEF Table!IInv, Table!PrintRow
<1>1. Table!TypeOK'
  BY DEF Table!TypeOK, Table!LoopInRange, Parameters, Table!Slots, Table!RowsFollowMain
<1>2. Table!LoopInRange'
  <2>1. /\ tNumber \in Int /\ tNumber + 1 \in 0..Table!Half - 1
        /\ tRow \in Int /\ tRow <= tNumber
    BY DEF Table!TypeOK, Table!LoopInRange, Parameters
  <2>2. tMain' = "print" /\ tRow' = tRow + 1 /\ tNumber' = tNumber
    OBVIOUS
  <2> QED BY <2>1, <2>2 DEF Table!LoopInRange
<1>3. Table!ThreadsFollowMain'
  BY SlotParts
     DEF Table!TypeOK, Table!LoopInRange, Table!ThreadsFollowMain, Table!Passed,
         Table!Slots, Parameters
<1>4. Table!SlotsHoldProducts'
  BY SlotParts DEF Table!TypeOK, Table!SlotsHoldProducts, Table!Slots
<1>5. Table!RowsFollowMain'
  BY DEF Table!TypeOK, Table!RowsFollowMain, Table!LoopInRange, Parameters
<1>6. Table!PrintsTheProducts'
  <2>1. tRow \in 0..tNumber /\ DOMAIN rows = 0..tRow - 1
    BY DEF Table!TypeOK, Table!RowsFollowMain, Parameters
  <2>2. \A f \in Factors : results[<<tRow, f>>] = Table!Int32(f * tRow)
    BY <2>1 DEF Table!ThreadsFollowMain, Table!SlotsHoldProducts, Table!Slots
  <2>3. \A r \in 0..tRow : rows'[r] = IF r < tRow THEN rows[r]
                                      ELSE [f \in Factors |-> results[<<tRow, f>>]]
    OBVIOUS
  <2>4. ASSUME NEW r \in 0..tRow
        PROVE  rows'[r] = [f \in Factors |-> Table!Int32(f * r)]
    <3>1. CASE r < tRow
      BY <2>1, <2>3, <3>1 DEF Table!PrintsTheProducts
    <3>2. CASE r = tRow
      <4>1. [f \in Factors |-> results[<<tRow, f>>]]
              = [f \in Factors |-> Table!Int32(f * tRow)]
        BY <2>2
      <4>2. rows'[tRow] = [f \in Factors |-> results[<<tRow, f>>]]
        BY <2>1, <2>3
      <4> QED BY <3>2, <4>1, <4>2
    <3> QED BY <2>1, <3>1, <3>2
  <2>5. DOMAIN rows' = 0..tRow
    OBVIOUS
  <2> QED BY <2>4, <2>5 DEF Table!PrintsTheProducts
<1> QED BY <1>1, <1>2, <1>3, <1>4, <1>5, <1>6

\* The table is complete.
LEMMA TableReturn ==
  ASSUME Parameters, Table!IInv, Table!Return
  PROVE  Table!IInv'
<1> USE DEF Table!IInv, Table!Return
<1>1. Table!TypeOK'
  BY DEF Table!TypeOK, Table!LoopInRange, Parameters, Table!Slots, Table!RowsFollowMain
<1>2. Table!LoopInRange'
  BY DEF Table!TypeOK, Table!LoopInRange, Parameters
<1>3. Table!ThreadsFollowMain'
  BY SlotParts
     DEF Table!TypeOK, Table!LoopInRange, Table!ThreadsFollowMain, Table!Passed,
         Table!Slots, Parameters
<1>4. Table!SlotsHoldProducts'
  BY SlotParts DEF Table!TypeOK, Table!SlotsHoldProducts, Table!Slots
<1>5. Table!RowsFollowMain'
  BY DEF Table!TypeOK, Table!RowsFollowMain, Table!LoopInRange, Parameters
<1>6. Table!PrintsTheProducts'
  BY DEF Table!PrintsTheProducts, Table!RowsFollowMain
<1> QED BY <1>1, <1>2, <1>3, <1>4, <1>5, <1>6

\* The answer of a slot comes.
LEMMA TableAnswered ==
  ASSUME Parameters, Table!IInv, NEW s \in Table!Slots, Table!Answered(s)
  PROVE  Table!IInv'
<1> USE DEF Table!IInv, Table!Answered, Table!Product, Table!Running
<1>1. Table!TypeOK'
  <2>1. s[2] * s[1] \in Int
    BY SlotParts DEF Table!TypeOK, Parameters
  <2>2. Table!Int32(s[2] * s[1]) \in -Table!Half..Table!Half - 1
    BY <2>1, ProductInRange
  <2> QED BY <2>2 DEF Table!TypeOK, Table!Slots
<1>2. Table!LoopInRange'
  BY DEF Table!LoopInRange
<1>3. Table!ThreadsFollowMain'
  BY DEF Table!TypeOK, Table!ThreadsFollowMain, Table!Passed, Table!Slots
<1>4. Table!SlotsHoldProducts'
  BY DEF Table!TypeOK, Table!SlotsHoldProducts, Table!Slots
<1>5. Table!RowsFollowMain'
  BY DEF Table!TypeOK, Table!RowsFollowMain, Table!ThreadsFollowMain
<1>6. Table!PrintsTheProducts'
  BY DEF Table!PrintsTheProducts
<1> QED BY <1>1, <1>2, <1>3, <1>4, <1>5, <1>6

\* A call fails.
LEMMA TableFailed ==
  ASSUME Parameters, Table!IInv, NEW s \in Table!Slots, Table!Failed(s)
  PROVE  Table!IInv'
<1> USE DEF Table!IInv, Table!Failed, Table!Terminate, Table!Running
<1>1. Table!TypeOK'
  BY SlotParts, ProductInRange DEF Table!TypeOK, Parameters, Table!Slots
<1>2. Table!LoopInRange'
  BY DEF Table!LoopInRange
<1>3. Table!ThreadsFollowMain'
  BY DEF Table!TypeOK, Table!ThreadsFollowMain, Table!Passed, Table!Slots
<1>4. Table!SlotsHoldProducts'
  BY DEF Table!TypeOK, Table!SlotsHoldProducts, Table!Slots
<1>5. Table!RowsFollowMain'
  BY DEF Table!TypeOK, Table!RowsFollowMain, Table!ThreadsFollowMain
<1>6. Table!PrintsTheProducts'
  BY DEF Table!PrintsTheProducts
<1> QED BY <1>1, <1>2, <1>3, <1>4, <1>5, <1>6

\* A thread stores its answer and ends.
LEMMA TableStore ==
  ASSUME Parameters, Table!IInv, NEW s \in Table!Slots, Table!Store(s)
  PROVE  Table!IInv'
<1> USE DEF Table!IInv, Table!Store, Table!Slot, Table!Running
<1>1. Table!TypeOK'
  BY SlotParts, ProductInRange DEF Table!TypeOK, Parameters, Table!Slots
<1>2. Table!LoopInRange'
  BY DEF Table!LoopInRange
<1>3. Table!ThreadsFollowMain'
  BY DEF Table!TypeOK, Table!ThreadsFollowMain, Table!Passed, Table!Slots
<1>4. Table!SlotsHoldProducts'
  BY DEF Table!TypeOK, Table!SlotsHoldProducts, Table!Slots
<1>5. Table!RowsFollowMain'
  BY DEF Table!TypeOK, Table!RowsFollowMain, Table!ThreadsFollowMain
<1>6. Table!PrintsTheProducts'
  BY DEF Table!PrintsTheProducts
<1> QED BY <1>1, <1>2, <1>3, <1>4, <1>5, <1>6

-----------------------------------------------------------------------------
\* Nothing has been asked and nothing printed.
LEMMA TableInit ==
  ASSUME Parameters, Table!Init
  PROVE  Table!IInv
<1>1. Table!TypeOK
  <2>1. /\ tNumber \in Counts /\ tRow \in 0..Table!Half
        /\ 0 \in -Table!Half..Table!Half - 1
    BY DEF Table!Init, Parameters
  <2>2. tMethod \in Factors
    BY RowBegins DEF Table!Init
  <2>3. DOMAIN rows = {}
    BY DEF Table!Init
  <2>4. failed \in BOOLEAN /\ tMain = "start"
    BY Zenon DEF Table!Init
  <2>5. tThread \in [Table!Slots -> {"none", "calling", "answered", "ended"}]
    BY DEF Table!Init
  <2>6. /\ answer \in [Table!Slots -> -Table!Half..Table!Half - 1]
        /\ results \in [Table!Slots -> -Table!Half..Table!Half - 1]
    BY <2>1 DEF Table!Init
  <2> QED BY <2>1, <2>2, <2>3, <2>4, <2>5, <2>6 DEF Table!TypeOK
<1>2. Table!LoopInRange /\ Table!ThreadsFollowMain /\ Table!SlotsHoldProducts
  BY DEF Table!Init, Table!LoopInRange, Table!ThreadsFollowMain, Table!SlotsHoldProducts
<1>3. Table!RowsFollowMain /\ Table!PrintsTheProducts
  BY DEF Table!Init, Table!RowsFollowMain, Table!PrintsTheProducts
<1> QED BY <1>1, <1>2, <1>3 DEF Table!IInv

\* A step that changes nothing.
LEMMA TableStutter ==
  ASSUME Table!IInv, UNCHANGED Table!vars
  PROVE  Table!IInv'
BY DEF Table!IInv, Table!TypeOK, Table!LoopInRange, Table!ThreadsFollowMain,
       Table!SlotsHoldProducts, Table!RowsFollowMain, Table!PrintsTheProducts,
       Table!Passed, Table!Slots, Table!vars

\* What is assumed of the constants.
LEMMA ParametersHold == Parameters
BY TableAssumption DEF Parameters, Table!Half

\* Every step keeps the invariant.
LEMMA TableStep ==
  ASSUME Parameters, Table!IInv, [Table!Next]_Table!vars
  PROVE  Table!IInv'
BY TableDeclare, TableLaunch, TableLaunchFails, TableLaunched, TableJoin,
   TableAllJoined, TablePrintRow, TableReturn, TableAnswered, TableFailed, TableStore,
   TableStutter
   DEF Table!Next, Table!MainStep, Table!ThreadStep

-----------------------------------------------------------------------------
(* 25 and 26: the policies, for any number of attempts.                    *)

\* Nothing has been sent.
LEMMA PolicyInit ==
  ASSUME Policy!Init
  PROVE  Policy!IInv
<1>1. Policy!TypeOK
  <2>1. attempts \in 0..MaxAttempts /\ executed \in 0..MaxAttempts
    BY AttemptsAssumption DEF Policy!Init
  <2> QED BY <2>1, Zenon DEF Policy!Init, Policy!TypeOK
<1>2. Policy!OneAttemptEach
  BY AttemptsAssumption DEF Policy!Init, Policy!OneAttemptEach, Policy!Budget
<1>3. Policy!CallFollowsMain /\ Policy!PrintedAsItEnded /\ Policy!WaitsForTheServer
  BY DEF Policy!Init, Policy!CallFollowsMain, Policy!PrintedAsItEnded,
         Policy!WaitsForTheServer
<1> QED BY <1>1, <1>2, <1>3 DEF Policy!IInv

\* Every step keeps the attempts in their budget.
LEMMA PolicyStep ==
  ASSUME Policy!IInv, [Policy!Next]_Policy!vars
  PROVE  Policy!IInv'
<1> USE AttemptsAssumption
        DEF Policy!IInv, Policy!TypeOK, Policy!OneAttemptEach, Policy!CallFollowsMain,
            Policy!PrintedAsItEnded, Policy!WaitsForTheServer, Policy!Budget
<1>1. CASE Policy!LoadPolicy
  BY <1>1 DEF Policy!LoadPolicy
<1>2. CASE Policy!Calculate
  BY <1>2 DEF Policy!Calculate
<1>3. CASE Policy!Await
  BY <1>3 DEF Policy!Await, Policy!Printed
<1>4. CASE Policy!ComputeSum
  BY <1>4 DEF Policy!ComputeSum
<1>5. CASE Policy!Send
  BY <1>5 DEF Policy!Send
<1>6. CASE Policy!PickFails
  BY <1>6 DEF Policy!PickFails, Policy!Repeats, Policy!Waits
<1>7. CASE Policy!Breaks
  BY <1>7 DEF Policy!Breaks, Policy!Unavailable, Policy!Repeats
<1>8. CASE Policy!SendAgain
  BY <1>8 DEF Policy!SendAgain
<1>9. CASE Policy!Backoff
  BY <1>9 DEF Policy!Backoff
<1>10. CASE Policy!Respond
  BY <1>10 DEF Policy!Respond
<1>11. CASE Policy!StartsOrStops
  BY <1>11 DEF Policy!StartsOrStops
<1>12. CASE UNCHANGED Policy!vars
  BY <1>12 DEF Policy!vars
<1> QED BY <1>1, <1>2, <1>3, <1>4, <1>5, <1>6, <1>7, <1>8, <1>9, <1>10, <1>11, <1>12
           DEF Policy!Next, Policy!Step, Policy!Channel

-----------------------------------------------------------------------------
(* 29 to 32: the prompts, for any scripts.                                 *)

\* The cardinality that Console speaks of.
LEMMA SameCardinality == \A S : Prompt!Cardinality(S) = Cardinality(S)
BY DEF Prompt!Cardinality, Cardinality

\* A script is read command by command ...
LEMMA NextCommand ==
  ASSUME NEW S, NEW script \in Seq(S), NEW k \in Nat, k < Len(script)
  PROVE  /\ Prompt!Advance(script, k) = k + 1
         /\ Prompt!Command(script, k) = script[k + 1] /\ Prompt!Command(script, k) \in S
<1>1. k + 1 \in 1..Len(script)
  BY LenProperties
<1>2. script[k + 1] \in S
  BY <1>1, ElementOfSeq
<1> QED BY <1>2 DEF Prompt!Advance, Prompt!Command

\* ... and then the last of them again and again.
LEMMA LastCommand ==
  ASSUME NEW S, NEW script \in Seq(S), NEW k \in Nat, k = Len(script)
  PROVE  /\ Prompt!Advance(script, k) = k
         /\ k = 0 => Prompt!Command(script, k) = ""
         /\ k # 0 => Prompt!Command(script, k) = script[k] /\ script[k] \in S
<1>1. ~(k < Len(script)) /\ Prompt!Advance(script, k) = k
  BY DEF Prompt!Advance
<1>2. script = <<>> <=> k = 0
  BY EmptySeq
<1>3. k = 0 => Prompt!Command(script, k) = ""
  BY <1>1, <1>2 DEF Prompt!Command
<1>4. k # 0 => Prompt!Command(script, k) = script[k]
  BY <1>1, <1>2 DEF Prompt!Command, Prompt!Last
<1>5. k # 0 => script[k] \in S
  BY ElementOfSeq
<1> QED BY <1>1, <1>3, <1>4, <1>5

\* The calls a script asks for are counted command by command ...
LEMMA CountsCall ==
  ASSUME NEW S, NEW script \in Seq(S), NEW k \in Nat, k < Len(script)
  PROVE  LET C(n) == {j \in 1..n : script[j] = "c"}
         IN  /\ Cardinality(C(k)) \in Nat
             /\ Cardinality(C(k)) <= k
             /\ Cardinality(C(k + 1)) = IF script[k + 1] = "c" THEN Cardinality(C(k)) + 1
                                                               ELSE Cardinality(C(k))
<1> DEFINE C(n) == {j \in 1..n : script[j] = "c"}
<1>1. IsFiniteSet(1..k) /\ Cardinality(1..k) = k
  BY FS_Interval
<1>2. C(k) \subseteq 1..k
  OBVIOUS
<1>3. IsFiniteSet(C(k)) /\ Cardinality(C(k)) \in Nat /\ Cardinality(C(k)) <= k
  BY <1>1, <1>2, FS_Subset, FS_CardinalityType
<1>4. CASE script[k + 1] = "c"
  <2>1. C(k + 1) = C(k) \cup {k + 1} /\ k + 1 \notin C(k)
    BY <1>4
  <2> QED BY <1>3, <1>4, <2>1, FS_AddElement
<1>5. CASE script[k + 1] # "c"
  <2>1. C(k + 1) = C(k)
    BY <1>5
  <2> QED BY <1>3, <1>5, <2>1
<1> QED BY <1>3, <1>4, <1>5

\* ... and those before the first q are all when it is reached.
LEMMA AllBeforeQ ==
  ASSUME NEW S, NEW script \in Seq(S), NEW k \in Nat, k < Len(script), script[k + 1] = "q",
         \A j \in 1..k : script[j] # "q"
  PROVE  Prompt!CsBeforeQ(script) = Cardinality({j \in 1..k : script[j] = "c"})
<1>1. DOMAIN script = 1..Len(script) /\ Len(script) \in Nat
  OBVIOUS
<1>2. \A i \in DOMAIN script : i <= k <=> k + 1 \notin 1..i
  BY <1>1
<1>3. {i \in DOMAIN script : script[i] = "c" /\ \A j \in 1..i : script[j] # "q"}
        = {j \in 1..k : script[j] = "c"}
  BY <1>1, <1>2
<1> QED BY <1>3, SameCardinality DEF Prompt!CsBeforeQ

-----------------------------------------------------------------------------
\* The scripts of an example are sequences of commands.
LEMMA Typed ==
  ASSUME Prompt!TypeOK
  PROVE  sscript \in Seq({"s", "r", "q"}) /\ cscript \in Seq({"c", "x", "q"})
BY ScriptsAssumption DEF ConsoleNames, Prompt!Examples, Prompt!TypeOK

\* Nothing has been typed.
LEMMA PromptInit ==
  ASSUME Prompt!Init
  PROVE  Prompt!IInv
<1>1. sscript \in Seq({"s", "r", "q"}) /\ cscript \in Seq({"c", "x", "q"})
  BY ScriptsAssumption DEF ConsoleNames, Prompt!Examples, Prompt!Init
<1>2. 0 \in 0..Len(sscript) /\ 0 \in 0..Len(cscript) /\ 0 \in 0..Len(cscript) + 1
  <2>1. Len(sscript) \in Nat /\ Len(cscript) \in Nat
    BY <1>1, LenProperties
  <2> QED BY <2>1
<1>3. Prompt!TypeOK
  BY <1>2 DEF Prompt!Init, Prompt!TypeOK
<1>4. Prompt!ServerInStep
  BY DEF Prompt!Init, Prompt!ServerInStep
<1>5. Prompt!ClientInStep
  <2>1. {k \in 1..0 : cscript[k] = "c"} = {}
    OBVIOUS
  <2> QED BY <2>1, FS_EmptySet, SameCardinality DEF Prompt!Init, Prompt!ClientInStep
<1>6. Prompt!HealthOfLastCommand /\ Prompt!QuitsAfterAllCalls
  BY DEF Prompt!Init, Prompt!HealthOfLastCommand, Prompt!QuitsAfterAllCalls
<1> QED BY <1>3, <1>4, <1>5, <1>6 DEF Prompt!IInv

\* A step that types nothing, and keeps the server's and the client's book in order.
LEMMA PromptTypesNothing ==
  ASSUME Prompt!IInv, Prompt!TypeOK', Prompt!ServerInStep',
         UNCHANGED <<Prompt!typed, sread, cread, made, health>>,
         oCall' # "none" => oClient' = "calling",
         oClient' \in {"start", "prompt", "calling"} =>
           oClient \in {"start", "prompt", "calling"},
         oClient' = "start" => oClient = "start",
         oClient' = "exited" => oClient = "exited" \/ example = "health",
         oClient' = "terminated" => oClient = "terminated" \/ example = "keepalive",
         oClient' = "failed" =>
           oClient = "failed" \/ (oClient = "start" /\ example = "ssl")
  PROVE  Prompt!IInv'
<1>1. Prompt!ClientInStep'
  BY DEF Prompt!IInv, Prompt!ClientInStep, Prompt!typed
<1>2. Prompt!HealthOfLastCommand'
  BY DEF Prompt!IInv, Prompt!HealthOfLastCommand, Prompt!typed
<1>3. Prompt!QuitsAfterAllCalls'
  BY DEF Prompt!IInv, Prompt!ClientInStep, Prompt!QuitsAfterAllCalls, Prompt!typed
<1> QED BY <1>1, <1>2, <1>3 DEF Prompt!IInv

\* A command of the server's user.
LEMMA ServerCommandInv ==
  ASSUME Prompt!IInv, Prompt!ServerCommand
  PROVE  Prompt!IInv'
<1>1. /\ sscript \in Seq({"s", "r", "q"}) /\ sread \in 0..Len(sscript)
      /\ Len(sscript) \in Nat /\ sread \in Nat /\ sread <= Len(sscript)
  <2>1. sscript \in Seq({"s", "r", "q"}) /\ sread \in 0..Len(sscript)
    BY Typed DEF Prompt!IInv, Prompt!TypeOK
  <2>2. Len(sscript) \in Nat
    BY <2>1, LenProperties
  <2> QED BY <2>1, <2>2
<1> DEFINE command == Prompt!Command(sscript, sread)
<1>2. sread' = Prompt!Advance(sscript, sread)
  BY DEF Prompt!ServerCommand
<1>3. ASSUME sread < Len(sscript)
      PROVE  sread' = sread + 1 /\ command = sscript[sread + 1]
             /\ command \in {"s", "r", "q"}
  BY <1>1, <1>2, <1>3, NextCommand
<1>4. ASSUME sread = Len(sscript)
      PROVE  /\ sread' = sread
             /\ sread = 0 => command = ""
             /\ sread # 0 => command = sscript[sread]
                                /\ command \in {"s", "r", "q"}
  BY <1>1, <1>2, <1>4, LastCommand
<1>5. sread < Len(sscript) \/ sread = Len(sscript)
  BY <1>1
<1>6. sread' \in 0..Len(sscript)
  <2>1. CASE sread < Len(sscript)
    BY <1>1, <1>3, <2>1
  <2>2. CASE sread = Len(sscript)
    BY <1>1, <1>4, <2>2
  <2> QED BY <1>5, <2>1, <2>2
<1>7. Prompt!TypeOK'
  BY <1>6
     DEF Prompt!ServerCommand, Prompt!SetHealth, Prompt!IInv, Prompt!TypeOK,
         Prompt!typed, Prompt!clientVars
<1>8. Prompt!ServerInStep'
  <2>1. (serving <=> health = "SERVING") /\ serving \in BOOLEAN
    BY DEF Prompt!IInv, Prompt!TypeOK, Prompt!ServerInStep
  <2>2. serving' <=> health' = "SERVING"
    <3>1. CASE UNCHANGED <<serving, health>>
      BY <2>1, <3>1
    <3>2. CASE Prompt!SetHealth(command = "r")
      BY <2>1, <3>2, Zenon DEF Prompt!SetHealth
    <3> QED BY <3>1, <3>2 DEF Prompt!ServerCommand
  <2> QED BY <2>2
             DEF Prompt!ServerCommand, Prompt!IInv, Prompt!ServerInStep,
                 Prompt!clientVars
<1>9. Prompt!ClientInStep' /\ Prompt!QuitsAfterAllCalls'
  BY DEF Prompt!ServerCommand, Prompt!IInv, Prompt!ClientInStep,
         Prompt!QuitsAfterAllCalls, Prompt!typed, Prompt!clientVars
<1>10. Prompt!HealthOfLastCommand'
  <2> DEFINE Off(n) == \E k \in 1..n : sscript[k] = "s" /\ \A j \in k..n : sscript[j] # "r"
  <2>1. sscript' = sscript /\ example' = example
    BY DEF Prompt!ServerCommand, Prompt!typed
  <2> SUFFICES ASSUME example = "health"
               PROVE  health' = IF Off(sread') THEN "NOT_SERVING" ELSE "SERVING"
    BY <2>1 DEF Prompt!HealthOfLastCommand
  <2>2. health = IF Off(sread) THEN "NOT_SERVING" ELSE "SERVING"
    BY DEF Prompt!IInv, Prompt!HealthOfLastCommand
  <2>3. command = "s" /\ example = "health" => health' = "NOT_SERVING"
    <3> SUFFICES ASSUME command = "s", example = "health" PROVE health' = "NOT_SERVING"
      OBVIOUS
    <3>1. (serving <=> health = "SERVING") /\ health \in {"SERVING", "NOT_SERVING"}
      BY DEF Prompt!IInv, Prompt!TypeOK, Prompt!ServerInStep
    <3>2. Prompt!SetHealth(Prompt!Command(sscript, sread) = "r")
      BY DEF Prompt!ServerCommand
    <3> QED BY <3>1, <3>2 DEF Prompt!SetHealth
  <2>4. command = "r" /\ example = "health" => health' = "SERVING"
    <3> SUFFICES ASSUME command = "r", example = "health" PROVE health' = "SERVING"
      OBVIOUS
    <3>1. (serving <=> health = "SERVING") /\ health \in {"SERVING", "NOT_SERVING"}
      BY DEF Prompt!IInv, Prompt!TypeOK, Prompt!ServerInStep
    <3>2. Prompt!SetHealth(Prompt!Command(sscript, sread) = "r")
      BY DEF Prompt!ServerCommand
    <3> QED BY <3>1, <3>2 DEF Prompt!SetHealth
  <2>5. command \notin {"s", "r"} => health' = health
    BY DEF Prompt!ServerCommand
  <2>6. CASE sread < Len(sscript)
    <3>1. sread' = sread + 1 /\ sread \in Nat /\ command = sscript[sread + 1]
          /\ command \in {"s", "r", "q"}
      BY <1>1, <1>3, <2>6
    <3>2. \A k \in 1..sread' : k \in 1..sread \/ k = sread + 1
      BY <3>1
    <3>3. \A k \in 1..sread : /\ sread + 1 \in k..sread' /\ k \in 1..sread'
                              /\ k..sread \subseteq k..sread'
      BY <3>1
    <3>4. (sread + 1)..sread' = {sread + 1} /\ sread + 1 \in 1..sread'
      BY <3>1
    <3>5. \A k \in 1..sread : \A j \in k..sread' : j \in k..sread \/ j = sread + 1
      BY <3>1
    <3>6. CASE command = "s"
      BY <2>2, <2>3, <3>1, <3>4, <3>6 DEF Prompt!HealthOfLastCommand
    <3>7. CASE command = "r"
      BY <2>2, <2>4, <3>1, <3>2, <3>3, <3>4, <3>7 DEF Prompt!HealthOfLastCommand
    <3>8. CASE command = "q"
      BY <2>2, <2>5, <3>1, <3>2, <3>3, <3>4, <3>5, <3>8
         DEF Prompt!HealthOfLastCommand, Prompt!IInv
    <3> QED BY <3>1, <3>6, <3>7, <3>8
  <2>7. CASE sread = Len(sscript)
    <3>1. sread' = sread
      BY <1>4, <2>7
    <3>2. CASE sread = 0
      BY <1>4, <2>2, <2>5, <2>7, <3>1, <3>2 DEF Prompt!HealthOfLastCommand, Prompt!IInv
    <3>3. CASE sread # 0
      <4>1. sread \in 1..sread /\ sread..sread = {sread}
            /\ \A k \in 1..sread : sread \in k..sread
        BY <1>1, <3>3
      <4>2. command = sscript[sread]
        BY <1>4, <2>7, <3>3
      <4>3. command \in {"s", "r", "q"}
        BY <1>4, <2>7, <3>3
      <4>4. CASE command = "s"
        BY <2>2, <2>3, <3>1, <4>2, <4>1, <4>4 DEF Prompt!HealthOfLastCommand
      <4>5. CASE command = "r"
        BY <2>2, <2>4, <3>1, <4>2, <4>1, <4>5 DEF Prompt!HealthOfLastCommand
      <4>6. CASE command = "q"
        BY <2>2, <2>5, <3>1, <4>6 DEF Prompt!HealthOfLastCommand, Prompt!IInv
      <4> QED BY <4>3, <4>4, <4>5, <4>6
    <3> QED BY <3>2, <3>3
  <2> QED BY <1>5, <2>6, <2>7
<1> QED BY <1>7, <1>8, <1>9, <1>10 DEF Prompt!IInv

\* A command of the client's user.
LEMMA ClientCommandInv ==
  ASSUME Prompt!IInv, Prompt!ClientCommand
  PROVE  Prompt!IInv'
<1>1. /\ cscript \in Seq({"c", "x", "q"}) /\ cread \in 0..Len(cscript)
      /\ Len(cscript) \in Nat /\ cread \in Nat /\ cread <= Len(cscript)
  <2>1. cscript \in Seq({"c", "x", "q"}) /\ cread \in 0..Len(cscript)
    BY Typed DEF Prompt!IInv, Prompt!TypeOK
  <2>2. Len(cscript) \in Nat
    BY <2>1, LenProperties
  <2> QED BY <2>1, <2>2
<1> DEFINE command == Prompt!Command(cscript, cread)
           C(n)    == {j \in 1..n : cscript[j] = "c"}
<1>2. cread' = Prompt!Advance(cscript, cread)
  BY DEF Prompt!ClientCommand
<1>3. ASSUME cread < Len(cscript)
      PROVE  cread' = cread + 1 /\ command = cscript[cread + 1]
             /\ command \in {"c", "x", "q"}
  BY <1>1, <1>2, <1>3, NextCommand
<1>4. ASSUME cread = Len(cscript)
      PROVE  /\ cread' = cread
             /\ cread = 0 => command = ""
             /\ cread # 0 => command = cscript[cread]
                                /\ command \in {"c", "x", "q"}
  BY <1>1, <1>2, <1>4, LastCommand
<1>5. cread < Len(cscript) \/ cread = Len(cscript)
  BY <1>1
<1>6. cread' \in 0..Len(cscript)
  <2>1. CASE cread < Len(cscript)
    BY <1>1, <1>3, <2>1
  <2>2. CASE cread = Len(cscript)
    BY <1>1, <1>4, <2>2
  <2> QED BY <1>5, <2>1, <2>2
<1>7. /\ UNCHANGED <<Prompt!typed, Prompt!serverVars>>
      /\ oClient = "prompt" /\ example # "health"
  BY DEF Prompt!ClientCommand
<1>8. /\ \A k \in 1..cread : cscript[k] # "q"
      /\ cread < Len(cscript) => made = Cardinality(C(cread))
  BY <1>7, SameCardinality DEF Prompt!IInv, Prompt!ClientInStep
<1>9. \/ /\ command = "c"
         /\ made' = IF made > Len(cscript) THEN made ELSE made + 1
         /\ oClient' = "calling" \/ (oClient' = "prompt" /\ oCall' = oCall)
      \/ command = "q" /\ oClient' = "exited" /\ UNCHANGED <<made, oCall>>
      \/ command \notin {"c", "q"} /\ oClient' = "prompt" /\ UNCHANGED <<made, oCall>>
  BY <1>7 DEF Prompt!ClientCommand, Prompt!Calls
<1>10. /\ oCall = "none" /\ oCall' \in {"none", "sent"}
       /\ (oCall' = "sent" => oClient' = "calling")
  BY <1>7
     DEF Prompt!ClientCommand, Prompt!Calls, Prompt!IInv, Prompt!ClientInStep,
         Prompt!TypeOK
<1>11. Prompt!TypeOK'
  <2>1. made \in 0..Len(cscript) + 1 /\ made' \in 0..Len(cscript) + 1
    BY <1>1, <1>9 DEF Prompt!IInv, Prompt!TypeOK
  <2> QED BY <1>6, <1>7, <1>9, <1>10, <2>1
             DEF Prompt!IInv, Prompt!TypeOK, Prompt!typed, Prompt!serverVars
<1>12. Prompt!ServerInStep'
  BY <1>7, <1>10 DEF Prompt!IInv, Prompt!ServerInStep, Prompt!serverVars
<1>13. Prompt!HealthOfLastCommand'
  BY <1>7 DEF Prompt!IInv, Prompt!HealthOfLastCommand, Prompt!typed, Prompt!serverVars
<1>14. cread = Len(cscript) => command # "q"
  <2> SUFFICES ASSUME cread = Len(cscript) PROVE command # "q"
    OBVIOUS
  <2>1. CASE cread = 0
    BY <1>4, <2>1
  <2>2. CASE cread # 0
    <3>1. cread \in 1..cread
      BY <1>1, <2>2
    <3> QED BY <1>8, <1>4, <2>2, <3>1
  <2> QED BY <2>1, <2>2
<1>15. Prompt!ClientInStep'
  <2>1. oCall' # "none" => oClient' = "calling"
    BY <1>10
  <2>2. ASSUME oClient' \in {"prompt", "calling"}
        PROVE  \A k \in 1..cread' : cscript[k] # "q"
    <3>1. command # "q"
      BY <1>9, <2>2
    <3>2. CASE cread < Len(cscript)
      BY <1>1, <1>3, <1>8, <3>1, <3>2
    <3>3. CASE cread = Len(cscript)
      BY <1>4, <1>8, <3>3
    <3> QED BY <1>5, <3>2, <3>3
  <2>3. ASSUME oClient' \in {"prompt", "calling"}, cread' < Len(cscript)
        PROVE  made' = Cardinality(C(cread'))
    <3>1. cread < Len(cscript) /\ cread' = cread + 1 /\ command = cscript[cread + 1]
          /\ cread \in Nat
      <4>1. ASSUME cread = Len(cscript) PROVE FALSE
        <5>1. cread' = cread
          BY <1>4, <4>1
        <5> QED BY <1>1, <2>3, <4>1, <5>1
      <4> QED BY <1>1, <1>3, <1>5, <4>1
    <3>2. /\ Cardinality(C(cread)) \in Nat /\ Cardinality(C(cread)) <= cread
          /\ Cardinality(C(cread + 1)) = IF cscript[cread + 1] = "c"
                                         THEN Cardinality(C(cread)) + 1
                                         ELSE Cardinality(C(cread))
      BY <1>1, <3>1, CountsCall
    <3>3. made = Cardinality(C(cread)) /\ ~(made > Len(cscript))
      BY <1>1, <1>8, <3>1, <3>2
    <3>4. CASE command = "c"
      BY <1>9, <3>1, <3>2, <3>3, <3>4
    <3>5. CASE command # "c"
      BY <1>9, <3>1, <3>2, <3>3, <3>5
    <3> QED BY <3>4, <3>5
  <2>4. cscript' = cscript
    BY <1>7 DEF Prompt!typed
  <2>5. oClient' # "start"
    BY <1>9
  <2>6. Prompt!Cardinality({k \in 1..cread' : cscript[k] = "c"}) = Cardinality(C(cread'))
    BY SameCardinality
  <2> QED BY <2>1, <2>2, <2>3, <2>4, <2>5, <2>6 DEF Prompt!ClientInStep
<1>16. Prompt!QuitsAfterAllCalls'
  <2>1. ASSUME oClient' = "exited"
        PROVE  made' = Prompt!CsBeforeQ(cscript)
    <3>1. command = "q" /\ made' = made
      BY <1>9, <2>1
    <3>2. cread < Len(cscript) /\ cread \in Nat /\ cscript[cread + 1] = "q"
      BY <1>1, <1>3, <1>5, <1>14, <3>1
    <3>3. Prompt!CsBeforeQ(cscript) = Cardinality(C(cread))
      BY <1>1, <1>8, <3>2, AllBeforeQ
    <3> QED BY <1>8, <3>1, <3>2, <3>3
  <2> QED BY <1>7, <1>9, <2>1 DEF Prompt!QuitsAfterAllCalls, Prompt!typed
<1> QED BY <1>11, <1>12, <1>13, <1>15, <1>16 DEF Prompt!IInv

\* Every other step types nothing.
LEMMA PromptStep ==
  ASSUME Prompt!IInv, [Prompt!Next]_Prompt!vars
  PROVE  Prompt!IInv'
<1> USE DEF Prompt!typed, Prompt!serverVars, Prompt!clientVars
<1>1. CASE Prompt!ServerCommand
  BY <1>1, ServerCommandInv
<1>2. CASE Prompt!ClientCommand
  BY <1>2, ClientCommandInv
<1>3. CASE Prompt!Start
  BY <1>3, PromptTypesNothing
     DEF Prompt!Start, Prompt!IInv, Prompt!TypeOK, Prompt!ServerInStep,
         Prompt!ClientInStep
<1>4. CASE Prompt!StartFails
  BY <1>4, PromptTypesNothing
     DEF Prompt!StartFails, Prompt!IInv, Prompt!TypeOK, Prompt!ServerInStep,
         Prompt!ClientInStep
<1>5. CASE Prompt!NoCertificates
  <2>1. oCall # "accepted"
    BY <1>5 DEF Prompt!NoCertificates, Prompt!IInv, Prompt!ServerInStep
  <2> QED BY <1>5, <2>1, PromptTypesNothing
             DEF Prompt!NoCertificates, Prompt!IInv, Prompt!TypeOK, Prompt!ServerInStep,
                 Prompt!ClientInStep
<1>6. CASE Prompt!Stop
  BY <1>6, PromptTypesNothing
     DEF Prompt!Stop, Prompt!IInv, Prompt!TypeOK, Prompt!ServerInStep,
         Prompt!ClientInStep
<1>7. CASE Prompt!Stopped \/ Prompt!Exit
  BY <1>7, PromptTypesNothing
     DEF Prompt!Stopped, Prompt!Drained, Prompt!Exit, Prompt!StopAgain, Prompt!IInv,
         Prompt!TypeOK, Prompt!ServerInStep, Prompt!ClientInStep
<1>8. CASE Prompt!HealthCheck
  BY <1>8, PromptTypesNothing
     DEF Prompt!HealthCheck, Prompt!Calls, Prompt!IInv, Prompt!TypeOK,
         Prompt!ServerInStep, Prompt!ClientInStep
<1>9. CASE Prompt!Await
  BY <1>9, PromptTypesNothing
     DEF Prompt!Await, Prompt!Failed, Prompt!IInv, Prompt!TypeOK, Prompt!ServerInStep,
         Prompt!ClientInStep
<1>10. CASE Prompt!Accepted
  BY <1>10, PromptTypesNothing
     DEF Prompt!Accepted, Prompt!IInv, Prompt!TypeOK, Prompt!ServerInStep,
         Prompt!ClientInStep
<1>11. CASE Prompt!Refused
  BY <1>11, PromptTypesNothing
     DEF Prompt!Refused, Prompt!IInv, Prompt!TypeOK, Prompt!ServerInStep,
         Prompt!ClientInStep
<1>12. CASE Prompt!ComputeSum
  BY <1>12, PromptTypesNothing
     DEF Prompt!ComputeSum, Prompt!IInv, Prompt!TypeOK, Prompt!ServerInStep,
         Prompt!ClientInStep
<1>14. CASE Prompt!Connect \/ Prompt!NoClientCertificates
  BY <1>14, PromptTypesNothing
     DEF Prompt!Connect, Prompt!NoClientCertificates, Prompt!IInv, Prompt!TypeOK,
         Prompt!ServerInStep, Prompt!ClientInStep
<1>13. CASE UNCHANGED Prompt!vars
  BY <1>13, PromptTypesNothing
     DEF Prompt!vars, Prompt!IInv, Prompt!TypeOK, Prompt!ServerInStep,
         Prompt!ClientInStep
<1> QED BY <1>1, <1>2, <1>3, <1>4, <1>5, <1>6, <1>7, <1>8, <1>9, <1>10, <1>11, <1>12,
           <1>13, <1>14
           DEF Prompt!Next, Prompt!ServerStep, Prompt!ClientStep, Prompt!CallStep

-----------------------------------------------------------------------------
(* What the two programs of numbers need of division.                      *)

\* Division with remainder.
LEMMA Remainder ==
  ASSUME NEW w \in Nat, w > 0, NEW x \in Int
  PROVE  /\ x % w \in 0..w - 1
         /\ x \div w \in Int
         /\ x = w * (x \div w) + (x % w)
<1>1. x % w \in 0..w - 1 /\ x \div w \in Int
  OBVIOUS
<1>2. x = w * (x \div w) + (x % w)
  OBVIOUS
<1> QED BY <1>1, <1>2

\* There is one remainder only.
LEMMA OneRemainder ==
  ASSUME NEW w \in Nat, w > 0, NEW q \in Int, NEW p \in Int,
         NEW r \in 0..w - 1, NEW s \in 0..w - 1, w * q + r = w * p + s
  PROVE  r = s
<1>1. ASSUME NEW a \in Int, NEW b \in Int, a >= b + 1
      PROVE  w * a >= w * b + w
  <2>1. a - b \in Nat \ {0} /\ \A n \in Nat \ {0} : w * n >= w
    BY <1>1
  <2>2. w * (a - b) >= w
    BY <2>1
  <2>3. w * (a - b) = w * a - w * b
    OBVIOUS
  <2> QED BY <2>2, <2>3
<1>2. w * q \in Int /\ w * p \in Int
  OBVIOUS
<1>3. CASE q > p
  <2>1. w * q >= w * p + w
    BY <1>1, <1>3
  <2> QED BY <1>2, <2>1
<1>4. CASE q < p
  <2>1. w * p >= w * q + w
    BY <1>1, <1>4
  <2> QED BY <1>2, <2>1
<1> QED BY <1>3, <1>4

\* The remainder of a sum is that of the sum of the remainders.
LEMMA RemainderOfSum ==
  ASSUME NEW w \in Nat, w > 0, NEW x \in Nat, NEW y \in Nat
  PROVE  ((x % w) + (y % w)) % w = (x + y) % w
<1> DEFINE a == x % w
           b == y % w
           m == x \div w
           n == y \div w
           d == (a + b) \div w
           r == (a + b) % w
           e == (x + y) \div w
           s == (x + y) % w
<1>1. x = w * m + a /\ y = w * n + b /\ m \in Int /\ n \in Int /\ a \in Int /\ b \in Int
  BY Remainder
<1>2. a + b = w * d + r /\ d \in Int /\ r \in 0..w - 1
  BY <1>1, Remainder
<1>3. x + y = w * e + s /\ e \in Int /\ s \in 0..w - 1
  BY Remainder
<1> HIDE DEF a, b, m, n, d, r, e, s
<1>4. w * (m + n + d) = w * m + w * n + w * d /\ w * m \in Int /\ w * n \in Int
      /\ w * d \in Int /\ m + n + d \in Int
  BY <1>1, <1>2
<1>5. w * (m + n + d) + r = w * e + s
  BY <1>1, <1>2, <1>3, <1>4
<1>6. r = s
  BY <1>2, <1>3, <1>4, <1>5, OneRemainder
<1> QED BY <1>6 DEF a, b, r, s

\* A number below w is its own remainder.
LEMMA SmallRemainder ==
  ASSUME NEW w \in Nat, w > 0, NEW x \in 0..w - 1
  PROVE  x % w = x
OBVIOUS

-----------------------------------------------------------------------------
(* 01: the sum, for every width of int and of float.                       *)

Top == IntBits + FloatBits + 1

\* Powers of two are positive, the later the larger, and multiply.
LEMMA PositivePowers == \A k \in 0..Top : 2 ^ k \in Nat \ {0}
<1> DEFINE p(k) == 2 ^ k
           Bad == {k \in 0..Top : p(k) \notin Nat \ {0}}
<1>1. p(0) = 1 /\ Top \in Nat
  BY PowersAssumption DEF Top
<1>2. ASSUME NEW k \in Nat, k + 1 \in 0..Top
      PROVE  p(k + 1) = 2 * p(k)
  <2>1. k \in 0..IntBits + FloatBits
    BY <1>2, PowersAssumption DEF Top
  <2> QED BY <2>1, PowersAssumption
<1> HIDE DEF p
<1>3. SUFFICES ASSUME Bad # {} PROVE FALSE
  BY DEF p
<1>4. PICK k \in Bad : \A j \in Bad : k <= j
  <2>1. Bad \subseteq Nat
    BY <1>1
  <2> HIDE DEF Bad
  <2> QED BY <1>3, <2>1, LeastNumber
<1>5. k \in Nat /\ k \in 0..Top /\ k # 0
  BY <1>1
<1>6. k - 1 \in Nat /\ k - 1 \in 0..Top /\ k - 1 + 1 = k /\ ~(k <= k - 1)
  BY <1>1, <1>5
<1>7. p(k - 1) \in Nat \ {0}
  BY <1>4, <1>6
<1>8. p(k) = 2 * p(k - 1)
  BY <1>2, <1>5, <1>6
<1> QED BY <1>7, <1>8

LEMMA PowersMultiply ==
  \A k \in 0..Top, j \in 0..Top : k + j <= Top => 2 ^ (k + j) = 2 ^ k * 2 ^ j
<1> DEFINE p(k) == 2 ^ k
<1>1. p(0) = 1 /\ Top \in Nat
  BY PowersAssumption DEF Top
<1>2. ASSUME NEW k \in Nat, k + 1 \in 0..Top
      PROVE  p(k + 1) = 2 * p(k)
  <2>1. k \in 0..IntBits + FloatBits
    BY <1>2, PowersAssumption DEF Top
  <2> QED BY <2>1, PowersAssumption
<1>3. \A k \in 0..Top : p(k) \in Nat
  BY PositivePowers
<1>4. SUFFICES ASSUME NEW k \in 0..Top
               PROVE  \A j \in 0..Top : k + j <= Top => p(k + j) = p(k) * p(j)
  OBVIOUS
<1> HIDE DEF p
<1> DEFINE Bad == {j \in 0..Top : k + j <= Top /\ p(k + j) # p(k) * p(j)}
<1>5. SUFFICES ASSUME Bad # {} PROVE FALSE
  OBVIOUS
<1>6. PICK j \in Bad : \A n \in Bad : j <= n
  <2>1. Bad \subseteq Nat
    BY <1>1
  <2> HIDE DEF Bad
  <2> QED BY <1>5, <2>1, LeastNumber
<1>7. j \in Nat /\ j \in 0..Top /\ k \in Nat /\ k + j <= Top /\ p(k + j) # p(k) * p(j)
  BY <1>1
<1>8. j # 0
  BY <1>1, <1>3, <1>7
<1> DEFINE i == j - 1
<1>9. i \in Nat /\ i \in 0..Top /\ i + 1 = j /\ ~(j <= i) /\ k + i <= Top
      /\ k + i \in Nat /\ k + i + 1 = k + j /\ k + j \in 0..Top
  BY <1>1, <1>7, <1>8
<1> HIDE DEF i
<1>10. p(k + i) = p(k) * p(i)
  BY <1>6, <1>9
<1>11. p(k + j) = 2 * p(k + i) /\ p(j) = 2 * p(i)
  BY <1>2, <1>7, <1>9
<1>12. p(k) \in Nat /\ p(i) \in Nat
  BY <1>3, <1>9
<1>13. 2 * (p(k) * p(i)) = p(k) * (2 * p(i))
  BY <1>12
<1> QED BY <1>7, <1>10, <1>11, <1>13

LEMMA LaterPowers ==
  ASSUME NEW k \in 0..Top, NEW j \in 0..Top, k < j
  PROVE  2 ^ j >= 2 * 2 ^ k
<1> DEFINE p(n) == 2 ^ n
           d == j - k - 1
<1>1. Top \in Nat
  BY PowersAssumption DEF Top
<1>2. d \in Nat /\ d \in 0..Top /\ d + 1 \in 0..Top /\ k + (d + 1) = j
      /\ d \in 0..IntBits + FloatBits
  BY <1>1, PowersAssumption DEF Top
<1>3. p(d + 1) = 2 * p(d)
  BY <1>2, PowersAssumption
<1>4. p(j) = p(k) * p(d + 1)
  BY <1>2, PowersMultiply
<1>5. p(k) \in Nat /\ p(d) \in Nat \ {0}
  BY <1>2, PositivePowers
<1>6. p(j) >= 2 * p(k)
  <2> HIDE DEF p
  <2>1. p(j) = 2 * (p(k) * p(d))
    BY <1>3, <1>4, <1>5
  <2>2. \A n \in Nat \ {0} : p(k) * n >= p(k)
    BY <1>5
  <2> QED BY <1>5, <2>1, <2>2
<1> QED BY <1>6

\* What Float computes is a multiple of the distance, and no other is nearer.
LEMMA NearestMultiple ==
  ASSUME NEW u \in Nat, u > 0, NEW x \in Int
  PROVE  LET q == x \div u
             r == x % u
             n == IF 2 * r > u \/ (2 * r = u /\ q % 2 = 1) THEN (q + 1) * u ELSE q * u
         IN  /\ n \in Int
             /\ \E m \in Int : n = u * m
             /\ \A m \in Int : Sum!Magnitude(n - x) <= Sum!Magnitude(u * m - x)
<1> DEFINE q == x \div u
           r == x % u
           even == q % 2 = 1
           n == IF 2 * r > u \/ (2 * r = u /\ even) THEN (q + 1) * u ELSE q * u
<1>1. q \in Int /\ r \in 0..u - 1 /\ x = u * q + r
  BY Remainder
<1> HIDE DEF q, r, even
<1> DEFINE a == u * q
<1>2. a \in Int /\ q * u = a /\ (q + 1) * u = a + u /\ u * (q + 1) = a + u
  BY <1>1
<1>3. ASSUME NEW m \in Int
      PROVE  u * m \in Int /\ (u * m <= a \/ u * m >= a + u)
  <2>1. CASE m <= q
    <3>1. q - m \in Nat
      BY <1>1, <2>1
    <3>2. u * (q - m) >= 0 /\ u * (q - m) = u * q - u * m
      BY <1>1, <3>1
    <3> QED BY <1>1, <3>2
  <2>2. CASE m >= q + 1
    <3>1. m - (q + 1) \in Nat
      BY <1>1, <2>2
    <3>2. u * (m - (q + 1)) >= 0 /\ u * (m - (q + 1)) = u * m - u * (q + 1)
      BY <1>1, <3>1
    <3> QED BY <1>2, <3>2
  <2> QED BY <1>1, <2>1, <2>2
<1>4. n = IF 2 * r > u \/ (2 * r = u /\ even) THEN a + u ELSE a
  BY <1>2
<1> HIDE DEF n
<1>5. \E m \in Int : n = u * m
  <2>1. q + 1 \in Int
    BY <1>1
  <2>2. n = u * q \/ n = u * (q + 1)
    BY <1>2, <1>4
  <2> QED BY <1>1, <2>1, <2>2
<1>6. n \in Int
  BY <1>2, <1>4
<1>7. x = a + r
  BY <1>1
<1>8. ASSUME NEW m \in Int
      PROVE  Sum!Magnitude(n - x) <= Sum!Magnitude(u * m - x)
  <2> DEFINE y == u * m
  <2>1. y \in Int /\ (y <= a \/ y >= a + u)
    BY <1>3
  <2> HIDE DEF a, y
  <2>2. Sum!Magnitude(n - x) <= Sum!Magnitude(y - x)
    BY <1>1, <1>2, <1>4, <1>7, <2>1 DEF Sum!Magnitude
  <2> QED BY <2>2 DEF y
<1> QED BY <1>5, <1>6, <1>8 DEF n, q, r, even

\* The distance of the floats around x is the first power of two at which x fits into
\* the significand.
LEMMA Distance ==
  ASSUME NEW x \in Sum!Ints
  PROVE  \E k \in 0..IntBits :
           /\ Sum!Ulp(x) = 2 ^ k
           /\ Sum!Magnitude(x) < 2 ^ (k + FloatBits)
           /\ \A j \in 0..IntBits :
                Sum!Magnitude(x) < 2 ^ (j + FloatBits) => k <= j
<1> DEFINE p(k) == 2 ^ k
           y == Sum!Magnitude(x)
           J == {j \in 0..IntBits : y < p(j + FloatBits)}
           S == {p(k) : k \in J}
<1>1. /\ IntBits \in Nat \ {0} /\ FloatBits \in Nat \ {0} /\ Top \in Nat
      /\ 0..IntBits \subseteq 0..Top
      /\ IntBits - 1 \in 0..Top /\ IntBits + FloatBits \in 0..Top
  BY PowersAssumption DEF Top
<1>2. \A k \in 0..Top : p(k) \in Nat \ {0}
  BY PositivePowers
<1>3. p(IntBits + FloatBits) >= 2 * p(IntBits - 1)
  BY <1>1, LaterPowers
<1>4. Sum!Ulp(x) = Sum!Min(S)
  BY DEF Sum!Ulp
<1>5. Sum!Half = p(IntBits - 1)
  BY DEF Sum!Half
<1> HIDE DEF p
<1>6. x \in Int /\ y \in Nat /\ y <= p(IntBits - 1)
  BY <1>1, <1>2, <1>5 DEF Sum!Ints, Sum!Magnitude
<1> HIDE DEF y
<1>7. IntBits \in J
  BY <1>1, <1>2, <1>3, <1>6
<1>8. S \subseteq Nat /\ S # {}
  BY <1>1, <1>2, <1>7
<1>9. PICK v \in S : \A w \in S : v <= w
  <2> HIDE DEF S
  <2> QED BY <1>8, LeastNumber
<1>10. /\ Sum!Min(S) \in S
       /\ \A w \in S : Sum!Min(S) <= w
  <2> HIDE DEF S
  <2> QED BY <1>9 DEF Sum!Min
<1>11. PICK k \in J : Sum!Min(S) = p(k)
  BY <1>10
<1>12. ASSUME NEW j \in J PROVE k <= j
  <2> SUFFICES ASSUME j < k PROVE FALSE
    BY <1>1
  <2>1. j \in 0..Top /\ k \in 0..Top
    BY <1>1
  <2>2. p(k) >= 2 * p(j)
    BY <2>1, LaterPowers DEF p
  <2>3. p(k) <= p(j)
    BY <1>10, <1>11
  <2>4. p(j) \in Nat \ {0}
    BY <1>2, <2>1
  <2>5. p(k) \in Nat \ {0}
    BY <1>2, <2>1
  <2> HIDE DEF J, S
  <2> QED BY <2>2, <2>3, <2>4, <2>5
<1> QED BY <1>4, <1>11, <1>12 DEF p, y

\* The nearest float is one, no float is nearer, and a number that fits is its own.
LEMMA FloatIsNearest ==
  ASSUME NEW x \in Sum!Ints
  PROVE  /\ Sum!Float(x) \in Sum!Ints => Sum!Float(x) \in Sum!Floats
         /\ \A f \in Sum!Floats :
              Sum!Magnitude(Sum!Float(x) - x) <= Sum!Magnitude(f - x)
         /\ Sum!Magnitude(x) <= 2 ^ FloatBits => Sum!Float(x) = x
<1> DEFINE p(j) == 2 ^ j
           n == Sum!Float(x)
           F0 == FloatBits - 1
<1>1. PICK k \in 0..IntBits :
        /\ Sum!Ulp(x) = p(k)
        /\ Sum!Magnitude(x) < p(k + FloatBits)
        /\ \A j \in 0..IntBits : Sum!Magnitude(x) < p(j + FloatBits) => k <= j
  BY Distance
<1> DEFINE u == p(k)
<1>2. /\ IntBits \in Nat \ {0} /\ FloatBits \in Nat \ {0} /\ Top \in Nat /\ F0 \in Nat
      /\ F0 + 1 = FloatBits /\ F0 \in 0..Top /\ FloatBits \in 0..Top /\ k \in 0..Top
      /\ \A j \in 0..IntBits : j \in 0..Top /\ j + FloatBits \in 0..Top
                               /\ j + F0 \in 0..Top
  BY PowersAssumption DEF Top
<1>3. \A j \in 0..Top : p(j) \in Nat \ {0}
  BY PositivePowers
<1>4. \A i \in 0..Top, j \in 0..Top : i + j \in 0..Top => p(i + j) = p(i) * p(j)
  BY PowersMultiply
<1>5. Sum!Half = p(IntBits - 1)
  BY DEF Sum!Half
<1>6. p(0) = 1 /\ p(1) = 2 /\ p(FloatBits) = 2 * p(F0)
  <2>1. 0 \in 0..IntBits + FloatBits /\ F0 \in 0..IntBits + FloatBits /\ 0 + 1 = 1
    BY <1>2
  <2> QED BY <1>2, <2>1, PowersAssumption
<1>7. x \in Int
  <2>1. Sum!Half \in Int
    <3>1. IntBits - 1 \in 0..Top
      BY <1>2
    <3> QED BY <1>3, <1>5, <3>1
  <2> QED BY <2>1 DEF Sum!Ints
<1>8. u \in Nat /\ u > 0
  BY <1>2, <1>3
<1>9. /\ n \in Int
      /\ \E m \in Int : n = u * m
      /\ \A m \in Int : Sum!Magnitude(n - x) <= Sum!Magnitude(u * m - x)
  <2>1. n = LET q == x \div u
                r == x % u
            IN  IF 2 * r > u \/ (2 * r = u /\ q % 2 = 1) THEN (q + 1) * u ELSE q * u
    BY <1>1 DEF Sum!Float
  <2> HIDE DEF u, n
  <2> QED BY <1>7, <1>8, <2>1, NearestMultiple
<1> HIDE DEF n
<1>10. PICK h \in Int : n = u * h
  BY <1>9
<1>11. ASSUME n \in Sum!Ints PROVE n \in Sum!Floats
  <2> DEFINE L == p(k + FloatBits)
             g == p(FloatBits)
  <2>1. L = u * g /\ L \in Nat /\ g \in Nat
    BY <1>2, <1>3, <1>4
  <2>2. Sum!Magnitude(x) < L
    BY <1>1
  <2>3. n % u = 0
    <3>1. n % u \in 0..u - 1 /\ n \div u \in Int /\ n = u * (n \div u) + (n % u)
      BY <1>8, <1>9, Remainder
    <3> DEFINE r == n % u
               q == n \div u
    <3> HIDE DEF r, q, u
    <3>2. u * h + 0 = u * q + r
      BY <1>8, <1>10, <3>1 DEF r, q
    <3>3. 0 \in 0..u - 1 /\ r \in 0..u - 1 /\ q \in Int
      BY <1>8, <3>1 DEF r, q
    <3>4. 0 = r
      BY <1>8, <1>10, <3>2, <3>3, OneRemainder
    <3> QED BY <3>4 DEF r
  <2>4. Sum!Magnitude(n) <= L
    <3>1. u * (-g) = -L /\ -g \in Int
      <4> HIDE DEF u, g, L
      <4> QED BY <1>8, <2>1
    <3>2. /\ Sum!Magnitude(n - x) <= Sum!Magnitude(L - x)
          /\ Sum!Magnitude(n - x) <= Sum!Magnitude(-L - x)
      <4>1. g \in Int
        BY <2>1
      <4> HIDE DEF u, g, L
      <4> QED BY <1>9, <2>1, <3>1, <4>1
    <3> HIDE DEF L
    <3> QED BY <1>7, <1>9, <2>1, <2>2, <3>2 DEF Sum!Magnitude
  <2>5. n \in -Sum!Half..Sum!Half
    <3>1. Sum!Half \in Int
      <4>1. IntBits - 1 \in 0..Top
        BY <1>2
      <4> QED BY <1>3, <1>5, <4>1
    <3> QED BY <1>11, <3>1 DEF Sum!Ints
  <2> QED BY <2>3, <2>4, <2>5 DEF Sum!Floats
<1>12. ASSUME NEW f \in Sum!Floats
       PROVE  Sum!Magnitude(n - x) <= Sum!Magnitude(f - x)
  <2>1. PICK j \in 0..IntBits : f % p(j) = 0 /\ Sum!Magnitude(f) <= p(j + FloatBits)
    BY DEF Sum!Floats
  <2>2. f \in Int
    <3>1. Sum!Half \in Int
      <4>1. IntBits - 1 \in 0..Top
        BY <1>2
      <4> QED BY <1>3, <1>5, <4>1
    <3> QED BY <3>1 DEF Sum!Floats
  <2>3. CASE j >= k
    <3> DEFINE d == f \div p(j)
               e == p(j - k)
    <3>1. p(j) = u * e /\ e \in Int
      <4>1. j - k \in 0..Top /\ k + (j - k) = j /\ j \in 0..Top
        BY <1>2, <2>3
      <4> QED BY <1>2, <1>3, <1>4, <4>1
    <3>2. p(j) \in Nat /\ p(j) > 0
      BY <1>2, <1>3
    <3>3. f = p(j) * d + 0 /\ d \in Int
      BY <2>1, <2>2, <3>2, Remainder
    <3> HIDE DEF u, d, e, p
    <3>4. f = u * (e * d) /\ e * d \in Int
      BY <1>8, <3>1, <3>3
    <3> QED BY <1>9, <3>4
  <2>4. CASE j < k
    <3> DEFINE i == k - 1
               g == p(i + FloatBits)
               b == p(F0)
    <3>1. i \in 0..IntBits /\ i + FloatBits = k + F0 /\ ~(k <= i) /\ i \in Nat
          /\ i + FloatBits \in 0..Top /\ j + FloatBits \in 0..Top
          /\ (j = i \/ j + FloatBits < i + FloatBits)
      BY <1>2, <2>4
    <3>2. g = u * b /\ g \in Nat /\ b \in Int
      BY <1>2, <1>3, <1>4, <3>1
    <3>3. ~(Sum!Magnitude(x) < g)
      BY <1>1, <3>1
    <3>4. p(j + FloatBits) <= g
      <4>1. CASE j = i
        BY <3>2, <4>1
      <4>2. CASE j # i
        <5>1. p(i + FloatBits) >= 2 * p(j + FloatBits)
          BY <3>1, <4>2, LaterPowers
        <5>2. p(j + FloatBits) \in Nat
          BY <1>3, <3>1
        <5> HIDE DEF p
        <5> QED BY <3>2, <5>1, <5>2
      <4> QED BY <4>1, <4>2
    <3>5. p(j + FloatBits) \in Nat
      BY <1>3, <3>1
    <3>6. Sum!Magnitude(f) <= g
      <4> HIDE DEF g, p, i
      <4> QED BY <2>1, <2>2, <3>2, <3>4, <3>5 DEF Sum!Magnitude
    <3>7. u * (-b) = -g /\ -b \in Int
      <4> HIDE DEF u, g, b
      <4> QED BY <1>8, <3>2
    <3>8. /\ Sum!Magnitude(n - x) <= Sum!Magnitude(g - x)
          /\ Sum!Magnitude(n - x) <= Sum!Magnitude(-g - x)
      <4> HIDE DEF u, g, b
      <4> QED BY <1>9, <3>2, <3>7
    <3> HIDE DEF g
    <3> QED BY <1>7, <1>9, <2>2, <3>2, <3>3, <3>6, <3>8 DEF Sum!Magnitude
  <2> QED BY <2>3, <2>4
<1>13. ASSUME Sum!Magnitude(x) <= p(FloatBits) PROVE n = x
  <2> DEFINE y == Sum!Magnitude(x)
  <2>1. \E m \in Int : x = u * m
    <3>1. CASE y < p(FloatBits)
      <4>1. k <= 0
        <5>1. 0 \in 0..IntBits /\ 0 + FloatBits = FloatBits
          BY <1>2
        <5> QED BY <1>1, <3>1, <5>1
      <4>2. k = 0
        BY <4>1
      <4>3. u = 1
        BY <1>6, <4>2
      <4> HIDE DEF u
      <4> QED BY <1>7, <4>3
    <3>2. CASE y = p(FloatBits)
      <4> DEFINE b == p(F0)
      <4>1. b \in Nat \ {0}
        BY <1>2, <1>3
      <4>2. x = 2 * b \/ x = 2 * (-b)
        <5>1. y = 2 * b
          BY <1>6, <3>2
        <5> HIDE DEF b
        <5> QED BY <1>7, <4>1, <5>1 DEF Sum!Magnitude
      <4>3. k <= 1
        <5>1. 1 \in 0..IntBits /\ 1 \in 0..Top /\ 1 + FloatBits \in 0..Top
          BY <1>2
        <5>2. p(1 + FloatBits) = 2 * p(FloatBits) /\ p(FloatBits) \in Nat \ {0}
          BY <1>2, <1>3, <1>4, <1>6, <5>1
        <5>3. y < p(1 + FloatBits)
          <6> HIDE DEF p, y
          <6> QED BY <3>2, <5>2
        <5> QED BY <1>1, <5>1, <5>3
      <4>4. u = 1 \/ u = 2
        <5>1. k = 0 \/ k = 1
          BY <4>3
        <5> QED BY <1>6, <5>1
      <4> HIDE DEF u, b
      <4>5. CASE u = 1
        BY <1>7, <4>5
      <4>6. CASE u = 2
        <5>1. b \in Int /\ -b \in Int
          BY <4>1
        <5> QED BY <4>2, <4>6, <5>1
      <4> QED BY <4>4, <4>5, <4>6
    <3>3. y \in Nat /\ p(FloatBits) \in Nat
      BY <1>2, <1>3, <1>7 DEF Sum!Magnitude
    <3> HIDE DEF y, p
    <3> QED BY <1>13, <3>1, <3>2, <3>3 DEF y
  <2>2. Sum!Magnitude(n - x) <= Sum!Magnitude(x - x)
    <3> HIDE DEF u
    <3> QED BY <1>9, <2>1
  <2> QED BY <1>7, <1>9, <2>2 DEF Sum!Magnitude
<1> QED BY <1>11, <1>12, <1>13 DEF n

\* Zero is an int, and so is all that a float is converted to.
LEMMA IntsOfSum ==
  /\ Sum!Half \in Nat \ {0}
  /\ 0 \in Sum!Ints
  /\ \A x : Sum!ToInt(x) \subseteq Sum!Ints
<1>1. Sum!Half \in Nat \ {0}
  <2>1. IntBits - 1 \in 0..Top
    BY PowersAssumption DEF Top
  <2> QED BY <2>1, PositivePowers DEF Sum!Half
<1>2. \A y : y \in Sum!Ints <=> y \in -Sum!Half..Sum!Half - 1
  BY DEF Sum!Ints
<1>3. {0, -Sum!Half, Sum!Half - 1} \subseteq Sum!Ints
  <2> DEFINE h == Sum!Half
  <2>1. h \in Nat \ {0}
    BY <1>1
  <2> HIDE DEF h
  <2>2. {0, -h, h - 1} \subseteq -h..h - 1
    BY <2>1
  <2> QED BY <1>2, <2>2 DEF h
<1> QED BY <1>1, <1>3 DEF Sum!ToInt

LEMMA SumInit == ASSUME Sum!Init PROVE Sum!IInv
BY IntsOfSum DEF Sum!IInv, Sum!ConvertsTheSum, Sum!Init, Sum!TypeOK

LEMMA SumStep == ASSUME Sum!IInv, [Sum!Next]_Sum!vars PROVE Sum!IInv'
<1> USE DEF Sum!IInv, Sum!TypeOK, Sum!ConvertsTheSum, Sum!Sum
<1>1. CASE Sum!Call
  BY <1>1 DEF Sum!Call
<1>2. CASE Sum!ComputeSum
  <2>1. response' \in Sum!ToInt(Sum!Float(Sum!Wrapped(op1 + op2)))'
    BY <1>2 DEF Sum!ComputeSum
  <2>2. response' \in Sum!Ints
    BY <1>2, IntsOfSum DEF Sum!ComputeSum
  <2> QED BY <1>2, <2>1, <2>2 DEF Sum!ComputeSum
<1>3. CASE Sum!Fails
  BY <1>3 DEF Sum!Fails
<1>4. CASE Sum!Show
  BY <1>4, IntsOfSum DEF Sum!Show
<1>5. CASE UNCHANGED Sum!vars
  BY <1>5 DEF Sum!vars
<1> QED BY <1>1, <1>2, <1>3, <1>4, <1>5 DEF Sum!Next

\* A sum that is an int does not wrap.
LEMMA NothingWraps ==
  ASSUME NEW x \in Sum!Ints
  PROVE  Sum!Wrapped(x) = x
<1> DEFINE h == Sum!Half
<1>1. h \in Nat \ {0} /\ x \in -h..h - 1
  BY IntsOfSum DEF Sum!Ints
<1>2. Sum!Wrapped(x) = ((x + h) % (2 * h)) - h
  BY DEF Sum!Wrapped
<1> HIDE DEF h
<1> DEFINE w == 2 * h
<1>3. w \in Nat /\ w > 0 /\ x + h \in 0..w - 1
  BY <1>1
<1> HIDE DEF w
<1>4. (x + h) % w = x + h
  BY <1>3, SmallRemainder
<1> QED BY <1>1, <1>2, <1>4 DEF w

LEMMA SumIsNearest == ASSUME Sum!IInv PROVE NearestToTheSum
<1>1. Sum!TypeOK
  BY DEF Sum!IInv
<1>2. ASSUME sMain = "printed", sCall = "ok",
             op1 + op2 \in Sum!Ints, Sum!Float(op1 + op2) \in Sum!Ints
      PROVE  /\ result \in Sum!Floats
             /\ \A f \in Sum!Floats : Sum!Magnitude(result - (op1 + op2))
                                        <= Sum!Magnitude(f - (op1 + op2))
             /\ Sum!Magnitude(op1 + op2) <= 2 ^ FloatBits => result = op1 + op2
  <2> DEFINE x == op1 + op2
  <2> HIDE DEF x
  <2>1. result \in Sum!ToInt(Sum!Float(Sum!Wrapped(x)))
    BY <1>2 DEF Sum!IInv, Sum!ConvertsTheSum, Sum!Sum, x
  <2>2. x \in Sum!Ints /\ Sum!Float(x) \in Sum!Ints
    BY <1>2 DEF x
  <2>3. result = Sum!Float(x)
    BY <2>1, <2>2, NothingWraps DEF Sum!ToInt
  <2>4. /\ result \in Sum!Floats
        /\ \A f \in Sum!Floats : Sum!Magnitude(result - x) <= Sum!Magnitude(f - x)
        /\ Sum!Magnitude(x) <= 2 ^ FloatBits => result = x
    BY <2>2, <2>3, FloatIsNearest
  <2> QED BY <2>4 DEF x
<1> QED BY <1>1, <1>2 DEF NearestToTheSum, Sum!NearestToTheSum, Sum!Sum

-----------------------------------------------------------------------------
(* 02 to 33: the numbers, for every width.                                 *)

\* The function of which Fib takes the values, up to n and for all numbers.
NextFib(p) == <<p[2], p[1] + p[2]>>
IsFibTo(n, f) == f = [k \in 0..n |-> IF k = 0 THEN <<0, 1>> ELSE NextFib(f[k - 1])]
IsFib(f) == f = [k \in Nat |-> IF k = 0 THEN <<0, 1>> ELSE NextFib(f[k - 1])]

\* It exists up to every number ...
LEMMA FibExistsTo == \A n \in Nat : \E f \in [0..n -> Nat \X Nat] : IsFibTo(n, f)
<1> DEFINE Bad == {n \in Nat : ~ \E f \in [0..n -> Nat \X Nat] : IsFibTo(n, f)}
<1>1. SUFFICES ASSUME Bad # {} PROVE FALSE
  OBVIOUS
<1>2. PICK m \in Bad : \A n \in Bad : m <= n
  <2>1. Bad \subseteq Nat
    OBVIOUS
  <2> HIDE DEF Bad
  <2> QED BY <1>1, <2>1, LeastNumber
<1>3. m \in Nat
  OBVIOUS
<1>4. CASE m = 0
  <2> DEFINE f == [k \in 0..0 |-> <<0, 1>>]
  <2>1. f \in [0..0 -> Nat \X Nat] /\ IsFibTo(0, f)
    BY DEF IsFibTo
  <2> QED BY <1>4, <2>1
<1>5. CASE m # 0
  <2>1. m - 1 \in Nat /\ ~(m <= m - 1)
    BY <1>3, <1>5
  <2>2. m - 1 \notin Bad
    <3> HIDE DEF Bad
    <3> QED BY <1>2, <2>1
  <2>3. PICK f \in [0..m - 1 -> Nat \X Nat] : IsFibTo(m - 1, f)
    BY <2>1, <2>2
  <2> DEFINE g == [k \in 0..m |-> IF k = m THEN NextFib(f[m - 1]) ELSE f[k]]
  <2>4. f[m - 1] \in Nat \X Nat /\ \A k \in 0..m : k # m => k \in 0..m - 1
    BY <1>3, <1>5
  <2>5. NextFib(f[m - 1]) \in Nat \X Nat
    BY <2>4 DEF NextFib
  <2>6. g \in [0..m -> Nat \X Nat]
    BY <2>4, <2>5
  <2>7. ASSUME NEW k \in 0..m
        PROVE  g[k] = IF k = 0 THEN <<0, 1>> ELSE NextFib(g[k - 1])
    <3>1. CASE k = m
      <4>1. m - 1 \in 0..m /\ m - 1 # m /\ m \in 0..m
        BY <1>3, <1>5
      <4>2. g[m] = NextFib(f[m - 1]) /\ g[m - 1] = f[m - 1]
        BY <4>1
      <4> QED BY <1>5, <3>1, <4>2
    <3>2. CASE k # m
      <4>1. k \in 0..m - 1 /\ f[k] = IF k = 0 THEN <<0, 1>> ELSE NextFib(f[k - 1])
        BY <2>3, <2>4, <3>2 DEF IsFibTo
      <4>2. k # 0 => k - 1 \in 0..m /\ k - 1 # m
        BY <1>3, <4>1
      <4> QED BY <3>2, <4>1, <4>2
    <3> QED BY <3>1, <3>2
  <2>8. IsFibTo(m, g)
    <3> HIDE DEF g
    <3> QED BY <2>6, <2>7 DEF IsFibTo
  <2> QED BY <2>6, <2>8
<1> QED BY <1>4, <1>5

\* ... and those up to two numbers agree up to the smaller.
LEMMA FibUniqueTo ==
  ASSUME NEW n \in Nat, NEW m \in Nat, n <= m, NEW f, NEW g, IsFibTo(n, f), IsFibTo(m, g)
  PROVE  \A k \in 0..n : f[k] = g[k]
<1> DEFINE Bad == {k \in 0..n : f[k] # g[k]}
<1>1. SUFFICES ASSUME Bad # {} PROVE FALSE
  OBVIOUS
<1>2. PICK k \in Bad : \A j \in Bad : k <= j
  <2>1. Bad \subseteq Nat
    OBVIOUS
  <2> HIDE DEF Bad
  <2> QED BY <1>1, <2>1, LeastNumber
<1>3. k \in 0..n /\ k \in 0..m
  OBVIOUS
<1>4. /\ f[k] = IF k = 0 THEN <<0, 1>> ELSE NextFib(f[k - 1])
      /\ g[k] = IF k = 0 THEN <<0, 1>> ELSE NextFib(g[k - 1])
  BY <1>3 DEF IsFibTo
<1>5. k # 0 => k - 1 \in 0..n /\ k - 1 \notin Bad
  BY <1>2, <1>3
<1> QED BY <1>3, <1>4, <1>5

\* So there is one for all numbers.
LEMMA FibExists == \E f \in [Nat -> Nat \X Nat] : IsFib(f)
<1> DEFINE h(n) == CHOOSE f : f \in [0..n -> Nat \X Nat] /\ IsFibTo(n, f)
           f == [n \in Nat |-> h(n)[n]]
<1>1. \A n \in Nat : h(n) \in [0..n -> Nat \X Nat] /\ IsFibTo(n, h(n))
  BY FibExistsTo
<1> HIDE DEF h
<1>2. ASSUME NEW n \in Nat
      PROVE  /\ h(n)[n] \in Nat \X Nat
             /\ h(n)[n] = IF n = 0 THEN <<0, 1>> ELSE NextFib(h(n)[n - 1])
             /\ n # 0 => h(n)[n - 1] = h(n - 1)[n - 1]
  <2>1. n \in 0..n /\ h(n) \in [0..n -> Nat \X Nat] /\ IsFibTo(n, h(n))
    BY <1>1
  <2>2. h(n)[n] = IF n = 0 THEN <<0, 1>> ELSE NextFib(h(n)[n - 1])
    BY <2>1 DEF IsFibTo
  <2>3. ASSUME n # 0 PROVE h(n)[n - 1] = h(n - 1)[n - 1]
    <3> DEFINE a == h(n - 1)
               b == h(n)
               m == n - 1
    <3>1. m \in Nat /\ m <= n /\ m \in 0..m
      BY <2>3
    <3>2. IsFibTo(m, a) /\ IsFibTo(n, b)
      BY <1>1, <3>1
    <3> HIDE DEF a, b, m
    <3>3. a[m] = b[m]
      BY <3>1, <3>2, FibUniqueTo
    <3> QED BY <3>3 DEF a, b, m
  <2> QED BY <2>1, <2>2, <2>3
<1>3. f \in [Nat -> Nat \X Nat]
  BY <1>2
<1>4. ASSUME NEW n \in Nat
      PROVE  f[n] = IF n = 0 THEN <<0, 1>> ELSE NextFib(f[n - 1])
  <2>1. n # 0 => n - 1 \in Nat
    OBVIOUS
  <2> QED BY <1>2, <2>1
<1>5. IsFib(f)
  <2> HIDE DEF f
  <2> QED BY <1>3, <1>4 DEF IsFib
<1> QED BY <1>3, <1>5

\* The Fibonacci numbers.
F == [n \in Nat |-> (CHOOSE f : IsFib(f))[n][1]]

\* They begin with 0 and 1, each other is the sum of the two before it, and the Fib of
\* the model is a part of them.
LEMMA FibNumbers ==
  /\ \A n \in Nat : F[n] \in Nat
  /\ F[0] = 0 /\ F[1] = 1
  /\ \A n \in Nat : F[n + 2] = F[n + 1] + F[n]
  /\ Len(list) \in Nat => Fib!Fib = [n \in 0..Len(list) |-> F[n]]
<1> DEFINE f == CHOOSE g : IsFib(g)
<1>1. PICK g \in [Nat -> Nat \X Nat] : IsFib(g)
  BY FibExists
<1>2. IsFib(f)
  BY <1>1
<1>3. \A n \in Nat : f[n] = g[n]
  <2>1. f = [k \in Nat |-> f[k]]
    BY <1>2 DEF IsFib
  <2> HIDE DEF f
  <2> DEFINE Bad == {k \in Nat : f[k] # g[k]}
  <2>2. SUFFICES ASSUME Bad # {} PROVE FALSE
    OBVIOUS
  <2>3. PICK k \in Bad : \A j \in Bad : k <= j
    <3>1. Bad \subseteq Nat
      OBVIOUS
    <3> HIDE DEF Bad
    <3> QED BY <2>2, <3>1, LeastNumber
  <2>4. /\ f[k] = IF k = 0 THEN <<0, 1>> ELSE NextFib(f[k - 1])
        /\ g[k] = IF k = 0 THEN <<0, 1>> ELSE NextFib(g[k - 1])
    BY <1>1, <1>2 DEF IsFib
  <2>5. k # 0 => k - 1 \in Nat /\ ~(k <= k - 1)
    OBVIOUS
  <2>6. k # 0 => k - 1 \notin Bad
    <3> HIDE DEF Bad
    <3> QED BY <2>3, <2>5
  <2> QED BY <2>3, <2>4, <2>5, <2>6
<1>4. \A n \in Nat : f[n] \in Nat \X Nat
  BY <1>3
<1>5. f[0] = <<0, 1>>
  BY <1>2 DEF IsFib
<1>6. ASSUME NEW n \in Nat
      PROVE  f[n + 1] = <<f[n][2], f[n][1] + f[n][2]>>
  <2> DEFINE m == n + 1
  <2>1. m \in Nat /\ m # 0 /\ m - 1 = n
    OBVIOUS
  <2> HIDE DEF m
  <2>2. f[m] = NextFib(f[m - 1])
    <3> HIDE DEF f
    <3> QED BY <1>2, <2>1 DEF IsFib
  <2> HIDE DEF f
  <2>3. f[m] = NextFib(f[n])
    BY <2>1, <2>2
  <2> QED BY <2>3 DEF m, NextFib
<1>7. Fib!Fib = [n \in 0..Len(list) |-> f[n][1]]
  BY DEF Fib!Fib, IsFib, NextFib
<1>8. F = [n \in Nat |-> f[n][1]]
  BY DEF F
<1> HIDE DEF f
<1>9. \A n \in Nat : F[n] = f[n][1]
  BY <1>8
<1>10. ASSUME NEW n \in Nat
       PROVE  F[n] \in Nat /\ F[n + 1] = f[n][2] /\ f[n + 1][2] = F[n] + F[n + 1]
  <2> DEFINE x == f[n][2]
             y == f[n][1] + f[n][2]
             m == n + 1
             p == f[m]
  <2>1. f[n] \in Nat \X Nat
    BY Zenon, <1>4
  <2>2. f[n][1] \in Nat
    BY <2>1
  <2>3. p = <<x, y>>
    BY <1>6
  <2>4. m \in Nat
    OBVIOUS
  <2>5. F[n] = f[n][1] /\ F[m] = p[1]
    BY Zenon, <1>9, <2>4
  <2> HIDE DEF x, y, p, m
  <2>6. p[1] = x /\ p[2] = y
    BY <2>3
  <2>7. F[n] \in Nat /\ F[m] = x /\ p[2] = y
    BY <2>2, <2>5, <2>6
  <2> QED BY <2>5, <2>7 DEF x, y, p, m
<1>11. ASSUME NEW n \in Nat
       PROVE  F[n + 2] = F[n + 1] + F[n]
  <2> DEFINE m == n + 1
  <2>1. m \in Nat /\ m + 1 = n + 2
    OBVIOUS
  <2>2. F[m + 1] = f[m][2] /\ F[m] \in Nat
    BY <1>10, <2>1
  <2>3. f[m][2] = F[n] + F[m] /\ F[n] \in Nat
    BY <1>10
  <2> HIDE DEF m
  <2> HIDE DEF F
  <2>4. F[n + 2] = F[m] + F[n]
    <3> DEFINE a == F[n]
               b == F[m]
    <3>1. F[n + 2] = a + b
      BY <2>1, <2>2, <2>3
    <3>2. a \in Nat /\ b \in Nat
      BY <2>2, <2>3
    <3> HIDE DEF a, b
    <3>3. F[n + 2] = b + a
      BY <3>1, <3>2
    <3> QED BY <3>3 DEF a, b
  <2> QED BY <2>4 DEF m
<1>12. F[0] = 0 /\ F[1] = 1
  <2> DEFINE p == f[0]
  <2>1. p = <<0, 1>>
    BY <1>5
  <2>2. F[0 + 1] = p[2] /\ F[0] = p[1] /\ 0 + 1 = 1
    BY <1>9, <1>10
  <2> HIDE DEF p
  <2> QED BY <2>1, <2>2
<1>13. ASSUME Len(list) \in Nat
       PROVE  Fib!Fib = [n \in 0..Len(list) |-> F[n]]
  <2>1. \A n \in 0..Len(list) : f[n][1] = F[n]
    BY <1>9, <1>13
  <2> QED BY <1>7, <2>1
<1> QED BY <1>10, <1>11, <1>12, <1>13

\* The remainders behave as the numbers do.
LEMMA FibRemainders ==
  ASSUME NEW w \in Nat, w > 1
  PROVE  /\ \A n \in Nat : F[n] % w \in 0..w - 1
         /\ F[0] % w = 0 /\ F[1] % w = 1
         /\ \A n \in Nat : F[n + 2] % w = ((F[n + 1] % w) + (F[n] % w)) % w
<1> HIDE DEF F
<1>1. ASSUME NEW n \in Nat PROVE F[n] % w \in 0..w - 1
  <2>1. F[n] \in Nat
    BY FibNumbers, Zenon
  <2>2. w > 0
    OBVIOUS
  <2>3. ASSUME NEW x \in Nat PROVE x % w \in 0..w - 1
    BY <2>2, Remainder
  <2> QED BY <2>1, <2>3, Zenon
<1>2. F[0] % w = 0 /\ F[1] % w = 1
  <2>1. F[0] = 0 /\ F[1] = 1
    BY FibNumbers
  <2>2. 0 \in 0..w - 1 /\ 1 \in 0..w - 1 /\ w > 0
    OBVIOUS
  <2>3. 0 % w = 0 /\ 1 % w = 1
    BY <2>2, SmallRemainder
  <2> QED BY <2>1, <2>3
<1>3. ASSUME NEW n \in Nat
      PROVE  F[n + 2] % w = ((F[n + 1] % w) + (F[n] % w)) % w
  <2>1. n + 1 \in Nat /\ w > 0
    OBVIOUS
  <2>2. F[n + 1] \in Nat /\ F[n] \in Nat /\ F[n + 2] = F[n + 1] + F[n]
    BY <2>1, FibNumbers
  <2>3. ((F[n + 1] % w) + (F[n] % w)) % w = (F[n + 1] + F[n]) % w
    BY <2>1, <2>2, RemainderOfSum
  <2> QED BY <2>2, <2>3
<1> QED BY <1>1, <1>2, <1>3

\* getFibonacci computes the remainders.
IsLongFib(f) == f = [n \in Nat |-> IF n <= 1 THEN n ELSE Fib!Long(f[n - 1] + f[n - 2])]

LEMMA LongFib ==
  \A n \in Nat : Fib!getFibonacci[n] = F[n] % (2 ^ LongBits)
<1> DEFINE w == 2 ^ LongBits
           g == [n \in Nat |-> F[n] % w]
           f == CHOOSE h : IsLongFib(h)
<1>1. w \in Nat /\ w > 1
  BY WidthsAssumption
<1>2. \A x : Fib!Long(x) = x % w
  BY DEF Fib!Long
<1>3. Fib!getFibonacci = f
  BY DEF Fib!getFibonacci, IsLongFib
<1> HIDE DEF w, f, F
<1>4. ASSUME NEW n \in Nat
      PROVE  g[n] = IF n <= 1 THEN n ELSE Fib!Long(g[n - 1] + g[n - 2])
  <2>1. CASE n = 0
    BY <1>1, <2>1, FibRemainders
  <2>2. CASE n = 1
    BY <1>1, <2>2, FibRemainders
  <2>3. CASE n > 1
    <3> DEFINE m == n - 2
    <3>1. m \in Nat /\ m + 1 \in Nat /\ m + 2 = n /\ m + 1 = n - 1
      BY <2>3
    <3> HIDE DEF m
    <3>2. F[m + 2] % w = ((F[m + 1] % w) + (F[m] % w)) % w
      BY <1>1, <3>1, FibRemainders
    <3>3. g[n] = F[m + 2] % w /\ g[n - 1] = F[m + 1] % w /\ g[m] = F[m] % w
      BY <3>1
    <3>4. g[n] = Fib!Long(g[n - 1] + g[m])
      BY <1>2, <3>2, <3>3
    <3> QED BY <2>3, <3>4 DEF m
  <2> QED BY <2>1, <2>2, <2>3
<1>5. IsLongFib(g)
  <2>1. g = [n \in Nat |-> g[n]]
    OBVIOUS
  <2> HIDE DEF g
  <2> QED BY <1>4, <2>1 DEF IsLongFib
<1>6. IsLongFib(f)
  BY <1>5 DEF f
<1>7. \A n \in Nat : f[n] = g[n]
  <2> DEFINE Bad == {k \in Nat : f[k] # g[k]}
  <2>1. SUFFICES ASSUME Bad # {} PROVE FALSE
    OBVIOUS
  <2>2. PICK k \in Bad : \A j \in Bad : k <= j
    <3>1. Bad \subseteq Nat
      OBVIOUS
    <3> HIDE DEF Bad
    <3> QED BY <2>1, <3>1, LeastNumber
  <2> HIDE DEF g
  <2>3. /\ f[k] = IF k <= 1 THEN k ELSE Fib!Long(f[k - 1] + f[k - 2])
        /\ g[k] = IF k <= 1 THEN k ELSE Fib!Long(g[k - 1] + g[k - 2])
    BY <1>5, <1>6 DEF IsLongFib
  <2>4. ~(k <= 1) => /\ k - 1 \in Nat /\ ~(k <= k - 1)
                     /\ k - 2 \in Nat /\ ~(k <= k - 2)
    OBVIOUS
  <2>5. ~(k <= 1) => k - 1 \notin Bad /\ k - 2 \notin Bad
    <3> HIDE DEF Bad
    <3> QED BY <2>2, <2>4
  <2> QED BY <2>2, <2>3, <2>4, <2>5
<1> QED BY <1>3, <1>7 DEF w

-----------------------------------------------------------------------------
\* What is known of the widths, and the invariant of the generators: the list has the
\* remainders, the two locals are those that come next, and the client has the list.
FibInv ==
    /\ Fib!TypeOK
    /\ \A k \in 1..Len(list) : list[k] = F[k - 1] % Fib!Width
    /\ generator = "SetResponseStream" =>
         /\ smaller = F[Len(list)] % Fib!Width
         /\ larger = F[Len(list) + 1] % Fib!Width
    /\ \/ received = <<>>
       \/ /\ DOMAIN received = 1..Len(list) /\ Len(list) = limit
          /\ \A k \in 1..Len(list) : received[k] = F[k - 1] % Fib!Width

LEMMA FibWidths ==
  /\ Fib!Width \in Nat /\ Fib!Width > 1
  /\ generator # "getFibonacci" => Fib!Width = 2 ^ ShortBits
  /\ generator = "getFibonacci" => Fib!Width = 2 ^ LongBits
  /\ 0..Fib!Width - 1 \subseteq 0..(2 ^ LongBits) - 1
  /\ 2 ^ ShortBits \in Nat /\ 2 ^ ShortBits > 1 /\ 2 ^ LongBits \in Nat
<1> DEFINE s == 2 ^ ShortBits
           l == 2 ^ LongBits
<1>1. s \in Nat /\ s > 1 /\ l \in Nat /\ l > 1 /\ s <= l
  BY WidthsAssumption
<1>2. Fib!Width = IF generator = "getFibonacci" THEN l ELSE s
  BY DEF Fib!Width
<1> HIDE DEF s, l
<1>3. 0..Fib!Width - 1 \subseteq 0..l - 1
  BY <1>1, <1>2
<1> QED BY <1>1, <1>2, <1>3 DEF s, l

\* Nothing is generated at the start.
LEMMA FibInit == ASSUME Fib!Init PROVE FibInv
<1> DEFINE s == 2 ^ ShortBits
           l == 2 ^ LongBits
<1>1. limit \in Nat /\ s \in Nat /\ s > 1 /\ l \in Nat
  BY FibWidths, WidthsAssumption DEF Fib!Init
<1>2. {0, 1} \subseteq 0..s - 1
  BY <1>1
<1>3. <<>> \in Seq(0..l - 1) /\ Len(<<>>) = 0
  OBVIOUS
<1>4. Fib!TypeOK
  <2> HIDE DEF s, l
  <2>1. {smaller, larger} \subseteq 0..s - 1 /\ list \in Seq(0..l - 1)
        /\ received \in Seq(0..l - 1) /\ Len(list) <= limit /\ Len(received) <= limit
    BY <1>1, <1>2, <1>3 DEF Fib!Init
  <2> QED BY <2>1 DEF Fib!Init, Fib!TypeOK, s, l
<1>5. F[0] % Fib!Width = 0 /\ F[1] % Fib!Width = 1
  BY FibWidths, FibRemainders
<1> HIDE DEF F
<1> QED BY <1>3, <1>4, <1>5 DEF FibInv, Fib!Init

\* One more number.
LEMMA FibAppended ==
  ASSUME FibInv, Len(list) < limit,
         list' = Append(list, F[Len(list)] % Fib!Width),
         generator' = generator, limit' = limit, received' = received,
         {smaller, larger}' \subseteq 0..(2 ^ ShortBits) - 1,
         generator = "SetResponseStream" =>
           /\ smaller' = F[Len(list) + 1] % Fib!Width
           /\ larger' = F[Len(list) + 2] % Fib!Width
  PROVE  FibInv'
<1> DEFINE w == Fib!Width
           N == 0..(2 ^ LongBits) - 1
           n == Len(list)
           x == F[n] % w
<1>1. w' = w
  BY DEF Fib!Width
<1>2. /\ generator \in {"GenerateFibonacci", "SetResponseStream", "getFibonacci"}
      /\ limit \in Limits /\ limit \in Nat
      /\ list \in Seq(N) /\ n \in Nat
      /\ received \in Seq(N) /\ Len(received) <= limit
  BY WidthsAssumption DEF FibInv, Fib!TypeOK
<1>3. x \in N
  <2>1. w \in Nat /\ w > 1 /\ 0..w - 1 \subseteq N
    BY FibWidths
  <2> HIDE DEF w, N
  <2>2. x \in 0..w - 1
    BY <1>2, <2>1, FibRemainders
  <2> QED BY <2>1, <2>2
<1>4. received = <<>>
  BY DEF FibInv
<1>5. \A k \in 1..n : list[k] = F[k - 1] % w
  BY DEF FibInv
<1> HIDE DEF N
<1>6. list' = Append(list, x)
  OBVIOUS
<1> HIDE DEF x, w
<1>7. list' \in Seq(N) /\ Len(list') = n + 1
  BY <1>2, <1>3, <1>6
<1>8. \A k \in 1..n + 1 : list'[k] = IF k = n + 1 THEN x ELSE list[k]
  BY <1>2, <1>3, <1>6
<1>9. ASSUME NEW k \in 1..n + 1 PROVE list'[k] = F[k - 1] % w
  <2>1. CASE k = n + 1
    <3>1. k - 1 = n
      BY <1>2, <2>1
    <3> QED BY <1>8, <2>1, <3>1 DEF x
  <2>2. CASE k # n + 1
    <3>1. k \in 1..n
      BY <1>2, <2>2
    <3> QED BY <1>5, <1>8, <2>2, <3>1
  <2> QED BY <2>1, <2>2
<1>10. Fib!TypeOK'
  <2>1. n + 1 <= limit
    BY <1>2
  <2> QED BY <1>2, <1>7, <2>1 DEF Fib!TypeOK, N
<1>11. generator' = "SetResponseStream" =>
         /\ smaller' = F[Len(list')] % w'
         /\ larger' = F[Len(list') + 1] % w'
  <2>1. n + 1 + 1 = n + 2
    BY <1>2
  <2> QED BY <1>1, <1>7, <2>1 DEF w
<1>12. \A k \in 1..Len(list') : list'[k] = F[k - 1] % w'
  BY <1>1, <1>7, <1>9
<1> QED BY <1>4, <1>10, <1>11, <1>12 DEF FibInv, w

\* Every loop goes on with the next number, and clients store no other.
LEMMA FibStep ==
  ASSUME FibInv, [Fib!Next]_Fib!vars
  PROVE  FibInv'
<1> DEFINE w == Fib!Width
           s == 2 ^ ShortBits
           N == 0..(2 ^ LongBits) - 1
           n == Len(list)
<1>1. /\ generator \in {"GenerateFibonacci", "SetResponseStream", "getFibonacci"}
      /\ limit \in Limits /\ limit \in Nat
      /\ smaller \in 0..s - 1 /\ larger \in 0..s - 1
      /\ list \in Seq(N) /\ n \in Nat
      /\ received \in Seq(N) /\ Len(received) <= limit
  BY WidthsAssumption DEF FibInv, Fib!TypeOK
<1>2. /\ w \in Nat /\ w > 1 /\ s \in Nat /\ s > 1
      /\ generator # "getFibonacci" => w = s
      /\ generator = "getFibonacci" => w = 2 ^ LongBits
  BY FibWidths
<1>3. \A k \in 1..n : list[k] = F[k - 1] % w
  BY DEF FibInv
<1>4. \A x : Fib!Unsigned(x) = x % s
  BY DEF Fib!Unsigned
<1>5. ASSUME generator # "getFibonacci" PROVE w = s
  BY <1>2, <1>5
<1> HIDE DEF w, s
<1>6. /\ \A m \in Nat : F[m] % w \in 0..w - 1
      /\ F[0] % w = 0 /\ F[1] % w = 1
      /\ \A m \in Nat : F[m + 2] % w = ((F[m + 1] % w) + (F[m] % w)) % w
  BY <1>2, FibRemainders
<1>7. CASE Fib!GenerateFibonacci
  <2> DEFINE x == IF n < 2 THEN n ELSE Fib!Unsigned(list[n] + list[n - 1])
  <2>1. /\ generator = "GenerateFibonacci" /\ n < limit
        /\ list' = Append(list, x)
        /\ generator' = generator /\ limit' = limit /\ received' = received
        /\ smaller' = smaller /\ larger' = larger
    BY <1>7 DEF Fib!GenerateFibonacci, Fib!i
  <2> HIDE DEF n
  <2>2. x = F[n] % w
    <3>1. CASE n = 0
      BY <1>6, <3>1
    <3>2. CASE n = 1
      BY <1>6, <3>2
    <3>3. CASE n > 1
      <4> DEFINE m == n - 2
      <4>1. m \in Nat /\ m + 2 = n /\ n - 1 = m + 1 /\ n - 1 - 1 = m
            /\ n \in 1..n /\ n - 1 \in 1..n /\ ~(n < 2)
        BY <1>1, <3>3
      <4> HIDE DEF m
      <4>2. list[n] = F[m + 1] % w /\ list[n - 1] = F[m] % w
        BY <1>3, <4>1
      <4>3. x = (list[n] + list[n - 1]) % w
        BY <1>4, <1>5, <2>1, <4>1
      <4>4. F[m + 2] % w = ((F[m + 1] % w) + (F[m] % w)) % w
        BY <1>6, <4>1
      <4> QED BY <4>1, <4>2, <4>3, <4>4
    <3> QED BY <1>1, <3>1, <3>2, <3>3
  <2> HIDE DEF x
  <2>3. {smaller, larger}' \subseteq 0..s - 1
    BY <1>1, <2>1
  <2> QED BY <2>1, <2>2, <2>3, FibAppended DEF n, w, s
<1>8. CASE Fib!SetResponseStream
  <2>1. /\ generator = "SetResponseStream" /\ n < limit
        /\ list' = Append(list, smaller)
        /\ generator' = generator /\ limit' = limit /\ received' = received
        /\ smaller' = larger /\ larger' = Fib!Unsigned(smaller + larger)
    BY <1>8 DEF Fib!SetResponseStream, Fib!NextPair, Fib!i
  <2>2. smaller = F[n] % w /\ larger = F[n + 1] % w
    BY <2>1 DEF FibInv, w
  <2> HIDE DEF n
  <2>3. larger' = F[n + 2] % w
    <3>1. larger' = (smaller + larger) % w /\ smaller + larger = larger + smaller
      BY <1>1, <1>4, <1>5, <2>1
    <3>2. F[n + 2] % w = ((F[n + 1] % w) + (F[n] % w)) % w
      BY <1>1, <1>6
    <3> QED BY <2>2, <3>1, <3>2
  <2>4. larger' \in 0..s - 1
    <3>1. n + 2 \in Nat /\ w = s
      BY <1>1, <1>5, <2>1
    <3> QED BY <1>6, <2>3, <3>1
  <2>5. {smaller, larger}' \subseteq 0..s - 1
    BY <1>1, <2>1, <2>4
  <2> QED BY <2>1, <2>2, <2>3, <2>5, FibAppended DEF n, w, s
<1>9. CASE Fib!GetFibonacciList
  <2>1. /\ generator = "getFibonacci" /\ n < limit
        /\ list' = Append(list, Fib!getFibonacci[n])
        /\ generator' = generator /\ limit' = limit /\ received' = received
        /\ smaller' = smaller /\ larger' = larger
    BY <1>9 DEF Fib!GetFibonacciList, Fib!i
  <2> HIDE DEF n
  <2>2. Fib!getFibonacci[n] = F[n] % w
    BY <1>1, <1>2, <2>1, LongFib
  <2>3. {smaller, larger}' \subseteq 0..s - 1
    BY <1>1, <2>1
  <2> QED BY <2>1, <2>2, <2>3, FibAppended DEF n, w, s
<1>10. CASE Fib!Receive
  <2>1. /\ n = limit
        /\ received' = [k \in DOMAIN list |-> Fib!Stored(list[k])]
        /\ generator' = generator /\ limit' = limit /\ list' = list
        /\ smaller' = smaller /\ larger' = larger
    BY <1>10 DEF Fib!Receive, Fib!i
  <2>2. DOMAIN list = 1..n
    BY <1>1
  <2>3. \A x : Fib!Stored(x) = IF generator = "getFibonacci" THEN x ELSE Fib!Unsigned(x)
    BY DEF Fib!Stored
  <2> HIDE DEF N
  <2>4. \A k \in 1..n : list[k] \in N
    BY <1>1
  <2> HIDE DEF n
  <2>5. ASSUME NEW k \in 1..n PROVE Fib!Stored(list[k]) = list[k]
    <3>1. CASE generator = "getFibonacci"
      BY <2>3, <3>1
    <3>2. CASE generator # "getFibonacci"
      <4>1. k - 1 \in Nat
        BY <1>1
      <4>2. list[k] \in 0..s - 1
        BY <1>3, <1>5, <1>6, <3>2, <4>1
      <4>3. Fib!Stored(list[k]) = list[k] % s
        BY <1>4, <2>3, <3>2
      <4>4. s > 0
        BY <1>2
      <4> QED BY <1>2, <4>2, <4>3, <4>4, SmallRemainder
    <3> QED BY <3>1, <3>2
  <2>6. received' = [k \in 1..n |-> list[k]]
    BY <2>1, <2>2, <2>5
  <2>7. received' \in Seq(N) /\ Len(received') = n /\ DOMAIN received' = 1..n
    BY <1>1, <2>4, <2>6
  <2>8. \A k \in 1..n : received'[k] = F[k - 1] % w
    BY <1>3, <2>6
  <2>9. w' = w
    BY <2>1 DEF w, Fib!Width
  <2>10. Fib!TypeOK'
    BY <1>1, <2>1, <2>7 DEF Fib!TypeOK, N, n, s
  <2> QED BY <1>3, <2>1, <2>7, <2>8, <2>9, <2>10 DEF FibInv, w, n
<1>11. CASE UNCHANGED Fib!vars
  BY <1>11 DEF FibInv, Fib!vars, Fib!TypeOK, Fib!Width
<1> QED BY <1>7, <1>8, <1>9, <1>10, <1>11 DEF Fib!Next

\* So all numbers are those of Fib.
LEMMA FibModulo == ASSUME FibInv PROVE FibonacciModuloWidth
<1> DEFINE n == Len(list)
           w == Fib!Width
<1>1. n \in Nat /\ DOMAIN list = 1..n
  BY DEF FibInv, Fib!TypeOK
<1>2. Fib!Fib = [k \in 0..n |-> F[k]]
  BY <1>1, FibNumbers
<1>3. /\ \A k \in DOMAIN list : list[k] = F[k - 1] % w
      /\ \A k \in DOMAIN received : k \in 1..n /\ received[k] = F[k - 1] % w
  BY <1>1 DEF FibInv
<1> HIDE DEF n, w
<1>4. \A k \in 1..n : Fib!Fib[k - 1] = F[k - 1]
  <2>1. \A k \in 1..n : k - 1 \in 0..n
    BY <1>1
  <2> QED BY <1>2, <2>1
<1>5. \A v \in {list, received} : \A k \in DOMAIN v : v[k] = Fib!Fib[k - 1] % w
  BY <1>1, <1>3, <1>4
<1>6. Fib!FibonacciModuloWidth
  BY <1>5 DEF Fib!FibonacciModuloWidth, w
<1> QED BY <1>6 DEF FibInv, FibonacciModuloWidth

-----------------------------------------------------------------------------
(* All of them.                                                            *)

\* A step is one of its own program, and changes nothing of any other.
LEMMA StepsApart ==
  ASSUME [CallsNext]_all
  PROVE  /\ [Next]_vars
         /\ [Clients!Next]_Clients!vars
         /\ [Table!Next]_Table!vars
         /\ [Policy!Next]_Policy!vars
         /\ [Prompt!Next]_Prompt!vars
         /\ [Sum!Next]_Sum!vars
         /\ [Fib!Next]_Fib!vars
<1>1. /\ slow' = slow => vars' = vars
      /\ clientVars' = clientVars => Clients!vars' = Clients!vars
      /\ tableVars' = tableVars => Table!vars' = Table!vars
      /\ policyVars' = policyVars => Policy!vars' = Policy!vars
      /\ prompts' = prompts => Prompt!vars' = Prompt!vars
      /\ sumVars' = sumVars => Sum!vars' = Sum!vars
      /\ numberVars' = numberVars => Fib!vars' = Fib!vars
  <2>1. slow' = slow => vars' = vars
    BY DEF slow, vars, given, thread, server
  <2>2. clientVars' = clientVars => Clients!vars' = Clients!vars
    BY DEF clientVars, Clients!vars, Clients!clients
  <2>3. tableVars' = tableVars => Table!vars' = Table!vars
    BY DEF tableVars, Table!vars
  <2>4. policyVars' = policyVars => Policy!vars' = Policy!vars
    BY DEF policyVars, Policy!vars
  <2>5. prompts' = prompts => Prompt!vars' = Prompt!vars
    BY DEF prompts, Prompt!vars, Prompt!typed, Prompt!serverVars, Prompt!clientVars
  <2>6. numberVars' = numberVars => Fib!vars' = Fib!vars
    BY DEF numberVars, Fib!vars
  <2>7. sumVars' = sumVars => Sum!vars' = Sum!vars
    BY DEF sumVars, Sum!vars
  <2> QED BY <2>1, <2>2, <2>3, <2>4, <2>5, <2>6, <2>7
<1>2. CASE CallsNext
  BY <1>1, <1>2 DEF CallsNext, Slow, OfClients, OfTable, OfPolicy, OfConsole
<1>3. CASE UNCHANGED all
  BY <1>1, <1>3 DEF all
<1> QED BY <1>2, <1>3

\* The inductive invariant: that of every program.
CallsInv == /\ IInv /\ Clients!IInv /\ Table!IInv /\ Policy!IInv /\ Prompt!IInv
            /\ Sum!IInv /\ FibInv

\* All programs begin in their invariants.
LEMMA InitInv ==
  ASSUME CallsInit
  PROVE  CallsInv
BY ParametersHold, SlowInit, ClientsInit, TableInit, PolicyInit, PromptInit, SumInit,
   FibInit
   DEF CallsInit, CallsInv

\* Every step keeps the invariant of every program.
LEMMA StepInv ==
  ASSUME CallsInv, [CallsNext]_all
  PROVE  CallsInv'
<1> USE StepsApart DEF CallsInv
<1>1. IInv'
  BY SlowMainStep, SlowUserStep, SlowServerStep, SlowFault, SlowStutter DEF Next
<1>2. Clients!IInv'
  BY ClientsStep, ClientsRest DEF Clients!Next
<1>3. Table!IInv'
  BY ParametersHold, TableStep
<1>4. Policy!IInv'
  BY PolicyStep
<1>5. Prompt!IInv'
  BY PromptStep
<1>6. FibInv'
  BY FibStep
<1>7. Sum!IInv'
  BY SumStep
<1> QED BY <1>1, <1>2, <1>3, <1>4, <1>5, <1>6, <1>7

\* The programs stay consistent: every thread, every call and every lock, whatever is
\* typed, lost, cancelled or late.
THEOREM Invariance == CallsSpec => []CallsInv
<1>1. CallsInit => CallsInv
  BY InitInv
<1>2. CallsInv /\ [CallsNext]_all => CallsInv'
  BY StepInv
<1> QED BY <1>1, <1>2, PTL DEF CallsSpec

\* No part of a list passes for the list (24 client.cpp:68-83, server.cpp:25-42).
THEOREM WholeLists == CallsSpec => []ListIsWhole
<1>1. CallsInv => ListIsWhole
  BY DEF CallsInv, IInv
<1> QED BY Invariance, <1>1, PTL

\* The cancel thread uses no reactor that is gone (24 client.cpp:85-91, 154).
THEOREM CancelIsSafe == CallsSpec => []CancelsALiveCall
<1>1. CallsInv => CancelsALiveCall
  BY DEF CallsInv, IInv
<1> QED BY Invariance, <1>1, PTL

\* At most one element is computed for a call known to be dead, of a list of any
\* length (24 server.cpp:25-35).
THEOREM SoonAbandoned == CallsSpec => []AbandonsSoon
<1>1. CallsInv => AbandonsSoon
  BY DEF CallsInv, IInv
<1> QED BY Invariance, <1>1, PTL

\* Every process of 05 that ends has reported its call, as it went, and freed it, and
\* neither of its threads uses a call that was deleted, for any number of processes.
THEOREM EveryCallReported == CallsSpec => []ReportedAndFreed
<1>1. Clients!IInv => Clients!ReportedAndFreed
  BY DEF Clients!IInv, Clients!ReportedAndFreed, Clients!InStep, Clients!HandledOnce,
         Clients!ReportsItsCall, Clients!OneOwner, Clients!InCall, Clients!Printed, Clients!TypeOK
<1>2. CallsInv => ReportedAndFreed
  BY <1>1 DEF CallsInv, ReportedAndFreed
<1> QED BY Invariance, <1>2, PTL

\* The table of 23 has the product of every row and method, or is not there at all:
\* whatever the number of rows, the set of methods, the width of an int32_t, and the
\* order in which answers come, calls fail and threads end.
THEOREM WholeTable == CallsSpec => []TableIsWhole
<1>1. Table!IInv => Table!TableIsWhole
  BY DEF Table!IInv, Table!TableIsWhole, Table!RowsFollowMain, Table!AllRowsOrNone
<1>2. CallsInv => TableIsWhole
  BY <1>1 DEF CallsInv, TableIsWhole
<1> QED BY Invariance, <1>2, PTL

\* A call of 25 or 26 is executed at most as often as its policy says, whatever is lost
\* on the way, its sum is printed only if it was executed and answered, and a call that
\* waits for its server fails only once it had been sent.
THEOREM PolicyIsKept == CallsSpec => []PolicyKept
<1>1. Policy!IInv => Policy!PolicyKept
  BY AttemptsAssumption
     DEF Policy!IInv, Policy!PolicyKept, Policy!TypeOK, Policy!OneAttemptEach,
         Policy!Budget, Policy!ExecutedAtMost
<1>2. CallsInv => PolicyKept
  BY <1>1 DEF CallsInv, PolicyKept
<1> QED BY Invariance, <1>2, PTL

\* For every script that a user of 29 to 32 may type, commands take effect once each
\* and in their order: clients are told the health of the last s or r, and a client
\* ends with every call made that was asked for before q.
THEOREM EveryCommandCounts == CallsSpec => []CommandsTakeEffect
<1>1. CallsInv => CommandsTakeEffect
  BY DEF CallsInv, CommandsTakeEffect, Prompt!CommandsTakeEffect
<1> QED BY Invariance, <1>1, PTL

\* For every width of int and of float, and any operands: a sum that succeeds and that
\* int holds is printed as a float, none is nearer, and up to 2^FloatBits it is the sum
\* itself (01 server.cpp:34-35).
THEOREM NearestSum == CallsSpec => []NearestToTheSum
<1>1. CallsInv => NearestToTheSum
  BY SumIsNearest DEF CallsInv
<1> QED BY Invariance, <1>1, PTL

\* Whatever the widths and however many numbers are asked for, every generator of the
\* course computes the Fibonacci numbers modulo its width, and clients have those (02
\* server.cpp:29, 07 server.cpp:62, 24 server.cpp:14).
THEOREM NumbersModuloWidth == CallsSpec => []FibonacciModuloWidth
<1>1. CallsInv => FibonacciModuloWidth
  BY FibModulo DEF CallsInv
<1> QED BY Invariance, <1>1, PTL

\* Stop() of 29 to 32 waits for the calls that the server has accepted: whatever is
\* typed meanwhile, each is answered.
THEOREM StopWaits == CallsSpec => AcceptedCallsAreAnswered
<1>1. Prompt!IInv /\ [Prompt!Next]_Prompt!vars
        => [oCall = "accepted" => oCall' \in {"accepted", "ok"}]_Prompt!vars
  <2> SUFFICES ASSUME Prompt!IInv, [Prompt!Next]_Prompt!vars, oCall = "accepted"
               PROVE  oCall' \in {"accepted", "ok"}
    OBVIOUS
  <2>1. oClient = "calling" /\ oServer # "exited"
    BY DEF Prompt!IInv, Prompt!ClientInStep, Prompt!ServerInStep
  <2> QED BY <2>1
             DEF Prompt!vars, Prompt!Next, Prompt!ServerStep, Prompt!ClientStep,
                 Prompt!CallStep, Prompt!Start, Prompt!StartFails,
                 Prompt!NoCertificates, Prompt!ServerCommand, Prompt!Stop, Prompt!Stopped, Prompt!Exit,
                 Prompt!Connect, Prompt!NoClientCertificates, Prompt!ClientCommand, Prompt!HealthCheck, Prompt!Await,
                 Prompt!Accepted, Prompt!Refused, Prompt!ComputeSum
<1>2. CallsInv /\ [CallsNext]_all
        => [oCall = "accepted" => oCall' \in {"accepted", "ok"}]_Prompt!vars
  BY <1>1, StepsApart DEF CallsInv
<1> QED BY Invariance, <1>2, PTL
           DEF CallsSpec, AcceptedCallsAreAnswered, Prompt!AcceptedCallsAreAnswered
=============================================================================
