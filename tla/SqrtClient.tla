----------------------------- MODULE SqrtClient -----------------------------
(***************************************************************************)
(* The client of 20-errors: main() sends every argument through two        *)
(* clients, SqrtClientWithReactor (a new SqrtReactor per call) and         *)
(* SqrtClientWithCallback (one object whose done and status are used again *)
(* by every call).  Both hand the status of a call from a thread of gRPC   *)
(* to the main thread with a mutex, a condition variable and a flag; the   *)
(* same handshake ends the calls of 06 to 09, 22 to 25 and 27 to 32.       *)
(*                                                                         *)
(* Every statement between which the other thread may run is an action.    *)
(* cv.wait releases the mutex and starts to wait in one step; it may wake  *)
(* up without a notification.  A call is named <<n, o>>: argument n        *)
(* through the client o; it also names its own status.                     *)
(*                                                                         *)
(* An operator named Action_Defect is that action with a plausible defect. *)
(***************************************************************************)
EXTENDS Naturals, Sequences

CONSTANTS Arguments  \* the command lines: sequences of "good", "negative", "junk"

ASSUME ArgumentsAssumption == Arguments \subseteq Seq({"good", "negative", "junk"})

VARIABLES
    args,     \* argv
    i,        \* the argument main() works on
    client,   \* the client it uses
    pc,       \* where main() is
    printed,  \* [Calls -> the call whose status main() has printed]
    done,     \* [Clients -> done]
    status,   \* [Clients -> the call whose status is stored]
    mtx,      \* [Clients -> the owner of mtx]
    cv,       \* [Clients -> does main() wait: "no", "waiting", "notified"]
    thread,   \* [Calls -> where the callback of the call is]
    answer    \* [Calls -> the code the call ended with]

objects == <<done, status, mtx, cv>>
calls   == <<thread, answer>>
vars    == <<args, i, client, pc, printed, objects, calls>>

Clients == {"reactor", "callback"}
Calls   == (1..Len(args)) \X Clients
Indices == UNION {1..Len(a) : a \in Arguments}
This    == <<i, client>>
None    == <<0, "none">>

Locations == {"loop", "reset", "start", "lock", "test", "wait", "read",
              "unlock", "leave", "exit"}
Inside    == {"locked", "stored", "set", "notified"}
Codes     == {"OK", "INVALID_ARGUMENT", "UNAVAILABLE"}

TypeOK == /\ args \in Arguments
          /\ i \in 1..Len(args) + 1
          /\ client \in Clients
          /\ pc \in Locations
          /\ printed \in [Calls -> Calls \cup {None}]
          /\ done \in [Clients -> BOOLEAN]
          /\ status \in [Clients -> Calls \cup {None}]
          /\ mtx \in [Clients -> {"free", "main", "callback"}]
          /\ cv \in [Clients -> {"no", "waiting", "notified"}]
          /\ thread \in [Calls -> {"none", "running", "answered", "ended"} \cup Inside]
          /\ answer \in [Calls -> Codes \cup {"none"}]

Init == /\ args \in Arguments
        /\ i = 1
        /\ client = "reactor"
        /\ pc = "loop"
        /\ printed = [k \in Calls |-> None]
        /\ done \in [Clients -> BOOLEAN]      \* not initialised
        /\ status = [o \in Clients |-> None]
        /\ mtx = [o \in Clients |-> "free"]
        /\ cv = [o \in Clients |-> "no"]
        /\ thread = [k \in Calls |-> "none"]
        /\ answer = [k \in Calls |-> "none"]

-----------------------------------------------------------------------------
(* The main thread.                                                        *)

Goto(from, to) == pc = from /\ pc' = to

\* An argument that std::stoi refuses is skipped.
Skip == /\ pc = "loop" /\ i <= Len(args) /\ args[i] = "junk"
        /\ i' = i + 1
        /\ UNCHANGED <<args, client, pc, printed, objects, calls>>

Parse == /\ i <= Len(args) /\ args[i] # "junk"
         /\ Goto("loop", "reset")
         /\ client' = "reactor"
         /\ UNCHANGED <<args, i, printed, objects, calls>>

Return == /\ i > Len(args)
          /\ Goto("loop", "exit")
          /\ UNCHANGED <<args, i, client, printed, objects, calls>>

\* SqrtReactor's members.
Construct == /\ client = "reactor"
             /\ Goto("reset", "start")
             /\ done' = [done EXCEPT !["reactor"] = FALSE]
             /\ status' = [status EXCEPT !["reactor"] = None]
             /\ UNCHANGED <<args, i, client, printed, mtx, cv, calls>>

\* Defect: the flag of the previous call is kept.
Reset_Kept == /\ client = "callback"
              /\ Goto("reset", "start")
              /\ UNCHANGED <<args, i, client, printed, objects, calls>>

\* this->done = false, without the mutex.
Reset == /\ client = "callback"
         /\ Goto("reset", "start")
         /\ done' = [done EXCEPT !["callback"] = FALSE]
         /\ UNCHANGED <<args, i, client, printed, status, mtx, cv, calls>>

\* StartCall(), or async()->Calculate with the callback.
Start == /\ Goto("start", "lock")
         /\ thread' = [thread EXCEPT ![This] = "running"]
         /\ UNCHANGED <<args, i, client, printed, objects, answer>>

Lock == /\ mtx[client] = "free"
        /\ Goto("lock", "test")
        /\ mtx' = [mtx EXCEPT ![client] = "main"]
        /\ UNCHANGED <<args, i, client, printed, done, status, cv, calls>>

\* The predicate of cv.wait.
Test == \/ /\ done[client]
           /\ Goto("test", "read")
           /\ UNCHANGED <<args, i, client, printed, objects, calls>>
        \/ /\ ~done[client]
           /\ Goto("test", "wait")
           /\ mtx' = [mtx EXCEPT ![client] = "free"]
           /\ cv' = [cv EXCEPT ![client] = "waiting"]
           /\ UNCHANGED <<args, i, client, printed, done, status, calls>>

\* The end of a wait, notified or not: the mutex is taken again.
Wake(reason) == /\ cv[client] = reason
                /\ Goto("wait", "lock")
                /\ cv' = [cv EXCEPT ![client] = "no"]
                /\ UNCHANGED <<args, i, client, printed, done, status, mtx, calls>>

\* Await returns a copy of the status; Calculate reads it under the mutex.
Read == /\ Goto("read", "unlock")
        /\ printed' = [printed EXCEPT ![This] = status[client]]
        /\ UNCHANGED <<args, i, client, objects, calls>>

\* ~unique_lock.
Unlock == /\ Goto("unlock", "leave")
          /\ mtx' = [mtx EXCEPT ![client] = "free"]
          /\ UNCHANGED <<args, i, client, printed, done, status, cv, calls>>

\* Calculate returns or throws: the reactor, or context and response, are gone.
Leave == \/ /\ client = "reactor"
            /\ Goto("leave", "reset")
            /\ client' = "callback"
            /\ UNCHANGED <<args, i, printed, objects, calls>>
         \/ /\ client = "callback"
            /\ Goto("leave", "loop")
            /\ i' = i + 1
            /\ UNCHANGED <<args, client, printed, objects, calls>>

-----------------------------------------------------------------------------
(* The call <<n, o>> and its callback, OnDone or CalculateDone, in a       *)
(* thread of gRPC.                                                         *)

\* What the server's reactor answers (server.cpp).
Calculate(argument) == IF argument = "negative" THEN "INVALID_ARGUMENT" ELSE "OK"

Step(k, from, to) == thread[k] = from /\ thread' = [thread EXCEPT ![k] = to]

\* The answer arrives, or the call fails for want of a server (external).
Complete(k) == /\ Step(k, "running", "answered")
               /\ \E code \in {Calculate(args[k[1]]), "UNAVAILABLE"} :
                    answer' = [answer EXCEPT ![k] = code]
               /\ UNCHANGED <<args, i, client, pc, printed, objects>>

DoneLocks(k) == /\ mtx[k[2]] = "free"
                /\ Step(k, "answered", "locked")
                /\ mtx' = [mtx EXCEPT ![k[2]] = "callback"]
                /\ UNCHANGED <<args, i, client, pc, printed, done, status, cv, answer>>

SetStatus(k) == /\ Step(k, "locked", "stored")
                /\ status' = [status EXCEPT ![k[2]] = k]
                /\ UNCHANGED <<args, i, client, pc, printed, done, mtx, cv, answer>>

\* Defect: the mutex is released before the notification.
SetDone_Unlocks(k) == /\ Step(k, "stored", "set")
                      /\ done' = [done EXCEPT ![k[2]] = TRUE]
                      /\ mtx' = [mtx EXCEPT ![k[2]] = "free"]
                      /\ UNCHANGED <<args, i, client, pc, printed, status, cv, answer>>

SetDone(k) == /\ Step(k, "stored", "set")
              /\ done' = [done EXCEPT ![k[2]] = TRUE]
              /\ UNCHANGED <<args, i, client, pc, printed, status, mtx, cv, answer>>

\* Defect: the waiting thread is not notified.
Notify_Forgotten(k) == /\ Step(k, "set", "notified")
                       /\ UNCHANGED <<args, i, client, pc, printed, objects, answer>>

Notify(k) == /\ Step(k, "set", "notified")
             /\ cv' = [cv EXCEPT ![k[2]] = IF @ = "waiting" THEN "notified" ELSE @]
             /\ UNCHANGED <<args, i, client, pc, printed, done, status, mtx, answer>>

DoneUnlocks(k) == /\ Step(k, "notified", "ended")
                  /\ mtx' = [mtx EXCEPT ![k[2]] = "free"]
                  /\ UNCHANGED <<args, i, client, pc, printed, done, status, cv, answer>>

-----------------------------------------------------------------------------
Main == \/ Skip \/ Parse \/ Return \/ Construct \/ Reset \/ Start \/ Lock \/ Test
        \/ Wake("notified") \/ Read \/ Unlock \/ Leave

Callback(k) == SetStatus(k) \/ SetDone(k) \/ Notify(k) \/ DoneUnlocks(k)

Next == \/ Main \/ Wake("waiting")
        \/ \E k \in Calls : Complete(k) \/ DoneLocks(k) \/ Callback(k)

Spec == Init /\ [][Next]_vars

(* Threads run, calls end; a thread that tries gets the mutex although the *)
(* other may take it, by spurious wakeups, again and again.                *)
Fairness == /\ WF_vars(Main) /\ SF_vars(Lock)
            /\ \A n \in Indices, o \in Clients :
                 LET k == <<n, o>> IN
                 /\ WF_vars(k \in Calls /\ Complete(k))
                 /\ SF_vars(k \in Calls /\ DoneLocks(k))
                 /\ WF_vars(k \in Calls /\ Callback(k))

FairSpec == Spec /\ Fairness

-----------------------------------------------------------------------------
(* Properties.                                                             *)

\* Each call reports its own status: never that of an earlier call that used
\* the same members (sqrt-callback.hpp:20, 27-35), and never before its own
\* callback stored it, however often the wait wakes up spuriously.
OwnStatus ==
    \A k \in Calls : /\ printed[k] # None => printed[k] = k
                     /\ printed[k] # None => answer[k] # "none"

\* Calculate returns only when its callback has left the mutex
\* (sqrt-reactor.hpp:20-23, sqrt-callback.hpp:40-43): the reactor, the mutex
\* and the condition variable are not destroyed, and done not written without
\* the mutex by the next call, under the callback's hands.
ReturnsAfterCallback ==
    /\ pc \in {"read", "unlock", "leave"} => thread[This] = "ended"
    /\ \A k \in Calls : thread[k] \in {"running", "answered"} \cup Inside => k = This

\* What makes them inductive.  A callback under way is that of the call main() is
\* in, and holds the mutex while it is inside; done is false when a call starts,
\* and true only after the call's own status is stored.
InCall   == pc \notin {"loop", "exit"}
Waiting  == {"lock", "test", "wait"}
Stored   == {"stored", "set", "notified", "ended"}
Signaled == {"set", "notified", "ended"}

Consistent ==
    /\ InCall => i <= Len(args)
    /\ \A o \in Clients : (mtx[o] = "main") <=> (o = client /\ pc \in {"test", "read", "unlock"})
    /\ \A k \in Calls :
         /\ thread[k] \in {"running", "answered"} \cup Inside => k = This /\ pc \in Waiting
         /\ thread[k] \in Inside => mtx[k[2]] = "callback"
         /\ thread[k] \in {"answered", "ended"} \cup Inside => answer[k] # "none"
    /\ pc = "start" => ~done[client]
    /\ pc \in Waiting /\ done[client] => thread[This] \in Signaled
    /\ pc \in Waiting \cup {"read"} /\ thread[This] \in Stored => status[client] = This
    /\ pc \in {"read", "unlock", "leave"} => thread[This] = "ended"

\* The inductive invariant of SqrtClient_proofs.
IInv == TypeOK /\ Consistent /\ OwnStatus /\ ReturnsAfterCallback

\* An argument that is refused by stoi or by the server, or a failed call, does
\* not keep the following arguments from being sent (client.cpp:34-65).
EveryArgumentReported ==
    <>(/\ pc = "exit"
       /\ \A k \in Calls : args[k[1]] # "junk" => printed[k] = k)
=============================================================================
