--------------------------- MODULE AsyncSumServer ---------------------------
(***************************************************************************)
(* The completion-queue server of 05-sum-async/src/server.cpp: CallData    *)
(* objects that walk through CREATE, PROCESS and FINISH, the threads that  *)
(* run HandleRpcs over one ServerCompletionQueue, and the shutdown that    *)
(* ~SumServiceImpl performs once HandleRpcs has returned.                  *)
(*                                                                         *)
(* main() runs one HandleRpcs thread; the comment above HandleRpcs says    *)
(* that it "can be run in multiple threads if needed", hence Handlers.     *)
(* Every C++ statement whose order matters to another thread is an action  *)
(* of its own.  The 3 s sleep of PROCESS is the point between Compute and  *)
(* SetFinish where anything else may happen.                               *)
(*                                                                         *)
(* The gRPC runtime is external.  RequestComputeSum(tag) waits for a call  *)
(* and then queues the tag with ok.  Finish(tag) queues it with ok when    *)
(* the answer goes to the wire, and without ok when the server has learnt  *)
(* that the call is dead.  Shutdown() queues every waiting tag without ok  *)
(* and blocks until no accepted call is unresolved.  cq stands for the two *)
(* sets succeeded and aborted: events may be taken in any order.           *)
(*                                                                         *)
(* Each call stands for its own operands: request[d] = c says that d holds *)
(* the operands of c, response[d] = c that it holds their sum.             *)
(*                                                                         *)
(* An operator named Action_Defect is that action with a plausible defect; *)
(* Next does not use it.                                                   *)
(***************************************************************************)
EXTENDS Naturals, FiniteSets

CONSTANTS Calls,        \* the RPCs clients may start, one per client process
          Cancellable,  \* the calls whose client may die or give up
          Handlers,     \* the threads that run HandleRpcs
          Addresses,    \* the heap addresses CallData objects can have
          None          \* null pointer, no call

ASSUME CancellableAssumption == Cancellable \subseteq Calls
ASSUME NoneAssumption == None \notin Calls \cup Addresses

VARIABLES
    rpc,        \* [Calls -> state of the RPC]
    reply,      \* [Calls -> the answer its client received]
    heap,       \* the addresses of the live CallData objects
    status,     \* CallData::status
    request,    \* CallData::request (and ctx): the call it was matched with
    response,   \* CallData::response
    requested,  \* tags of the pending RequestComputeSum operations
    finishing,  \* tags of the pending Finish operations
    succeeded,  \* tags of the events with ok = true on the completion queue
    aborted,    \* tags of the events with ok = false on the completion queue
    pc,         \* [Handlers -> where the thread is]
    this,       \* [Handlers -> the object whose Proceed() the thread runs]
    fresh,      \* [Handlers -> the object the thread is constructing]
    server      \* SumServiceImpl::server: "none", "running", "draining", "gone"

client  == <<rpc, reply>>
objects == <<heap, status, request, response>>
runtime == <<requested, finishing, succeeded, aborted>>
threads == <<pc, this, fresh>>
vars    == <<client, objects, runtime, threads, server>>

Statuses == {"CREATE", "PROCESS", "FINISH"}

RpcStates == {"idle", "sent", "matched", "answered", "cancelled", "failed"}

Locations == {"start", "enter", "create", "request", "next", "proceed",
              "compute", "sleep", "finish", "left"}

TypeOK == /\ rpc \in [Calls -> RpcStates]
          /\ reply \in [Calls -> Calls \cup {None}]
          /\ heap \subseteq Addresses
          /\ status \in [Addresses -> Statuses]
          /\ request \in [Addresses -> Calls \cup {None}]
          /\ response \in [Addresses -> Calls \cup {None}]
          /\ requested \subseteq Addresses
          /\ finishing \subseteq Addresses
          /\ succeeded \subseteq Addresses
          /\ aborted \subseteq Addresses
          /\ pc \in [Handlers -> Locations]
          /\ this \in [Handlers -> Addresses \cup {None}]
          /\ fresh \in [Handlers -> Addresses \cup {None}]
          /\ server \in {"none", "running", "draining", "gone"}

Init == /\ rpc = [c \in Calls |-> "idle"]
        /\ reply = [c \in Calls |-> None]
        /\ heap = {}
        /\ status = [d \in Addresses |-> "CREATE"]
        /\ request = [d \in Addresses |-> None]
        /\ response = [d \in Addresses |-> None]
        /\ requested = {}
        /\ finishing = {}
        /\ succeeded = {}
        /\ aborted = {}
        /\ pc = [h \in Handlers |-> "start"]
        /\ this = [h \in Handlers |-> None]
        /\ fresh = [h \in Handlers |-> None]
        /\ server = "none"

-----------------------------------------------------------------------------
(* The clients and the network (external).                                 *)

\* A client starts its RPC; when no server listens the RPC fails.
StartCall(c) ==
    /\ rpc[c] = "idle"
    /\ rpc' = [rpc EXCEPT ![c] = IF server = "running" THEN "sent" ELSE "failed"]
    /\ UNCHANGED <<reply, objects, runtime, threads, server>>

\* The client process dies, or its connection is lost, before the answer.
Cancel(c) ==
    /\ c \in Cancellable
    /\ rpc[c] \in {"sent", "matched"}
    /\ rpc' = [rpc EXCEPT ![c] = "cancelled"]
    /\ UNCHANGED <<reply, objects, runtime, threads, server>>

\* A call that no RequestComputeSum took before the shutdown is refused.
Refuse(c) ==
    /\ rpc[c] = "sent"
    /\ server # "running"
    /\ rpc' = [rpc EXCEPT ![c] = "failed"]
    /\ UNCHANGED <<reply, objects, runtime, threads, server>>

-----------------------------------------------------------------------------
(* The gRPC runtime (external).                                            *)

\* A call arrives for a waiting RequestComputeSum: the runtime fills in the
\* object's ctx and request and reports its tag.
MatchCall(c, d) ==
    /\ server = "running"
    /\ rpc[c] = "sent"
    /\ d \in requested
    /\ rpc' = [rpc EXCEPT ![c] = "matched"]
    /\ request' = [request EXCEPT ![d] = c]
    /\ requested' = requested \ {d}
    /\ succeeded' = succeeded \cup {d}
    /\ UNCHANGED <<reply, heap, status, response, finishing, aborted, threads,
                   server>>

\* A Finish completes: the client has its answer, or the client is gone, which
\* the server may not have noticed yet.
CompleteFinish(d) ==
    /\ d \in finishing
    /\ finishing' = finishing \ {d}
    /\ LET c == request[d]
       IN  \/ /\ rpc[c] = "matched"
              /\ rpc' = [rpc EXCEPT ![c] = "answered"]
              /\ reply' = [reply EXCEPT ![c] = response[d]]
              /\ succeeded' = succeeded \cup {d}
              /\ UNCHANGED aborted
           \/ /\ rpc[c] # "matched"
              /\ \/ aborted' = aborted \cup {d} /\ UNCHANGED succeeded
                 \/ succeeded' = succeeded \cup {d} /\ UNCHANGED aborted
              /\ UNCHANGED client
    /\ UNCHANGED <<objects, requested, threads, server>>

\* Shutdown() gives a waiting RequestComputeSum back.
FlushRequest(d) ==
    /\ server = "draining"
    /\ d \in requested
    /\ requested' = requested \ {d}
    /\ aborted' = aborted \cup {d}
    /\ UNCHANGED <<client, objects, finishing, succeeded, threads, server>>

-----------------------------------------------------------------------------
(* SumServiceImpl and CallData.                                            *)

\* Start(): build the server and enter HandleRpcs.  When the port cannot be
\* bound BuildAndStart returns null and HandleRpcs returns at once.
Start ==
    /\ server = "none"
    /\ \A h \in Handlers : pc[h] = "start"
    /\ \/ /\ server' = "running"
          /\ pc' = [h \in Handlers |-> "enter"]
       \/ /\ server' = "none"
          /\ pc' = [h \in Handlers |-> "left"]
    /\ UNCHANGED <<client, objects, runtime, this, fresh>>

\* new CallData(service, cq): a fresh object in CREATE, whose constructor
\* calls Proceed().
Construct(h, d) ==
    /\ d \notin heap
    /\ heap' = heap \cup {d}
    /\ status' = [status EXCEPT ![d] = "CREATE"]
    /\ request' = [request EXCEPT ![d] = None]
    /\ response' = [response EXCEPT ![d] = None]
    /\ fresh' = [fresh EXCEPT ![h] = d]
    /\ pc' = [pc EXCEPT ![h] = "create"]
    /\ UNCHANGED <<client, runtime, this, server>>

\* HandleRpcs: the first CallData of the thread.
EnterLoop(h, d) ==
    /\ pc[h] = "enter"
    /\ Construct(h, d)

\* Defect: the same object is armed again instead of a new one.
Spawn_Rearms(h, d) ==
    /\ pc[h] = "proceed"
    /\ status[this[h]] = "PROCESS"
    /\ d = this[h]
    /\ status' = [status EXCEPT ![d] = "CREATE"]
    /\ fresh' = [fresh EXCEPT ![h] = d]
    /\ pc' = [pc EXCEPT ![h] = "create"]
    /\ UNCHANGED <<client, heap, request, response, runtime, this, server>>

\* Defect: no object is created for the next client.
Spawn_Skipped(h, d) ==
    /\ pc[h] = "proceed"
    /\ status[this[h]] = "PROCESS"
    /\ pc' = [pc EXCEPT ![h] = "compute"]
    /\ UNCHANGED <<client, objects, runtime, this, fresh, server>>

\* Proceed() in PROCESS: the CallData that will serve the next client.
Spawn(h, d) ==
    /\ pc[h] = "proceed"
    /\ status[this[h]] = "PROCESS"
    /\ Construct(h, d)

\* Proceed() in CREATE, first statement.
ProceedCreate(h) ==
    /\ pc[h] = "create"
    /\ status[fresh[h]] = "CREATE"
    /\ status' = [status EXCEPT ![fresh[h]] = "PROCESS"]
    /\ pc' = [pc EXCEPT ![h] = "request"]
    /\ UNCHANGED <<client, heap, request, response, runtime, this, fresh, server>>

\* Proceed() in CREATE, second statement: the constructor then returns to
\* HandleRpcs or to the Proceed() that spawned the object.
RequestComputeSum(h) ==
    /\ pc[h] = "request"
    /\ requested' = requested \cup {fresh[h]}
    /\ fresh' = [fresh EXCEPT ![h] = None]
    /\ pc' = [pc EXCEPT ![h] = IF this[h] = None THEN "next" ELSE "compute"]
    /\ UNCHANGED <<client, objects, finishing, succeeded, aborted, this, server>>

\* cq->Next returns an event with ok: Proceed() on the tagged object.
HandleEvent(h, d) ==
    /\ pc[h] = "next"
    /\ d \in succeeded
    /\ succeeded' = succeeded \ {d}
    /\ this' = [this EXCEPT ![h] = d]
    /\ pc' = [pc EXCEPT ![h] = "proceed"]
    /\ UNCHANGED <<client, objects, requested, finishing, aborted, fresh, server>>

\* Defect: the test of ok is inverted.
LeaveLoop_OnOk(h, d) ==
    /\ pc[h] = "next"
    /\ d \in succeeded
    /\ succeeded' = succeeded \ {d}
    /\ pc' = [pc EXCEPT ![h] = "left"]
    /\ UNCHANGED <<client, objects, requested, finishing, aborted, this, fresh,
                   server>>

\* cq->Next returns an event without ok: break.
LeaveLoop(h, d) ==
    /\ pc[h] = "next"
    /\ d \in aborted
    /\ aborted' = aborted \ {d}
    /\ pc' = [pc EXCEPT ![h] = "left"]
    /\ UNCHANGED <<client, objects, requested, finishing, succeeded, this, fresh,
                   server>>

\* Defect: set_result is forgotten.
Compute_NoResult(h) ==
    /\ pc[h] = "compute"
    /\ pc' = [pc EXCEPT ![h] = "sleep"]
    /\ UNCHANGED <<client, objects, runtime, this, fresh, server>>

\* Proceed() in PROCESS: set_result, then the sleep begins.
Compute(h) ==
    /\ pc[h] = "compute"
    /\ response' = [response EXCEPT ![this[h]] = request[this[h]]]
    /\ pc' = [pc EXCEPT ![h] = "sleep"]
    /\ UNCHANGED <<client, heap, status, request, runtime, this, fresh, server>>

\* Defect: the object stays in PROCESS.
SetFinish_KeepsStatus(h) ==
    /\ pc[h] = "sleep"
    /\ pc' = [pc EXCEPT ![h] = "finish"]
    /\ UNCHANGED <<client, objects, runtime, this, fresh, server>>

\* Proceed() in PROCESS: the sleep ends, status = FINISH.
SetFinish(h) ==
    /\ pc[h] = "sleep"
    /\ status' = [status EXCEPT ![this[h]] = "FINISH"]
    /\ pc' = [pc EXCEPT ![h] = "finish"]
    /\ UNCHANGED <<client, heap, request, response, runtime, this, fresh, server>>

\* Defect: the object is deleted before its tag comes back.
Finish_Deletes(h) ==
    /\ pc[h] = "finish"
    /\ heap' = heap \ {this[h]}
    /\ finishing' = finishing \cup {this[h]}
    /\ this' = [this EXCEPT ![h] = None]
    /\ pc' = [pc EXCEPT ![h] = "next"]
    /\ UNCHANGED <<client, status, request, response, requested, succeeded,
                   aborted, fresh, server>>

\* Proceed() in PROCESS: stream.Finish, back to cq->Next.
Finish(h) ==
    /\ pc[h] = "finish"
    /\ finishing' = finishing \cup {this[h]}
    /\ this' = [this EXCEPT ![h] = None]
    /\ pc' = [pc EXCEPT ![h] = "next"]
    /\ UNCHANGED <<client, objects, requested, succeeded, aborted, fresh, server>>

\* Defect: "delete this" is forgotten.
Delete_Forgotten(h) ==
    /\ pc[h] = "proceed"
    /\ status[this[h]] = "FINISH"
    /\ this' = [this EXCEPT ![h] = None]
    /\ pc' = [pc EXCEPT ![h] = "next"]
    /\ UNCHANGED <<client, objects, runtime, fresh, server>>

\* Proceed() in FINISH: delete this.
Delete(h) ==
    /\ pc[h] = "proceed"
    /\ status[this[h]] = "FINISH"
    /\ heap' = heap \ {this[h]}
    /\ this' = [this EXCEPT ![h] = None]
    /\ pc' = [pc EXCEPT ![h] = "next"]
    /\ UNCHANGED <<client, status, request, response, runtime, fresh, server>>

\* ~SumServiceImpl runs Stop() when HandleRpcs is over.
Stop ==
    /\ \A h \in Handlers : pc[h] = "left"
    /\ \/ server = "running" /\ server' = "draining"
       \/ server = "none" /\ server' = "gone"
    /\ UNCHANGED <<client, objects, runtime, threads>>

\* server->Shutdown() returns, cq->Shutdown() is called and the process ends.
ShutdownReturns ==
    /\ server = "draining"
    /\ requested = {}
    /\ \A c \in Calls : rpc[c] # "matched"
    /\ server' = "gone"
    /\ UNCHANGED <<client, objects, runtime, threads>>

-----------------------------------------------------------------------------
HandlerStep(h) ==
    \/ \E d \in Addresses : \/ EnterLoop(h, d) \/ Spawn(h, d)
                            \/ HandleEvent(h, d) \/ LeaveLoop(h, d)
    \/ ProceedCreate(h)
    \/ RequestComputeSum(h)
    \/ Compute(h)
    \/ SetFinish(h)
    \/ Finish(h)
    \/ Delete(h)

Match == \E c \in Calls, d \in Addresses : MatchCall(c, d)

Next == \/ \E c \in Calls : StartCall(c) \/ Cancel(c) \/ Refuse(c)
        \/ Match
        \/ \E d \in Addresses : CompleteFinish(d) \/ FlushRequest(d)
        \/ \E h \in Handlers : HandlerStep(h)
        \/ Start
        \/ Stop
        \/ ShutdownReturns

Spec == Init /\ [][Next]_vars

(* Threads that are not blocked run, and the runtime delivers what it owes; *)
(* clients start and abandon calls when they like.                         *)
Fairness == /\ \A h \in Handlers : WF_vars(HandlerStep(h))
            /\ WF_vars(Match)
            /\ \A c \in Calls : WF_vars(Refuse(c))
            /\ \A d \in Addresses : /\ WF_vars(CompleteFinish(d))
                                    /\ WF_vars(FlushRequest(d))
            /\ WF_vars(Start) /\ WF_vars(Stop) /\ WF_vars(ShutdownReturns)

FairSpec == Spec /\ Fairness

-----------------------------------------------------------------------------
(* Who may touch an object next.                                           *)

Queued == succeeded \cup aborted
HeldBy(h, d) == d = this[h] \/ d = fresh[h]
Owned(d) == \/ d \in requested \cup finishing \cup Queued
            \/ \E h \in Handlers : HeldBy(h, d)

\* A live object has a single owner: one pending operation, one queued event
\* or one thread.  Two owners are two threads in Proceed() on the same object
\* (server.cpp:22-53 takes no lock), the claim of the comment on line 113.
SingleOwner ==
    /\ \A d \in requested : d \notin finishing \cup Queued
    /\ \A d \in finishing : d \notin Queued
    /\ \A d \in succeeded : d \notin aborted
    /\ \A h \in Handlers : \A d \in {this[h], fresh[h]} \ {None} :
         /\ d \notin requested \cup finishing \cup Queued
         /\ \A g \in Handlers \ {h} : ~HeldBy(g, d)
    /\ \A h \in Handlers : this[h] # None => this[h] # fresh[h]

\* No tag the runtime will report, and no object a thread is in, has been
\* deleted: "delete this" (server.cpp:51) is reached by the last user only.
NoUseAfterFree ==
    /\ requested \cup finishing \cup Queued \subseteq heap
    /\ \A h \in Handlers : {this[h], fresh[h]} \ {None} \subseteq heap

\* Proceed() is entered from the loop in PROCESS or in FINISH only, and every
\* further statement runs in the status the branch assumes; in particular the
\* CHECK_EQ of server.cpp:49 cannot fire, whatever another thread does.
StatusFollowsControl ==
    /\ \A d \in requested : status[d] = "PROCESS"
    /\ \A d \in finishing : status[d] = "FINISH"
    /\ \A d \in succeeded : status[d] # "CREATE"
    /\ \A h \in Handlers :
         /\ pc[h] = "proceed" => status[this[h]] # "CREATE"
         /\ pc[h] \in {"compute", "sleep"} => status[this[h]] = "PROCESS"
         /\ pc[h] = "finish" => status[this[h]] = "FINISH"
         /\ pc[h] = "create" => status[fresh[h]] = "CREATE"
         /\ pc[h] = "request" => status[fresh[h]] = "PROCESS"
         /\ pc[h] \in {"create", "request"} /\ this[h] # None
              => status[this[h]] = "PROCESS"

\* The objects that wait for a call, or whose call no thread has begun.
Waiting == requested
           \cup {d \in succeeded : status[d] = "PROCESS"}
           \cup {this[h] : h \in {g \in Handlers : /\ pc[g] = "proceed"
                                                   /\ status[this[g]] = "PROCESS"}}
           \cup {fresh[h] : h \in {g \in Handlers : fresh[g] # None}}

\* While the server runs, every thread that has entered the loop keeps exactly
\* one object waiting (server.cpp:37-39, 119-120): the capacity to accept
\* calls neither shrinks, with slow, cancelled or concurrent calls, nor grows.
AcceptCapacity ==
    server = "running" =>
      Cardinality(Waiting) = Cardinality({h \in Handlers : pc[h] # "enter"})

\* A thread leaves HandleRpcs (server.cpp:125-126) before the shutdown only
\* after a client abandoned a call, and for each thread that left there is
\* such a client: without one the loop runs for ever.
LoopEndsOnCancelOnly ==
    server = "running" =>
      Cardinality({h \in Handlers : pc[h] = "left"})
        <= Cardinality({c \in Calls : rpc[c] = "cancelled"})

\* What is leaked is exactly the object whose failed event ended the loop:
\* one per thread that left, none before.
LeakPerExit ==
    server \in {"running", "draining"} =>
      Cardinality({d \in heap : ~Owned(d)}) = Cardinality({h \in Handlers : pc[h] = "left"})

\* "The instance will deallocate itself as part of its FINISH state"
\* (server.cpp:38): no live object is beyond the reach of its own Proceed().
InstancesDeallocateThemselves == \A d \in heap : Owned(d)

SomeoneGaveUp == \E c \in Calls : rpc[c] = "cancelled"

\* Every call a server took is answered, unless some client gives up.
EveryCallAnswered ==
    \A c \in Calls : rpc[c] = "sent" ~> rpc[c] = "answered" \/ SomeoneGaveUp

\* Every object that served its call is deleted in the end, unless some client
\* gives up.
FinishedAreFreed ==
    \A d \in Addresses :
      (d \in heap /\ status[d] = "FINISH")
        ~> (d \notin heap \/ status[d] # "FINISH" \/ SomeoneGaveUp)

\* "Spawn a new CallData instance to serve new clients" (server.cpp:119):
\* a call ends, with an answer or with an error, whatever other clients do.
EveryCallEnds ==
    \A c \in Calls :
      rpc[c] = "sent" ~> rpc[c] \in {"answered", "cancelled", "failed"}

-----------------------------------------------------------------------------
(* The inductive invariant: ownership is tied to where the threads are.    *)

ThreadShape ==
    \A h \in Handlers :
      /\ pc[h] \in {"start", "enter", "next", "left"} =>
           this[h] = None /\ fresh[h] = None
      /\ pc[h] \in {"create", "request"} => fresh[h] # None
      /\ pc[h] \in {"proceed", "compute", "sleep", "finish"} =>
           this[h] # None /\ fresh[h] = None

Ownership == /\ TypeOK
             /\ ThreadShape
             /\ NoUseAfterFree
             /\ SingleOwner
             /\ StatusFollowsControl

(* What ties an object to its call, and the threads to the server's life.  *)

Serves(d, states) == request[d] \in Calls /\ rpc[request[d]] \in states

LifeCycle ==
    /\ server = "none" => heap = {} /\ \A h \in Handlers : pc[h] \in {"start", "left"}
    /\ server = "running" => \A h \in Handlers : pc[h] # "start"
    /\ server \in {"draining", "gone"} => \A h \in Handlers : pc[h] = "left"

\* No two objects hold the same call, and no object one that was not matched.
OneCallEach ==
    \A d \in heap : request[d] # None =>
      /\ rpc[request[d]] \in {"matched", "answered", "cancelled"}
      /\ \A e \in heap : request[e] = request[d] => e = d

\* An object that waits for a call holds nothing of an earlier one.
Blank(d) == request[d] = None /\ response[d] = None
WaitingIsBlank == /\ \A d \in requested : Blank(d)
                  /\ \A h \in Handlers : fresh[h] # None => Blank(fresh[h])

\* The call of an object is unanswered until its Finish has completed, which
\* finds the result in place.
CallFollowsStatus ==
    /\ \A d \in finishing : /\ Serves(d, {"matched", "cancelled"})
                            /\ response[d] = request[d]
    /\ \A d \in succeeded :
         Serves(d, {"cancelled", IF status[d] = "FINISH" THEN "answered" ELSE "matched"})
    /\ \A h \in Handlers : this[h] # None =>
         /\ Serves(this[h], {"cancelled", IF pc[h] = "proceed" /\ status[this[h]] = "FINISH"
                                         THEN "answered" ELSE "matched"})
         /\ pc[h] \in {"sleep", "finish"} => response[this[h]] = request[this[h]]

\* Until the shutdown, an object whose event failed, or that is lost, has a
\* call that its client gave up.
FailedIsAbandoned ==
    server = "running" =>
      \A d \in heap : d \in aborted \/ ~Owned(d) => Serves(d, {"cancelled"})

IInv == /\ Ownership
        /\ LifeCycle
        /\ OneCallEach
        /\ WaitingIsBlank
        /\ CallFollowsStatus
        /\ FailedIsAbandoned

-----------------------------------------------------------------------------
(* The server implements the abstract unary service: a call is executed    *)
(* once the object matched with it holds its result.                       *)

Executed(c) == \E d \in heap : request[d] = c /\ response[d] = c

AbstractRpc ==
    [c \in Calls |->
       CASE rpc[c] = "sent"    -> "pending"
         [] rpc[c] = "matched" -> IF Executed(c) THEN "executed" ELSE "pending"
         [] OTHER              -> rpc[c]]

Service == INSTANCE UnaryService WITH rpc <- AbstractRpc, up <- server = "running"

\* Refinement: at most one execution, at most one answer, the right answer.
ImplementsUnaryService == Service!Spec
=============================================================================
