----------------------- MODULE AsyncSumServer_proofs -----------------------
(***************************************************************************)
(* What holds of AsyncSumServer for any number of calls, threads and heap  *)
(* addresses.                                                              *)
(*                                                                         *)
(* First, Ownership is inductive: no CallData has two owners, none is used *)
(* after its delete, and Proceed() always runs in the status its branch    *)
(* assumes.  Second, IInv: each object is tied to its own call.  Third,    *)
(* from IInv, the counts: how many objects wait, how many are lost, how    *)
(* many threads have left.  Fourth, the server implements UnaryService.    *)
(*                                                                         *)
(* One lemma per action; the hard part of each is that the object it moves *)
(* leaves its old owner as it gets its new one.                            *)
(***************************************************************************)
EXTENDS AsyncSumServer, FiniteSetTheorems, TLAPS

-----------------------------------------------------------------------------
(* Ownership.                                                              *)

\* SingleOwner in three parts: within the runtime, between it and the threads,
\* and among the threads.
RuntimeOwnsOnce ==
    /\ \A d \in requested : d \notin finishing \cup Queued
    /\ \A d \in finishing : d \notin Queued
    /\ \A d \in succeeded : d \notin aborted
ThreadOwnsAlone ==
    \A h \in Handlers : \A d \in {this[h], fresh[h]} \ {None} :
      d \notin requested \cup finishing \cup Queued
ThreadsApart ==
    /\ \A h \in Handlers : \A d \in {this[h], fresh[h]} \ {None} :
         \A g \in Handlers \ {h} : ~HeldBy(g, d)
    /\ \A h \in Handlers : this[h] # None => this[h] # fresh[h]

\* The parts make up the whole, in the next state.
LEMMA OwnerParts ==
  ASSUME RuntimeOwnsOnce', ThreadOwnsAlone', ThreadsApart'
  PROVE  SingleOwner'
BY DEF RuntimeOwnsOnce, ThreadOwnsAlone, ThreadsApart, SingleOwner

\* Threads that keep their objects stay apart.
LEMMA StillApart ==
  ASSUME ThreadsApart, this' = this, fresh' = fresh
  PROVE  ThreadsApart'
BY DEF ThreadsApart, HeldBy

\* A thread that moves to objects no other thread holds stays apart.
LEMMA OneMoves ==
  ASSUME ThreadsApart, NEW h \in Handlers,
         \A g \in Handlers \ {h} : this'[g] = this[g] /\ fresh'[g] = fresh[g],
         \A g \in Handlers \ {h} :
           \A e \in {this'[h], fresh'[h]} \ {None} : ~HeldBy(g, e),
         this'[h] # None => this'[h] # fresh'[h]
  PROVE  ThreadsApart'
<1>1. \A k \in Handlers : this'[k] # None => this'[k] # fresh'[k]
  BY DEF ThreadsApart
<1>2. SUFFICES ASSUME NEW k \in Handlers, NEW g \in Handlers \ {k},
                      NEW e \in {this'[k], fresh'[k]} \ {None}
               PROVE  ~HeldBy(g, e)'
  BY <1>1 DEF ThreadsApart
<1>3. CASE k = h
  BY <1>3 DEF HeldBy
<1>4. CASE k # h
  BY <1>4 DEF ThreadsApart, HeldBy
<1> QED BY <1>3, <1>4

\* The actions that change nothing but the clients or the server's life cycle.
LEMMA ClientInv ==
  ASSUME Ownership, TypeOK', UNCHANGED <<objects, runtime, threads>>
  PROVE  Ownership'
<1> USE DEF Ownership, objects, runtime, threads
<1>1. ThreadShape'
  BY DEF ThreadShape
<1>2. NoUseAfterFree'
  BY DEF NoUseAfterFree, Queued
<1>3. SingleOwner'
  BY DEF SingleOwner, Queued, HeldBy
<1>4. StatusFollowsControl'
  BY DEF StatusFollowsControl
<1> QED BY <1>1, <1>2, <1>3, <1>4

\* The runtime matches a call: the object's owner changes from the pending
\* RequestComputeSum to the queued event.
LEMMA MatchCallInv ==
  ASSUME Ownership, NEW c \in Calls, NEW d \in Addresses, MatchCall(c, d)
  PROVE  Ownership'
<1> USE NoneAssumption DEF Ownership, MatchCall, client, objects, runtime, threads
<1>1. TypeOK'
  BY DEF TypeOK, RpcStates
<1>2. ThreadShape'
  BY DEF ThreadShape
<1>3. NoUseAfterFree'
  BY DEF NoUseAfterFree, Queued
<1>4. SingleOwner'
  <2>1. RuntimeOwnsOnce'
    BY DEF SingleOwner, Queued, RuntimeOwnsOnce
  <2>2. ThreadOwnsAlone'
    BY DEF SingleOwner, Queued, ThreadOwnsAlone
  <2>3. ThreadsApart'
    <3>1. ThreadsApart /\ this' = this /\ fresh' = fresh
      BY DEF SingleOwner, ThreadsApart
    <3> QED BY <3>1, StillApart
  <2> QED BY <2>1, <2>2, <2>3, OwnerParts
<1>5. StatusFollowsControl'
  BY DEF StatusFollowsControl
<1> QED BY <1>1, <1>2, <1>3, <1>4, <1>5

\* A Finish completes: from the pending operation to the queued event.
LEMMA CompleteFinishInv ==
  ASSUME Ownership, NEW d \in Addresses, CompleteFinish(d)
  PROVE  Ownership'
<1> USE NoneAssumption DEF Ownership, CompleteFinish, client, objects, runtime, threads
<1>1. TypeOK'
  BY DEF TypeOK, RpcStates
<1>2. ThreadShape'
  BY DEF ThreadShape
<1>3. NoUseAfterFree'
  BY DEF NoUseAfterFree, Queued
<1>4. SingleOwner'
  <2>1. RuntimeOwnsOnce'
    BY DEF SingleOwner, Queued, RuntimeOwnsOnce
  <2>2. ThreadOwnsAlone'
    BY DEF SingleOwner, Queued, ThreadOwnsAlone
  <2>3. ThreadsApart'
    <3>1. ThreadsApart /\ this' = this /\ fresh' = fresh
      BY DEF SingleOwner, ThreadsApart
    <3> QED BY <3>1, StillApart
  <2> QED BY <2>1, <2>2, <2>3, OwnerParts
<1>5. StatusFollowsControl'
  BY DEF StatusFollowsControl
<1> QED BY <1>1, <1>2, <1>3, <1>4, <1>5

\* Shutdown gives a RequestComputeSum back (server.cpp:107-110).
LEMMA FlushRequestInv ==
  ASSUME Ownership, NEW d \in Addresses, FlushRequest(d)
  PROVE  Ownership'
<1> USE NoneAssumption DEF Ownership, FlushRequest, client, objects, runtime, threads
<1>1. TypeOK'
  BY DEF TypeOK
<1>2. ThreadShape'
  BY DEF ThreadShape
<1>3. NoUseAfterFree'
  BY DEF NoUseAfterFree, Queued
<1>4. SingleOwner'
  <2>1. RuntimeOwnsOnce'
    BY DEF SingleOwner, Queued, RuntimeOwnsOnce
  <2>2. ThreadOwnsAlone'
    BY DEF SingleOwner, Queued, ThreadOwnsAlone
  <2>3. ThreadsApart'
    <3>1. ThreadsApart /\ this' = this /\ fresh' = fresh
      BY DEF SingleOwner, ThreadsApart
    <3> QED BY <3>1, StillApart
  <2> QED BY <2>1, <2>2, <2>3, OwnerParts
<1>5. StatusFollowsControl'
  BY DEF StatusFollowsControl
<1> QED BY <1>1, <1>2, <1>3, <1>4, <1>5

\* The first CallData of a thread (server.cpp:120) is owned by that thread.
LEMMA EnterLoopInv ==
  ASSUME Ownership, NEW h \in Handlers, NEW d \in Addresses, EnterLoop(h, d)
  PROVE  Ownership'
<1> USE NoneAssumption DEF Ownership, EnterLoop, Construct, client, objects, runtime,
                           threads
<1>1. TypeOK'
  BY DEF TypeOK, Statuses, Locations
<1>2. ThreadShape'
  BY DEF TypeOK, ThreadShape
<1>3. NoUseAfterFree'
  BY DEF NoUseAfterFree, Queued
<1>4. SingleOwner'
  <2>1. RuntimeOwnsOnce'
    BY DEF SingleOwner, Queued, RuntimeOwnsOnce
  <2>2. ThreadOwnsAlone'
    BY DEF NoUseAfterFree, SingleOwner, Queued, ThreadOwnsAlone
  <2>3. ThreadsApart'
    <3>1. /\ ThreadsApart
          /\ \A g \in Handlers \ {h} : this'[g] = this[g] /\ fresh'[g] = fresh[g]
      BY DEF SingleOwner, ThreadsApart
    <3>2. /\ this'[h] = this[h] /\ fresh'[h] = d
          /\ d # this[h] /\ \A g \in Handlers : ~HeldBy(g, d)
      BY DEF TypeOK, NoUseAfterFree, HeldBy
    <3> HIDE DEF Ownership, EnterLoop, Construct
    <3>3. \A g \in Handlers \ {h} :
            \A e \in {this'[h], fresh'[h]} \ {None} : ~HeldBy(g, e)
      BY <3>1, <3>2 DEF ThreadsApart
    <3> QED BY <3>1, <3>2, <3>3, OneMoves
  <2> QED BY <2>1, <2>2, <2>3, OwnerParts
<1>5. StatusFollowsControl'
  BY DEF TypeOK, ThreadShape, NoUseAfterFree, Queued, StatusFollowsControl
<1> QED BY <1>1, <1>2, <1>3, <1>4, <1>5

\* The CallData for the next client (server.cpp:39): the address is not that
\* of a live object, so it is not the one the thread is in.
LEMMA SpawnInv ==
  ASSUME Ownership, NEW h \in Handlers, NEW d \in Addresses, Spawn(h, d)
  PROVE  Ownership'
<1> USE NoneAssumption DEF Ownership, Spawn, Construct, client, objects, runtime, threads
<1>1. TypeOK'
  BY DEF TypeOK, Statuses, Locations
<1>2. ThreadShape'
  BY DEF TypeOK, ThreadShape
<1>3. NoUseAfterFree'
  BY DEF NoUseAfterFree, Queued
<1>4. SingleOwner'
  <2>1. RuntimeOwnsOnce'
    BY DEF SingleOwner, Queued, RuntimeOwnsOnce
  <2>2. ThreadOwnsAlone'
    BY DEF NoUseAfterFree, SingleOwner, Queued, ThreadOwnsAlone
  <2>3. ThreadsApart'
    <3>1. /\ ThreadsApart
          /\ \A g \in Handlers \ {h} : this'[g] = this[g] /\ fresh'[g] = fresh[g]
      BY DEF TypeOK, SingleOwner, ThreadsApart
    <3>2. /\ this'[h] = this[h] /\ fresh'[h] = d
          /\ d # this[h] /\ \A g \in Handlers : ~HeldBy(g, d)
      BY DEF TypeOK, NoUseAfterFree, HeldBy
    <3> HIDE DEF Ownership, Spawn, Construct
    <3>3. \A g \in Handlers \ {h} :
            \A e \in {this'[h], fresh'[h]} \ {None} : ~HeldBy(g, e)
      BY <3>1, <3>2 DEF ThreadsApart
    <3> QED BY <3>1, <3>2, <3>3, OneMoves
  <2> QED BY <2>1, <2>2, <2>3, OwnerParts
<1>5. StatusFollowsControl'
  BY DEF TypeOK, NoUseAfterFree, Queued, StatusFollowsControl
<1> QED BY <1>1, <1>2, <1>3, <1>4, <1>5

\* status = PROCESS (server.cpp:27).
LEMMA ProceedCreateInv ==
  ASSUME Ownership, NEW h \in Handlers, ProceedCreate(h)
  PROVE  Ownership'
<1> USE NoneAssumption DEF Ownership, ProceedCreate, client, objects, runtime, threads
<1>1. TypeOK'
  BY DEF TypeOK, Statuses, Locations
<1>2. ThreadShape'
  BY DEF ThreadShape
<1>3. NoUseAfterFree'
  BY DEF NoUseAfterFree, Queued
<1>4. SingleOwner'
  <2>1. RuntimeOwnsOnce'
    BY DEF SingleOwner, Queued, RuntimeOwnsOnce
  <2>2. ThreadOwnsAlone'
    BY DEF SingleOwner, Queued, ThreadOwnsAlone
  <2>3. ThreadsApart'
    <3>1. ThreadsApart /\ this' = this /\ fresh' = fresh
      BY DEF SingleOwner, ThreadsApart
    <3> QED BY <3>1, StillApart
  <2> QED BY <2>1, <2>2, <2>3, OwnerParts
<1>5. StatusFollowsControl'
  BY DEF TypeOK, ThreadShape, SingleOwner, HeldBy, StatusFollowsControl
<1> QED BY <1>1, <1>2, <1>3, <1>4, <1>5

\* RequestComputeSum (server.cpp:33): from the thread to the runtime.
LEMMA RequestComputeSumInv ==
  ASSUME Ownership, NEW h \in Handlers, RequestComputeSum(h)
  PROVE  Ownership'
<1> USE NoneAssumption DEF Ownership, RequestComputeSum, client, objects, runtime, threads
<1>1. TypeOK'
  BY DEF TypeOK, Locations, ThreadShape
<1>2. ThreadShape'
  BY DEF TypeOK, ThreadShape
<1>3. NoUseAfterFree'
  BY DEF ThreadShape, NoUseAfterFree, Queued
<1>4. SingleOwner'
  <2>1. RuntimeOwnsOnce'
    BY DEF TypeOK, SingleOwner, Queued, RuntimeOwnsOnce
  <2>2. ThreadOwnsAlone'
    BY DEF TypeOK, SingleOwner, Queued, HeldBy, ThreadOwnsAlone
  <2>3. ThreadsApart'
    <3>1. /\ ThreadsApart
          /\ \A g \in Handlers \ {h} : this'[g] = this[g] /\ fresh'[g] = fresh[g]
      BY DEF SingleOwner, ThreadsApart
    <3>2. /\ \A g \in Handlers \ {h} :
               \A e \in {this'[h], fresh'[h]} \ {None} : ~HeldBy(g, e)
          /\ this'[h] # None => this'[h] # fresh'[h]
      BY DEF SingleOwner
    <3> QED BY <3>1, <3>2, OneMoves
  <2> QED BY <2>1, <2>2, <2>3, OwnerParts
<1>5. StatusFollowsControl'
  BY DEF TypeOK, StatusFollowsControl
<1> QED BY <1>1, <1>2, <1>3, <1>4, <1>5

\* cq->Next with ok (server.cpp:123-128): from the queue to the thread.
LEMMA HandleEventInv ==
  ASSUME Ownership, NEW h \in Handlers, NEW d \in Addresses, HandleEvent(h, d)
  PROVE  Ownership'
<1> USE NoneAssumption DEF Ownership, HandleEvent, client, objects, runtime, threads
<1>1. TypeOK'
  BY DEF TypeOK, Locations
<1>2. ThreadShape'
  BY DEF TypeOK, ThreadShape
<1>3. NoUseAfterFree'
  BY DEF NoUseAfterFree, Queued
<1>4. SingleOwner'
  <2>1. RuntimeOwnsOnce'
    BY DEF SingleOwner, Queued, RuntimeOwnsOnce
  <2>2. ThreadOwnsAlone'
    BY DEF SingleOwner, Queued, ThreadOwnsAlone
  <2>3. ThreadsApart'
    <3>1. /\ ThreadsApart
          /\ \A g \in Handlers \ {h} : this'[g] = this[g] /\ fresh'[g] = fresh[g]
      BY DEF SingleOwner, ThreadsApart
    <3>2. /\ \A g \in Handlers \ {h} :
               \A e \in {this'[h], fresh'[h]} \ {None} : ~HeldBy(g, e)
          /\ this'[h] # None => this'[h] # fresh'[h]
      BY DEF ThreadShape, SingleOwner, Queued, HeldBy
    <3> QED BY <3>1, <3>2, OneMoves
  <2> QED BY <2>1, <2>2, <2>3, OwnerParts
<1>5. StatusFollowsControl'
  BY DEF TypeOK, StatusFollowsControl
<1> QED BY <1>1, <1>2, <1>3, <1>4, <1>5

\* break (server.cpp:125-126): the object loses its owner.
LEMMA LeaveLoopInv ==
  ASSUME Ownership, NEW h \in Handlers, NEW d \in Addresses, LeaveLoop(h, d)
  PROVE  Ownership'
<1> USE NoneAssumption DEF Ownership, LeaveLoop, client, objects, runtime, threads
<1>1. TypeOK'
  BY DEF TypeOK, Locations
<1>2. ThreadShape'
  BY DEF ThreadShape
<1>3. NoUseAfterFree'
  BY DEF NoUseAfterFree, Queued
<1>4. SingleOwner'
  <2>1. RuntimeOwnsOnce'
    BY DEF SingleOwner, Queued, RuntimeOwnsOnce
  <2>2. ThreadOwnsAlone'
    BY DEF SingleOwner, Queued, ThreadOwnsAlone
  <2>3. ThreadsApart'
    <3>1. ThreadsApart /\ this' = this /\ fresh' = fresh
      BY DEF SingleOwner, ThreadsApart
    <3> QED BY <3>1, StillApart
  <2> QED BY <2>1, <2>2, <2>3, OwnerParts
<1>5. StatusFollowsControl'
  BY DEF StatusFollowsControl
<1> QED BY <1>1, <1>2, <1>3, <1>4, <1>5

\* set_result (server.cpp:41).
LEMMA ComputeInv ==
  ASSUME Ownership, NEW h \in Handlers, Compute(h)
  PROVE  Ownership'
<1> USE NoneAssumption DEF Ownership, Compute, client, objects, runtime, threads
<1>1. TypeOK'
  BY DEF TypeOK, Locations
<1>2. ThreadShape'
  BY DEF ThreadShape
<1>3. NoUseAfterFree'
  BY DEF NoUseAfterFree, Queued
<1>4. SingleOwner'
  <2>1. RuntimeOwnsOnce'
    BY DEF SingleOwner, Queued, RuntimeOwnsOnce
  <2>2. ThreadOwnsAlone'
    BY DEF SingleOwner, Queued, ThreadOwnsAlone
  <2>3. ThreadsApart'
    <3>1. ThreadsApart /\ this' = this /\ fresh' = fresh
      BY DEF SingleOwner, ThreadsApart
    <3> QED BY <3>1, StillApart
  <2> QED BY <2>1, <2>2, <2>3, OwnerParts
<1>5. StatusFollowsControl'
  BY DEF StatusFollowsControl
<1> QED BY <1>1, <1>2, <1>3, <1>4, <1>5

\* status = FINISH (server.cpp:44).
LEMMA SetFinishInv ==
  ASSUME Ownership, NEW h \in Handlers, SetFinish(h)
  PROVE  Ownership'
<1> USE NoneAssumption DEF Ownership, SetFinish, client, objects, runtime, threads
<1>1. TypeOK'
  BY DEF TypeOK, Statuses, Locations
<1>2. ThreadShape'
  BY DEF ThreadShape
<1>3. NoUseAfterFree'
  BY DEF NoUseAfterFree, Queued
<1>4. SingleOwner'
  <2>1. RuntimeOwnsOnce'
    BY DEF SingleOwner, Queued, RuntimeOwnsOnce
  <2>2. ThreadOwnsAlone'
    BY DEF SingleOwner, Queued, ThreadOwnsAlone
  <2>3. ThreadsApart'
    <3>1. ThreadsApart /\ this' = this /\ fresh' = fresh
      BY DEF SingleOwner, ThreadsApart
    <3> QED BY <3>1, StillApart
  <2> QED BY <2>1, <2>2, <2>3, OwnerParts
<1>5. StatusFollowsControl'
  BY DEF TypeOK, ThreadShape, SingleOwner, HeldBy, StatusFollowsControl
<1> QED BY <1>1, <1>2, <1>3, <1>4, <1>5

\* stream.Finish (server.cpp:45): from the thread to the runtime.
LEMMA FinishInv ==
  ASSUME Ownership, NEW h \in Handlers, Finish(h)
  PROVE  Ownership'
<1> USE NoneAssumption DEF Ownership, Finish, client, objects, runtime, threads
<1>1. TypeOK'
  BY DEF TypeOK, Locations, ThreadShape
<1>2. ThreadShape'
  BY DEF TypeOK, ThreadShape
<1>3. NoUseAfterFree'
  BY DEF ThreadShape, NoUseAfterFree, Queued
<1>4. SingleOwner'
  <2>1. RuntimeOwnsOnce'
    BY DEF TypeOK, SingleOwner, Queued, RuntimeOwnsOnce
  <2>2. ThreadOwnsAlone'
    BY DEF TypeOK, SingleOwner, Queued, HeldBy, ThreadOwnsAlone
  <2>3. ThreadsApart'
    <3>1. /\ ThreadsApart
          /\ \A g \in Handlers \ {h} : this'[g] = this[g] /\ fresh'[g] = fresh[g]
      BY DEF SingleOwner, ThreadsApart
    <3>2. /\ \A g \in Handlers \ {h} :
               \A e \in {this'[h], fresh'[h]} \ {None} : ~HeldBy(g, e)
          /\ this'[h] # None => this'[h] # fresh'[h]
      BY DEF TypeOK, ThreadShape
    <3> QED BY <3>1, <3>2, OneMoves
  <2> QED BY <2>1, <2>2, <2>3, OwnerParts
<1>5. StatusFollowsControl'
  BY DEF TypeOK, StatusFollowsControl
<1> QED BY <1>1, <1>2, <1>3, <1>4, <1>5

\* delete this (server.cpp:51): the thread was the only owner.
LEMMA DeleteInv ==
  ASSUME Ownership, NEW h \in Handlers, Delete(h)
  PROVE  Ownership'
<1> USE NoneAssumption DEF Ownership, Delete, client, objects, runtime, threads
<1>1. TypeOK'
  BY DEF TypeOK, Locations
<1>2. ThreadShape'
  BY DEF TypeOK, ThreadShape
<1>3. NoUseAfterFree'
  <2>1. this[h] \notin requested \cup finishing \cup Queued
    BY DEF ThreadShape, SingleOwner
  <2>2. /\ fresh[h] = None
        /\ \A g \in Handlers \ {h} : ~HeldBy(g, this[h])
    BY DEF ThreadShape, SingleOwner
  <2>3. requested' \cup finishing' \cup Queued' \subseteq heap'
    BY <2>1 DEF NoUseAfterFree, Queued
  <2>4. \A g \in Handlers : {this'[g], fresh'[g]} \ {None} \subseteq heap'
    BY <2>2 DEF TypeOK, NoUseAfterFree, HeldBy
  <2> QED BY <2>3, <2>4 DEF NoUseAfterFree
<1>4. SingleOwner'
  <2>1. RuntimeOwnsOnce'
    BY DEF SingleOwner, Queued, RuntimeOwnsOnce
  <2>2. ThreadOwnsAlone'
    BY DEF SingleOwner, Queued, ThreadOwnsAlone
  <2>3. ThreadsApart'
    <3>1. /\ ThreadsApart
          /\ \A g \in Handlers \ {h} : this'[g] = this[g] /\ fresh'[g] = fresh[g]
      BY DEF SingleOwner, ThreadsApart
    <3>2. /\ \A g \in Handlers \ {h} :
               \A e \in {this'[h], fresh'[h]} \ {None} : ~HeldBy(g, e)
          /\ this'[h] # None => this'[h] # fresh'[h]
      BY DEF TypeOK, ThreadShape
    <3> QED BY <3>1, <3>2, OneMoves
  <2> QED BY <2>1, <2>2, <2>3, OwnerParts
<1>5. StatusFollowsControl'
  BY DEF TypeOK, StatusFollowsControl
<1> QED BY <1>1, <1>2, <1>3, <1>4, <1>5

\* Start() (server.cpp:91-103) moves all threads at once.
LEMMA StartInv ==
  ASSUME Ownership, Start
  PROVE  Ownership'
<1> USE NoneAssumption DEF Ownership, Start, client, objects, runtime, threads
<1>1. TypeOK'
  BY DEF TypeOK, Locations
<1>2. ThreadShape'
  BY DEF ThreadShape
<1>3. NoUseAfterFree'
  BY DEF NoUseAfterFree, Queued
<1>4. SingleOwner'
  <2>1. RuntimeOwnsOnce'
    BY DEF SingleOwner, Queued, RuntimeOwnsOnce
  <2>2. ThreadOwnsAlone'
    BY DEF ThreadShape, ThreadOwnsAlone
  <2>3. ThreadsApart'
    <3>1. ThreadsApart /\ this' = this /\ fresh' = fresh
      BY DEF SingleOwner, ThreadsApart
    <3> QED BY <3>1, StillApart
  <2> QED BY <2>1, <2>2, <2>3, OwnerParts
<1>5. StatusFollowsControl'
  BY DEF StatusFollowsControl
<1> QED BY <1>1, <1>2, <1>3, <1>4, <1>5
-----------------------------------------------------------------------------
\* Nothing has happened: no object, no operation, no event.
LEMMA OwnershipInit == Init => Ownership
<1> SUFFICES ASSUME Init PROVE Ownership
  OBVIOUS
<1> USE NoneAssumption DEF Init
<1>1. TypeOK
  BY DEF TypeOK, Statuses, RpcStates, Locations
<1>2. ThreadShape
  BY DEF ThreadShape
<1>3. NoUseAfterFree
  BY DEF NoUseAfterFree, Queued
<1>4. SingleOwner
  BY DEF SingleOwner, Queued, HeldBy
<1>5. StatusFollowsControl
  BY DEF StatusFollowsControl
<1> QED BY <1>1, <1>2, <1>3, <1>4, <1>5 DEF Ownership

\* Every step of the server, of the runtime and of the clients keeps Ownership.
LEMMA OwnershipNext == Ownership /\ [Next]_vars => Ownership'
<1> SUFFICES ASSUME Ownership, [Next]_vars PROVE Ownership'
  OBVIOUS
<1>1. ASSUME NEW c \in Calls, StartCall(c) \/ Cancel(c) \/ Refuse(c)
      PROVE  Ownership'
  <2>1. /\ UNCHANGED <<reply, objects, runtime, threads, server>>
        /\ rpc' \in [Calls -> RpcStates]
    BY <1>1 DEF Ownership, TypeOK, RpcStates, StartCall, Cancel, Refuse
  <2>2. TypeOK'
    BY <2>1 DEF Ownership, TypeOK, objects, runtime, threads
  <2> QED BY <2>1, <2>2, ClientInv
<1>2. ASSUME NEW c \in Calls, NEW d \in Addresses, MatchCall(c, d)
      PROVE  Ownership'
  BY <1>2, MatchCallInv
<1>3. ASSUME NEW d \in Addresses, CompleteFinish(d) \/ FlushRequest(d)
      PROVE  Ownership'
  BY <1>3, CompleteFinishInv, FlushRequestInv
<1>4. ASSUME NEW h \in Handlers, HandlerStep(h)
      PROVE  Ownership'
  <2>1. ASSUME NEW d \in Addresses,
               \/ EnterLoop(h, d) \/ Spawn(h, d)
               \/ HandleEvent(h, d) \/ LeaveLoop(h, d)
        PROVE  Ownership'
    BY <2>1, EnterLoopInv, SpawnInv, HandleEventInv, LeaveLoopInv
  <2>2. CASE ProceedCreate(h)
    BY <2>2, ProceedCreateInv
  <2>3. CASE RequestComputeSum(h)
    BY <2>3, RequestComputeSumInv
  <2>4. CASE Compute(h)
    BY <2>4, ComputeInv
  <2>5. CASE SetFinish(h)
    BY <2>5, SetFinishInv
  <2>6. CASE Finish(h)
    BY <2>6, FinishInv
  <2>7. CASE Delete(h)
    BY <2>7, DeleteInv
  <2> QED BY <1>4, <2>1, <2>2, <2>3, <2>4, <2>5, <2>6, <2>7 DEF HandlerStep
<1>5. CASE Start
  BY <1>5, StartInv
<1>6. CASE Stop \/ ShutdownReturns
  <2>1. TypeOK'
    BY <1>6 DEF Ownership, TypeOK, Stop, ShutdownReturns, client, objects, runtime,
                threads
  <2> QED BY <1>6, <2>1, ClientInv DEF Stop, ShutdownReturns
<1>7. CASE UNCHANGED vars
  <2>1. TypeOK'
    BY <1>7 DEF Ownership, TypeOK, vars, client, objects, runtime, threads
  <2> QED BY <1>7, <2>1, ClientInv DEF vars
<1> QED BY <1>1, <1>2, <1>3, <1>4, <1>5, <1>6, <1>7 DEF Next, Match

\* Objects and threads stay consistent.
LEMMA OwnershipInvariant == Spec => []Ownership
BY OwnershipInit, OwnershipNext, PTL DEF Spec

\* Every variable keeps its type (the type invariant).
THEOREM TypeCorrect == Spec => []TypeOK
<1>1. Ownership => TypeOK
  BY DEF Ownership
<1> QED BY <1>1, OwnershipInvariant, PTL

\* "This can be run in multiple threads if needed" (server.cpp:113): Proceed()
\* is never run by two threads on one object, nor while the runtime holds it.
THEOREM NoTwoOwners == Spec => []SingleOwner
<1>1. Ownership => SingleOwner
  BY DEF Ownership
<1> QED BY <1>1, OwnershipInvariant, PTL

\* delete this (server.cpp:51) leaves no tag and no thread behind.
THEOREM MemorySafe == Spec => []NoUseAfterFree
<1>1. Ownership => NoUseAfterFree
  BY DEF Ownership
<1> QED BY <1>1, OwnershipInvariant, PTL

\* The CHECK_EQ of server.cpp:49 never fires, and no statement of PROCESS runs
\* in another status.
THEOREM CheckNeverFires == Spec => []StatusFollowsControl
<1>1. Ownership => StatusFollowsControl
  BY DEF Ownership
<1> QED BY <1>1, OwnershipInvariant, PTL

-----------------------------------------------------------------------------
(* The calls: IInv.                                                        *)

\* A new call is held by no object.
LEMMA StartCallCalls ==
  ASSUME IInv, Ownership', NEW c \in Calls, StartCall(c)
  PROVE  IInv'
<1> USE NoneAssumption DEF IInv, Ownership, StartCall, client, objects, runtime, threads
<1>1. LifeCycle'
  BY DEF LifeCycle
<1>2. OneCallEach'
  BY DEF OneCallEach
<1>3. WaitingIsBlank'
  BY DEF WaitingIsBlank, Blank
<1>4. CallFollowsStatus'
  BY DEF CallFollowsStatus, Serves
<1>5. FailedIsAbandoned'
  BY DEF FailedIsAbandoned, Owned, Serves, Queued, HeldBy
<1> HIDE DEF Ownership
<1> QED BY <1>1, <1>2, <1>3, <1>4, <1>5

\* A client that gives up: its call was sent, or an object holds it.
LEMMA CancelCalls ==
  ASSUME IInv, Ownership', NEW c \in Calls, Cancel(c)
  PROVE  IInv'
<1> USE NoneAssumption DEF IInv, Ownership, Cancel, client, objects, runtime, threads
<1>1. LifeCycle'
  BY DEF LifeCycle
<1>2. OneCallEach'
  BY DEF OneCallEach
<1>3. WaitingIsBlank'
  BY DEF WaitingIsBlank, Blank
<1>4. CallFollowsStatus'
  BY DEF CallFollowsStatus, Serves
<1>5. FailedIsAbandoned'
  BY DEF FailedIsAbandoned, Owned, Serves, Queued, HeldBy
<1> HIDE DEF Ownership
<1> QED BY <1>1, <1>2, <1>3, <1>4, <1>5

\* A call that is refused was matched with no object.
LEMMA RefuseCalls ==
  ASSUME IInv, Ownership', NEW c \in Calls, Refuse(c)
  PROVE  IInv'
<1> USE NoneAssumption DEF IInv, Ownership, Refuse, client, objects, runtime, threads
<1>1. LifeCycle'
  BY DEF LifeCycle
<1>2. OneCallEach'
  BY DEF OneCallEach
<1>3. WaitingIsBlank'
  BY DEF WaitingIsBlank, Blank
<1>4. CallFollowsStatus'
  BY DEF CallFollowsStatus, Serves
<1>5. FailedIsAbandoned'
  BY DEF FailedIsAbandoned
<1> HIDE DEF Ownership
<1> QED BY <1>1, <1>2, <1>3, <1>4, <1>5

\* The object that takes the call is blank, and no other holds a call that
\* was only sent.
LEMMA MatchCallCalls ==
  ASSUME IInv, Ownership', NEW c \in Calls, NEW d \in Addresses, MatchCall(c, d)
  PROVE  IInv'
<1> USE NoneAssumption DEF IInv, Ownership, MatchCall, client, objects, runtime, threads
<1>1. LifeCycle'
  BY DEF LifeCycle
<1>2. OneCallEach'
  BY DEF OneCallEach, TypeOK
<1>3. WaitingIsBlank'
  BY DEF WaitingIsBlank, Blank, SingleOwner
<1>4. CallFollowsStatus'
  BY DEF CallFollowsStatus, Serves, TypeOK, SingleOwner, StatusFollowsControl
<1>5. FailedIsAbandoned'
  BY DEF FailedIsAbandoned, Owned, Serves, SingleOwner, Queued, HeldBy
<1> HIDE DEF Ownership
<1> QED BY <1>1, <1>2, <1>3, <1>4, <1>5

\* The call is answered, or was given up: the others are those of other
\* objects.
LEMMA CompleteFinishCalls ==
  ASSUME IInv, Ownership', NEW d \in Addresses, CompleteFinish(d)
  PROVE  IInv'
<1> USE NoneAssumption DEF IInv, Ownership, CompleteFinish, client, objects, runtime,
                       threads
<1>1. LifeCycle'
  BY DEF LifeCycle
<1>2. OneCallEach'
  BY DEF OneCallEach, TypeOK
<1>3. WaitingIsBlank'
  BY DEF WaitingIsBlank, Blank
<1>4. CallFollowsStatus'
  BY DEF CallFollowsStatus, Serves, OneCallEach, TypeOK, NoUseAfterFree,
         SingleOwner, StatusFollowsControl, Queued
<1>5. FailedIsAbandoned'
  BY DEF FailedIsAbandoned, Owned, Serves, CallFollowsStatus, TypeOK, Queued, HeldBy
<1> HIDE DEF Ownership
<1> QED BY <1>1, <1>2, <1>3, <1>4, <1>5

\* The server is shutting down.
LEMMA FlushRequestCalls ==
  ASSUME IInv, Ownership', NEW d \in Addresses, FlushRequest(d)
  PROVE  IInv'
<1> USE NoneAssumption DEF IInv, Ownership, FlushRequest, client, objects, runtime,
                       threads
<1>1. LifeCycle'
  BY DEF LifeCycle
<1>2. OneCallEach'
  BY DEF OneCallEach
<1>3. WaitingIsBlank'
  BY DEF WaitingIsBlank, Blank
<1>4. CallFollowsStatus'
  BY DEF CallFollowsStatus, Serves
<1>5. FailedIsAbandoned'
  BY DEF FailedIsAbandoned
<1> HIDE DEF Ownership
<1> QED BY <1>1, <1>2, <1>3, <1>4, <1>5

\* The address is not that of a live object.
LEMMA EnterLoopCalls ==
  ASSUME IInv, Ownership', NEW h \in Handlers, NEW d \in Addresses, EnterLoop(h, d)
  PROVE  IInv'
<1> USE NoneAssumption DEF IInv, Ownership, EnterLoop, Construct, client, objects,
                       runtime, threads
<1>1. LifeCycle'
  BY DEF LifeCycle
<1>2. OneCallEach'
  BY DEF OneCallEach, TypeOK
<1>3. WaitingIsBlank'
  BY DEF WaitingIsBlank, Blank, TypeOK
<1>4. CallFollowsStatus'
  BY DEF CallFollowsStatus, Serves, TypeOK, NoUseAfterFree, StatusFollowsControl
<1>5. FailedIsAbandoned'
  BY DEF FailedIsAbandoned, Owned, Serves, TypeOK, ThreadShape, NoUseAfterFree,
         Queued, HeldBy
<1> HIDE DEF Ownership
<1> QED BY <1>1, <1>2, <1>3, <1>4, <1>5

\* As EnterLoop; the object that serves keeps its call.
LEMMA SpawnCalls ==
  ASSUME IInv, Ownership', NEW h \in Handlers, NEW d \in Addresses, Spawn(h, d)
  PROVE  IInv'
<1> USE NoneAssumption DEF IInv, Ownership, Spawn, Construct, client, objects,
                       runtime, threads
<1>1. LifeCycle'
  BY DEF LifeCycle
<1>2. OneCallEach'
  BY DEF OneCallEach, TypeOK
<1>3. WaitingIsBlank'
  BY DEF WaitingIsBlank, Blank, TypeOK
<1>4. CallFollowsStatus'
  BY DEF CallFollowsStatus, Serves, TypeOK, NoUseAfterFree, StatusFollowsControl
<1>5. FailedIsAbandoned'
  BY DEF FailedIsAbandoned, Owned, Serves, TypeOK, ThreadShape, NoUseAfterFree,
         Queued, HeldBy
<1> HIDE DEF Ownership
<1> QED BY <1>1, <1>2, <1>3, <1>4, <1>5

\* The object in creation is not the one that is served.
LEMMA ProceedCreateCalls ==
  ASSUME IInv, Ownership', NEW h \in Handlers, ProceedCreate(h)
  PROVE  IInv'
<1> USE NoneAssumption DEF IInv, Ownership, ProceedCreate, client, objects, runtime,
                       threads
<1>1. LifeCycle'
  BY DEF LifeCycle
<1>2. OneCallEach'
  BY DEF OneCallEach
<1>3. WaitingIsBlank'
  BY DEF WaitingIsBlank, Blank
<1>4. CallFollowsStatus'
  BY DEF CallFollowsStatus, Serves
<1>5. FailedIsAbandoned'
  BY DEF FailedIsAbandoned, Owned, Serves, Queued, HeldBy
<1> HIDE DEF Ownership
<1> QED BY <1>1, <1>2, <1>3, <1>4, <1>5

\* The blank object now waits.
LEMMA RequestComputeSumCalls ==
  ASSUME IInv, Ownership', NEW h \in Handlers, RequestComputeSum(h)
  PROVE  IInv'
<1> USE NoneAssumption DEF IInv, Ownership, RequestComputeSum, client, objects,
                       runtime, threads
<1>1. LifeCycle'
  BY DEF LifeCycle
<1>2. OneCallEach'
  BY DEF OneCallEach
<1>3. WaitingIsBlank'
  BY DEF WaitingIsBlank, Blank, TypeOK
<1>4. CallFollowsStatus'
  BY DEF CallFollowsStatus, Serves
<1>5. FailedIsAbandoned'
  BY DEF FailedIsAbandoned, Owned, Serves, Queued, HeldBy
<1> HIDE DEF Ownership
<1> QED BY <1>1, <1>2, <1>3, <1>4, <1>5

\* The call of an event that is taken is as the object's status says.
LEMMA HandleEventCalls ==
  ASSUME IInv, Ownership', NEW h \in Handlers, NEW d \in Addresses, HandleEvent(h, d)
  PROVE  IInv'
<1> USE NoneAssumption DEF IInv, Ownership, HandleEvent, client, objects, runtime,
                       threads
<1>1. LifeCycle'
  BY DEF LifeCycle
<1>2. OneCallEach'
  BY DEF OneCallEach
<1>3. WaitingIsBlank'
  BY DEF WaitingIsBlank, Blank
<1>4. CallFollowsStatus'
  BY DEF CallFollowsStatus, Serves, TypeOK
<1>5. FailedIsAbandoned'
  BY DEF FailedIsAbandoned, Owned, Serves, TypeOK, ThreadShape, Queued, HeldBy
<1> HIDE DEF Ownership
<1> QED BY <1>1, <1>2, <1>3, <1>4, <1>5

\* The lost object's event had failed.
LEMMA LeaveLoopCalls ==
  ASSUME IInv, Ownership', NEW h \in Handlers, NEW d \in Addresses, LeaveLoop(h, d)
  PROVE  IInv'
<1> USE NoneAssumption DEF IInv, Ownership, LeaveLoop, client, objects, runtime, threads
<1>1. LifeCycle'
  BY DEF LifeCycle
<1>2. OneCallEach'
  BY DEF OneCallEach
<1>3. WaitingIsBlank'
  BY DEF WaitingIsBlank, Blank
<1>4. CallFollowsStatus'
  BY DEF CallFollowsStatus, Serves
<1>5. FailedIsAbandoned'
  BY DEF FailedIsAbandoned, Owned, Serves, Queued, HeldBy
<1> HIDE DEF Ownership
<1> QED BY <1>1, <1>2, <1>3, <1>4, <1>5

\* set_result: the result is that of the object's call.
LEMMA ComputeCalls ==
  ASSUME IInv, Ownership', NEW h \in Handlers, Compute(h)
  PROVE  IInv'
<1> USE NoneAssumption DEF IInv, Ownership, Compute, client, objects, runtime, threads
<1>1. LifeCycle'
  BY DEF LifeCycle
<1>2. OneCallEach'
  BY DEF OneCallEach
<1>3. WaitingIsBlank'
  BY DEF WaitingIsBlank, Blank
<1>4. CallFollowsStatus'
  BY DEF CallFollowsStatus, Serves, TypeOK
<1>5. FailedIsAbandoned'
  BY DEF FailedIsAbandoned, Owned, Serves, Queued, HeldBy
<1> HIDE DEF Ownership
<1> QED BY <1>1, <1>2, <1>3, <1>4, <1>5

\* status = FINISH: no event of the object is on the queue.
LEMMA SetFinishCalls ==
  ASSUME IInv, Ownership', NEW h \in Handlers, SetFinish(h)
  PROVE  IInv'
<1> USE NoneAssumption DEF IInv, Ownership, SetFinish, client, objects, runtime, threads
<1>1. LifeCycle'
  BY DEF LifeCycle
<1>2. OneCallEach'
  BY DEF OneCallEach
<1>3. WaitingIsBlank'
  BY DEF WaitingIsBlank, Blank
<1>4. CallFollowsStatus'
  BY DEF CallFollowsStatus, Serves, TypeOK, SingleOwner, Queued, HeldBy
<1>5. FailedIsAbandoned'
  BY DEF FailedIsAbandoned, Owned, Serves, Queued, HeldBy
<1> HIDE DEF Ownership
<1> QED BY <1>1, <1>2, <1>3, <1>4, <1>5

\* The result is in place when Finish takes the object.
LEMMA FinishCalls ==
  ASSUME IInv, Ownership', NEW h \in Handlers, Finish(h)
  PROVE  IInv'
<1> USE NoneAssumption DEF IInv, Ownership, Finish, client, objects, runtime, threads
<1>1. LifeCycle'
  BY DEF LifeCycle
<1>2. OneCallEach'
  BY DEF OneCallEach
<1>3. WaitingIsBlank'
  BY DEF WaitingIsBlank, Blank
<1>4. CallFollowsStatus'
  BY DEF CallFollowsStatus, Serves, TypeOK
<1>5. FailedIsAbandoned'
  BY DEF FailedIsAbandoned, Owned, Serves, Queued, HeldBy
<1> HIDE DEF Ownership
<1> QED BY <1>1, <1>2, <1>3, <1>4, <1>5

\* The deleted object was not lost.
LEMMA DeleteCalls ==
  ASSUME IInv, Ownership', NEW h \in Handlers, Delete(h)
  PROVE  IInv'
<1> USE NoneAssumption DEF IInv, Ownership, Delete, client, objects, runtime, threads
<1>1. LifeCycle'
  BY DEF LifeCycle
<1>2. OneCallEach'
  BY DEF OneCallEach
<1>3. WaitingIsBlank'
  BY DEF WaitingIsBlank, Blank
<1>4. CallFollowsStatus'
  BY DEF CallFollowsStatus, Serves, TypeOK
<1>5. FailedIsAbandoned'
  BY DEF FailedIsAbandoned, Owned, Serves, Queued, HeldBy
<1> HIDE DEF Ownership
<1> QED BY <1>1, <1>2, <1>3, <1>4, <1>5

\* There is no object yet.
LEMMA StartCalls ==
  ASSUME IInv, Ownership', Start
  PROVE  IInv'
<1> USE NoneAssumption DEF IInv, Ownership, Start, client, objects, runtime, threads
<1>1. LifeCycle'
  BY DEF LifeCycle
<1>2. OneCallEach'
  BY DEF OneCallEach
<1>3. WaitingIsBlank'
  BY DEF WaitingIsBlank, Blank
<1>4. CallFollowsStatus'
  BY DEF CallFollowsStatus, Serves
<1>5. FailedIsAbandoned'
  BY DEF FailedIsAbandoned, LifeCycle
<1> HIDE DEF Ownership
<1> QED BY <1>1, <1>2, <1>3, <1>4, <1>5

\* When the threads are stopped, all of them have left.
LEMMA StopCalls ==
  ASSUME IInv, Ownership', Stop \/ ShutdownReturns \/ UNCHANGED vars
  PROVE  IInv'
<1> USE NoneAssumption DEF IInv, Ownership, Stop, ShutdownReturns, vars, client,
                       objects, runtime, threads
<1>1. LifeCycle'
  BY DEF LifeCycle
<1>2. OneCallEach'
  BY DEF OneCallEach
<1>3. WaitingIsBlank'
  BY DEF WaitingIsBlank, Blank
<1>4. CallFollowsStatus'
  BY DEF CallFollowsStatus, Serves
<1>5. FailedIsAbandoned'
  BY DEF FailedIsAbandoned, Owned, Serves, Queued, HeldBy
<1> HIDE DEF Ownership
<1> QED BY <1>1, <1>2, <1>3, <1>4, <1>5

\* At the start there is no object, no thread and no call.
LEMMA InitInv == Init => IInv
<1> SUFFICES ASSUME Init PROVE IInv
  OBVIOUS
<1>1. Ownership
  BY OwnershipInit
<1>2. LifeCycle /\ OneCallEach /\ WaitingIsBlank /\ CallFollowsStatus /\ FailedIsAbandoned
  BY DEF Init, LifeCycle, OneCallEach, WaitingIsBlank, CallFollowsStatus, FailedIsAbandoned
<1> QED BY <1>1, <1>2 DEF IInv

\* One lemma per action gives the step.
LEMMA NextInv == IInv /\ [Next]_vars => IInv'
<1> SUFFICES ASSUME IInv, [Next]_vars PROVE IInv'
  OBVIOUS
<1>1. Ownership'
  BY OwnershipNext DEF IInv
<1>2. ASSUME NEW c \in Calls, StartCall(c) \/ Cancel(c) \/ Refuse(c)
      PROVE  IInv'
  BY <1>1, <1>2, StartCallCalls, CancelCalls, RefuseCalls
<1>3. ASSUME NEW c \in Calls, NEW d \in Addresses, MatchCall(c, d)
      PROVE  IInv'
  BY <1>1, <1>3, MatchCallCalls
<1>4. ASSUME NEW d \in Addresses, CompleteFinish(d) \/ FlushRequest(d)
      PROVE  IInv'
  BY <1>1, <1>4, CompleteFinishCalls, FlushRequestCalls
<1>5. ASSUME NEW h \in Handlers, HandlerStep(h)
      PROVE  IInv'
  <2>1. ASSUME NEW d \in Addresses,
               \/ EnterLoop(h, d) \/ Spawn(h, d)
               \/ HandleEvent(h, d) \/ LeaveLoop(h, d)
        PROVE  IInv'
    BY <1>1, <2>1, EnterLoopCalls, SpawnCalls, HandleEventCalls, LeaveLoopCalls
  <2>2. CASE ProceedCreate(h) \/ RequestComputeSum(h) \/ Compute(h)
    BY <1>1, <2>2, ProceedCreateCalls, RequestComputeSumCalls, ComputeCalls
  <2>3. CASE SetFinish(h) \/ Finish(h) \/ Delete(h)
    BY <1>1, <2>3, SetFinishCalls, FinishCalls, DeleteCalls
  <2> QED BY <1>5, <2>1, <2>2, <2>3 DEF HandlerStep
<1>6. CASE Start \/ Stop \/ ShutdownReturns \/ UNCHANGED vars
  BY <1>1, <1>6, StartCalls, StopCalls
<1> QED BY <1>2, <1>3, <1>4, <1>5, <1>6 DEF Next, Match

\* Objects, threads, events and calls stay consistent in every behaviour of the
\* server, with any number of HandleRpcs threads.
THEOREM Invariance == Spec => []IInv
BY InitInv, NextInv, PTL DEF Spec

-----------------------------------------------------------------------------
(* Counting.  The sets are finite because a step adds one element at most;  *)
(* nothing is assumed of Calls, Handlers or Addresses.                      *)

Entered == {h \in Handlers : pc[h] # "enter"}
Left    == {h \in Handlers : pc[h] = "left"}
Lost    == {d \in heap : ~Owned(d)}
GaveUp  == {c \in Calls : rpc[c] = "cancelled"}

SameSize(S, T) == IsFiniteSet(S) /\ IsFiniteSet(T) /\ Cardinality(S) = Cardinality(T)

CountInv == /\ server = "running" => SameSize(Waiting, Entered)
            /\ server \in {"running", "draining"} => SameSize(Lost, Left)
            /\ IsFiniteSet(GaveUp)

\* Two sets that grow by a new element each keep the same size.
LEMMA BothGrow ==
  ASSUME NEW S, NEW T, SameSize(S, T), NEW x, x \notin S, NEW y, y \notin T
  PROVE  SameSize(S \cup {x}, T \cup {y})
BY FS_AddElement DEF SameSize

\* So does a set in which one element takes the place of another.
LEMMA OneReplaced ==
  ASSUME NEW S, NEW T, SameSize(S, T), NEW x \in S, NEW y, y \notin S
  PROVE  SameSize((S \ {x}) \cup {y}, T)
<1>1. IsFiniteSet(S \ {x}) /\ Cardinality(S \ {x}) = Cardinality(S) - 1
  BY FS_RemoveElement DEF SameSize
<1>2. Cardinality(S) \in Nat /\ y \notin S \ {x}
  BY FS_CardinalityType DEF SameSize
<1>3. /\ IsFiniteSet((S \ {x}) \cup {y})
      /\ Cardinality((S \ {x}) \cup {y}) = Cardinality(S \ {x}) + 1
  BY <1>1, <1>2, FS_AddElement
<1> QED BY <1>1, <1>2, <1>3 DEF SameSize

\* Membership of Waiting, element by element.
Waits(d) ==
    \/ d \in requested
    \/ d \in succeeded /\ status[d] = "PROCESS"
    \/ \E h \in Handlers : pc[h] = "proceed" /\ status[this[h]] = "PROCESS" /\ d = this[h]
    \/ \E h \in Handlers : fresh[h] # None /\ d = fresh[h]

\* The set and the condition say the same, before and after a step.
LEMMA WaitsInWaiting ==
  /\ \A d : d \in Waiting <=> Waits(d)
  /\ \A d : d \in Waiting' <=> Waits(d)'
BY DEF Waiting, Waits

\* An object that is matched, or whose event is taken, still waits: only its
\* owner changes.
LEMMA StillWaiting ==
  ASSUME IInv,
         \/ \E c \in Calls : StartCall(c) \/ Cancel(c) \/ Refuse(c)
         \/ Match
         \/ \E d \in Addresses : CompleteFinish(d)
         \/ \E h \in Handlers :
              \/ ProceedCreate(h) \/ RequestComputeSum(h)
              \/ \E d \in Addresses : HandleEvent(h, d) \/ LeaveLoop(h, d)
              \/ Compute(h) \/ SetFinish(h) \/ Finish(h) \/ Delete(h)
         \/ UNCHANGED vars
  PROVE  Waiting' = Waiting /\ Entered' = Entered
<1> USE NoneAssumption DEF IInv, Ownership, client, objects, runtime, threads
<1> SUFFICES ASSUME NEW e
             PROVE  (Waits(e)' <=> Waits(e)) /\ Entered' = Entered
  BY WaitsInWaiting

<1>1. ASSUME NEW c \in Calls, StartCall(c) \/ Cancel(c) \/ Refuse(c)
      PROVE  (Waits(e)' <=> Waits(e)) /\ Entered' = Entered
  BY <1>1 DEF StartCall, Cancel, Refuse, Waits, Entered
<1>2. ASSUME NEW c \in Calls, NEW d \in Addresses, MatchCall(c, d)
      PROVE  (Waits(e)' <=> Waits(e)) /\ Entered' = Entered
  BY <1>2 DEF MatchCall, Waits, Entered, StatusFollowsControl
<1>3. ASSUME NEW d \in Addresses, CompleteFinish(d)
      PROVE  (Waits(e)' <=> Waits(e)) /\ Entered' = Entered
  BY <1>3 DEF CompleteFinish, Waits, Entered, StatusFollowsControl
<1>4. ASSUME NEW h \in Handlers, ProceedCreate(h)
      PROVE  (Waits(e)' <=> Waits(e)) /\ Entered' = Entered
  BY <1>4 DEF ProceedCreate, Waits, Entered, TypeOK
<1>5. ASSUME NEW h \in Handlers, RequestComputeSum(h)
      PROVE  (Waits(e)' <=> Waits(e)) /\ Entered' = Entered
  BY <1>5 DEF RequestComputeSum, Waits, Entered, ThreadShape
<1>6. ASSUME NEW h \in Handlers, NEW d \in Addresses, HandleEvent(h, d)
      PROVE  (Waits(e)' <=> Waits(e)) /\ Entered' = Entered
  BY <1>6 DEF HandleEvent, Waits, Entered, TypeOK
<1>7. ASSUME NEW h \in Handlers, NEW d \in Addresses, LeaveLoop(h, d)
      PROVE  (Waits(e)' <=> Waits(e)) /\ Entered' = Entered
  BY <1>7 DEF LeaveLoop, Waits, Entered
<1>8. ASSUME NEW h \in Handlers, Compute(h)
      PROVE  (Waits(e)' <=> Waits(e)) /\ Entered' = Entered
  BY <1>8 DEF Compute, Waits, Entered
<1>9. ASSUME NEW h \in Handlers, SetFinish(h)
      PROVE  (Waits(e)' <=> Waits(e)) /\ Entered' = Entered
  BY <1>9 DEF SetFinish, Waits, Entered, TypeOK, SingleOwner, Queued, HeldBy
<1>10. ASSUME NEW h \in Handlers, Finish(h)
      PROVE  (Waits(e)' <=> Waits(e)) /\ Entered' = Entered
  BY <1>10 DEF Finish, Waits, Entered
<1>11. ASSUME NEW h \in Handlers, Delete(h)
      PROVE  (Waits(e)' <=> Waits(e)) /\ Entered' = Entered
  BY <1>11 DEF Delete, Waits, Entered, TypeOK
<1>12. CASE UNCHANGED vars
  BY <1>12 DEF vars, Waits, Entered
<1> QED BY <1>1, <1>2, <1>3, <1>4, <1>5, <1>6, <1>7, <1>8, <1>9, <1>10, <1>11,
             <1>12 DEF Match

\* An object is lost when its failed event is taken, and only then.
LEMMA StillOwned ==
  ASSUME IInv,
         \/ \E c \in Calls : StartCall(c) \/ Cancel(c) \/ Refuse(c)
         \/ Match
         \/ \E d \in Addresses : CompleteFinish(d) \/ FlushRequest(d)
         \/ \E h \in Handlers :
              \/ \E d \in Addresses : EnterLoop(h, d) \/ Spawn(h, d) \/ HandleEvent(h, d)
              \/ ProceedCreate(h) \/ RequestComputeSum(h)
              \/ Compute(h) \/ SetFinish(h) \/ Finish(h) \/ Delete(h)
         \/ Stop \/ ShutdownReturns \/ UNCHANGED vars
  PROVE  Lost' = Lost /\ Left' = Left
<1> USE NoneAssumption DEF IInv, Ownership, client, objects, runtime, threads
<1> SUFFICES ASSUME NEW e
             PROVE  (e \in heap' /\ ~Owned(e)' <=> e \in heap /\ ~Owned(e)) /\ Left' = Left
  BY DEF Lost

<1>1. ASSUME NEW c \in Calls, StartCall(c) \/ Cancel(c) \/ Refuse(c)
      PROVE  (e \in heap' /\ ~Owned(e)' <=> e \in heap /\ ~Owned(e)) /\ Left' = Left
  BY <1>1 DEF StartCall, Cancel, Refuse, Owned, Left, Queued, HeldBy
<1>2. ASSUME NEW c \in Calls, NEW d \in Addresses, MatchCall(c, d)
      PROVE  (e \in heap' /\ ~Owned(e)' <=> e \in heap /\ ~Owned(e)) /\ Left' = Left
  BY <1>2 DEF MatchCall, Owned, Left, Queued, HeldBy
<1>3. ASSUME NEW d \in Addresses, CompleteFinish(d)
      PROVE  (e \in heap' /\ ~Owned(e)' <=> e \in heap /\ ~Owned(e)) /\ Left' = Left
  BY <1>3 DEF CompleteFinish, Owned, Left, Queued, HeldBy
<1>4. ASSUME NEW d \in Addresses, FlushRequest(d)
      PROVE  (e \in heap' /\ ~Owned(e)' <=> e \in heap /\ ~Owned(e)) /\ Left' = Left
  BY <1>4 DEF FlushRequest, Owned, Left, Queued, HeldBy
<1>5. ASSUME NEW h \in Handlers, NEW d \in Addresses, EnterLoop(h, d)
      PROVE  (e \in heap' /\ ~Owned(e)' <=> e \in heap /\ ~Owned(e)) /\ Left' = Left
  BY <1>5 DEF EnterLoop, Construct, Owned, Left, TypeOK, ThreadShape, Queued, HeldBy
<1>6. ASSUME NEW h \in Handlers, NEW d \in Addresses, Spawn(h, d)
      PROVE  (e \in heap' /\ ~Owned(e)' <=> e \in heap /\ ~Owned(e)) /\ Left' = Left
  BY <1>6 DEF Spawn, Construct, Owned, Left, TypeOK, ThreadShape, Queued, HeldBy
<1>7. ASSUME NEW h \in Handlers, ProceedCreate(h)
      PROVE  (e \in heap' /\ ~Owned(e)' <=> e \in heap /\ ~Owned(e)) /\ Left' = Left
  BY <1>7 DEF ProceedCreate, Owned, Left, Queued, HeldBy
<1>8. ASSUME NEW h \in Handlers, RequestComputeSum(h)
      PROVE  (e \in heap' /\ ~Owned(e)' <=> e \in heap /\ ~Owned(e)) /\ Left' = Left
  BY <1>8 DEF RequestComputeSum, Owned, Left, TypeOK, Queued, HeldBy
<1>9. ASSUME NEW h \in Handlers, NEW d \in Addresses, HandleEvent(h, d)
      PROVE  (e \in heap' /\ ~Owned(e)' <=> e \in heap /\ ~Owned(e)) /\ Left' = Left
  BY <1>9 DEF HandleEvent, Owned, Left, TypeOK, ThreadShape, Queued, HeldBy
<1>10. ASSUME NEW h \in Handlers, Compute(h)
      PROVE  (e \in heap' /\ ~Owned(e)' <=> e \in heap /\ ~Owned(e)) /\ Left' = Left
  BY <1>10 DEF Compute, Owned, Left, Queued, HeldBy
<1>11. ASSUME NEW h \in Handlers, SetFinish(h)
      PROVE  (e \in heap' /\ ~Owned(e)' <=> e \in heap /\ ~Owned(e)) /\ Left' = Left
  BY <1>11 DEF SetFinish, Owned, Left, Queued, HeldBy
<1>12. ASSUME NEW h \in Handlers, Finish(h)
      PROVE  (e \in heap' /\ ~Owned(e)' <=> e \in heap /\ ~Owned(e)) /\ Left' = Left
  BY <1>12 DEF Finish, Owned, Left, TypeOK, Queued, HeldBy
<1>13. ASSUME NEW h \in Handlers, Delete(h)
      PROVE  (e \in heap' /\ ~Owned(e)' <=> e \in heap /\ ~Owned(e)) /\ Left' = Left
  BY <1>13 DEF Delete, Owned, Left, TypeOK, Queued, HeldBy
<1>14. CASE Stop \/ ShutdownReturns
  BY <1>14 DEF Stop, ShutdownReturns, Owned, Left, Queued, HeldBy
<1>15. CASE UNCHANGED vars
  BY <1>15 DEF vars, Owned, Left, Queued, HeldBy
<1> QED BY <1>1, <1>2, <1>3, <1>4, <1>5, <1>6, <1>7, <1>8, <1>9, <1>10, <1>11,
             <1>12, <1>13, <1>14, <1>15 DEF Match

\* The first object of a thread: one more waits, one more thread has entered.
LEMMA EnterLoopCounts ==
  ASSUME IInv, CountInv, NEW h \in Handlers, NEW d \in Addresses, EnterLoop(h, d)
  PROVE  CountInv'
<1>1. /\ d \notin Waiting /\ Waiting' = Waiting \cup {d}
      /\ h \notin Entered /\ Entered' = Entered \cup {h}
  <2> USE NoneAssumption DEF IInv, Ownership, EnterLoop, Construct, objects, runtime
  <2>1. ~Waits(d) /\ \A e : Waits(e)' <=> Waits(e) \/ e = d
    BY DEF Waits, TypeOK, ThreadShape, NoUseAfterFree, Queued
  <2>2. h \notin Entered /\ Entered' = Entered \cup {h}
    BY DEF Entered, TypeOK
  <2> QED BY <2>1, <2>2, WaitsInWaiting
<1>2. Lost' = Lost /\ Left' = Left /\ server' = server /\ GaveUp' = GaveUp
  BY StillOwned DEF EnterLoop, Construct, client, GaveUp
<1> QED BY <1>1, <1>2, BothGrow DEF CountInv

\* The object that begins to serve stops waiting as the next one starts.
LEMMA SpawnCounts ==
  ASSUME IInv, CountInv, NEW h \in Handlers, NEW d \in Addresses, Spawn(h, d)
  PROVE  CountInv'
<1>1. /\ this[h] \in Waiting /\ d \notin Waiting
      /\ Waiting' = (Waiting \ {this[h]}) \cup {d} /\ Entered' = Entered
  <2> USE NoneAssumption DEF IInv, Ownership, Spawn, Construct, objects, runtime
  <2>1. Waits(this[h]) /\ ~Waits(d)
    BY DEF Waits, NoUseAfterFree, Queued
  <2>2. \A e : Waits(e)' <=> (Waits(e) /\ e # this[h]) \/ e = d
    BY DEF Waits, TypeOK, ThreadShape, SingleOwner, StatusFollowsControl, Queued,
           HeldBy
  <2>3. Entered' = Entered
    BY DEF Entered
  <2> QED BY <2>1, <2>2, <2>3, WaitsInWaiting
<1>2. Lost' = Lost /\ Left' = Left /\ server' = server /\ GaveUp' = GaveUp
  BY StillOwned DEF Spawn, Construct, client, GaveUp
<1> QED BY <1>1, <1>2, OneReplaced DEF CountInv

\* A thread leaves and takes an object with it.
LEMMA LeaveLoopCounts ==
  ASSUME IInv, CountInv, NEW h \in Handlers, NEW d \in Addresses, LeaveLoop(h, d)
  PROVE  CountInv'
<1>1. /\ d \notin Lost /\ Lost' = Lost \cup {d}
      /\ h \notin Left /\ Left' = Left \cup {h}
  <2> USE NoneAssumption DEF IInv, Ownership, LeaveLoop, objects
  <2>1. /\ d \in heap /\ Owned(d)
        /\ \A e : Owned(e)' <=> Owned(e) /\ e # d
    BY DEF Owned, NoUseAfterFree, SingleOwner, Queued, HeldBy
  <2>2. h \notin Left /\ Left' = Left \cup {h}
    BY DEF Left, TypeOK
  <2> QED BY <2>1, <2>2 DEF Lost
<1>2. Waiting' = Waiting /\ Entered' = Entered /\ server' = server /\ GaveUp' = GaveUp
  BY StillWaiting DEF LeaveLoop, client, GaveUp
<1> QED BY <1>1, <1>2, BothGrow DEF CountInv

\* The loop begins with nothing on either side.
LEMMA StartCounts ==
  ASSUME IInv, CountInv, Start
  PROVE  CountInv'
<1> USE DEF Start, client, objects, runtime
<1>1. GaveUp' = GaveUp
  BY DEF GaveUp
<1>2. CASE server' = "running"
  <2>1. heap = {} /\ Entered' = {} /\ Left' = {}
    BY <1>2 DEF IInv, LifeCycle, Entered, Left
  <2>2. requested = {} /\ succeeded = {} /\ \A h \in Handlers : this[h] = None /\ fresh[h] = None
    BY <2>1 DEF IInv, Ownership, NoUseAfterFree, Queued
  <2>3. Waiting' = {} /\ Lost' = {}
    BY <1>2, <2>1, <2>2 DEF Waiting, Lost
  <2> QED BY <1>1, <2>1, <2>3, FS_EmptySet DEF CountInv, SameSize
<1>3. CASE server' # "running"
  BY <1>1, <1>3 DEF CountInv
<1> QED BY <1>2, <1>3

\* A step changes the state of one call at most.
LEMMA OneCallMoves ==
  ASSUME [Next]_vars
  PROVE  rpc' = rpc \/ \E c, s : rpc' = [rpc EXCEPT ![c] = s]
<1>1. ASSUME NEW c \in Calls, StartCall(c) \/ Cancel(c) \/ Refuse(c)
      PROVE  \E s : rpc' = [rpc EXCEPT ![c] = s]
  BY <1>1 DEF StartCall, Cancel, Refuse
<1>2. ASSUME NEW c \in Calls, NEW d \in Addresses, MatchCall(c, d)
      PROVE  rpc' = [rpc EXCEPT ![c] = "matched"]
  BY <1>2 DEF MatchCall
<1>3. ASSUME NEW d \in Addresses, CompleteFinish(d)
      PROVE  rpc' = rpc \/ rpc' = [rpc EXCEPT ![request[d]] = "answered"]
  BY <1>3 DEF CompleteFinish, client
<1>4. ASSUME NEW h \in Handlers, HandlerStep(h)
      PROVE  rpc' = rpc
  BY <1>4 DEF HandlerStep, EnterLoop, Spawn, Construct, HandleEvent, LeaveLoop,
              ProceedCreate, RequestComputeSum, Compute, SetFinish, Finish, Delete,
              client
<1>5. ASSUME \/ \E d \in Addresses : FlushRequest(d)
             \/ Start \/ Stop \/ ShutdownReturns \/ UNCHANGED vars
      PROVE  rpc' = rpc
  BY <1>5 DEF FlushRequest, Start, Stop, ShutdownReturns, vars, client
<1> QED BY <1>1, <1>2, <1>3, <1>4, <1>5 DEF Next, Match

\* So the clients that gave up are finitely many, however many there are.
LEMMA GaveUpFinite ==
  ASSUME IInv, [Next]_vars, IsFiniteSet(GaveUp)
  PROVE  IsFiniteSet(GaveUp)'
<1>1. \E c : GaveUp' \subseteq GaveUp \cup {c}
  BY OneCallMoves DEF GaveUp, IInv, Ownership, TypeOK
<1> QED BY <1>1, FS_AddElement, FS_Subset

\* Before Start nothing is counted.
LEMMA CountInit == Init => CountInv
<1> SUFFICES ASSUME Init PROVE CountInv
  OBVIOUS
<1>1. GaveUp = {} /\ server = "none"
  BY DEF Init, GaveUp
<1> QED BY <1>1, FS_EmptySet DEF CountInv

\* Every step keeps the counts.
LEMMA CountNext == IInv /\ CountInv /\ [Next]_vars => CountInv'
<1> SUFFICES ASSUME IInv, CountInv, [Next]_vars PROVE CountInv'
  OBVIOUS
<1>1. IsFiniteSet(GaveUp)'
  BY GaveUpFinite DEF CountInv
<1>2. CASE \/ \E c \in Calls : StartCall(c) \/ Cancel(c) \/ Refuse(c)
           \/ Match
           \/ \E d \in Addresses : CompleteFinish(d)
           \/ UNCHANGED vars
  <2>1. server' = server
    BY <1>2 DEF StartCall, Cancel, Refuse, Match, MatchCall, CompleteFinish, vars
  <2> QED BY <1>1, <1>2, <2>1, StillWaiting, StillOwned DEF CountInv
<1>3. ASSUME NEW d \in Addresses, FlushRequest(d)
      PROVE  CountInv'
  <2>1. server = "draining" /\ server' = server
    BY <1>3 DEF FlushRequest
  <2> QED BY <1>1, <1>3, <2>1, StillOwned DEF CountInv
<1>4. ASSUME NEW h \in Handlers, HandlerStep(h)
      PROVE  CountInv'
  <2>1. ASSUME NEW d \in Addresses, EnterLoop(h, d) \/ Spawn(h, d) \/ LeaveLoop(h, d)
        PROVE  CountInv'
    BY <2>1, EnterLoopCounts, SpawnCounts, LeaveLoopCounts
  <2>2. CASE \/ ProceedCreate(h) \/ RequestComputeSum(h)
             \/ \E d \in Addresses : HandleEvent(h, d)
             \/ Compute(h) \/ SetFinish(h) \/ Finish(h) \/ Delete(h)
    <3>1. server' = server
      BY <2>2 DEF ProceedCreate, RequestComputeSum, HandleEvent, Compute, SetFinish,
                  Finish, Delete
    <3> QED BY <1>1, <2>2, <3>1, StillWaiting, StillOwned DEF CountInv
  <2> QED BY <1>4, <2>1, <2>2 DEF HandlerStep
<1>5. CASE Start
  BY <1>5, StartCounts
<1>6. CASE Stop \/ ShutdownReturns
  <2>1. server' # "running" /\ (server' = "draining" => server = "running")
    BY <1>6 DEF Stop, ShutdownReturns
  <2> QED BY <1>1, <1>6, <2>1, StillOwned DEF CountInv
<1> QED BY <1>2, <1>3, <1>4, <1>5, <1>6 DEF Next

\* Every thread in the loop keeps one object waiting for the next call, however
\* slow or abandoned the calls are (server.cpp:37-39, 119-120).
THEOREM AcceptCapacityKept == Spec => []AcceptCapacity
<1>1. CountInv => AcceptCapacity
  BY DEF CountInv, AcceptCapacity, SameSize, Entered
<1> QED BY <1>1, CountInit, CountNext, Invariance, PTL DEF Spec

\* One object is lost per thread that left HandleRpcs (server.cpp:125-126), and
\* no other.
THEOREM OneLeakPerExit == Spec => []LeakPerExit
<1>1. CountInv => LeakPerExit
  BY DEF CountInv, LeakPerExit, SameSize, Lost, Left
<1> QED BY <1>1, CountInit, CountNext, Invariance, PTL DEF Spec

\* The lost objects hold calls that were given up, no two the same: so there
\* are as many such calls as threads that left before the shutdown.
THEOREM NoExitWithoutCancel == Spec => []LoopEndsOnCancelOnly
<1>1. IInv /\ CountInv => LoopEndsOnCancelOnly
  <2> SUFFICES ASSUME IInv, CountInv, server = "running"
               PROVE  Cardinality(Left) <= Cardinality(GaveUp)
    BY DEF LoopEndsOnCancelOnly, Left, GaveUp
  <2>1. [d \in Lost |-> request[d]] \in Injection(Lost, GaveUp)
    <3>1. \A d \in Lost : d \in heap /\ request[d] \in GaveUp
      BY DEF IInv, FailedIsAbandoned, Serves, Lost, GaveUp
    <3>2. \A d, e \in Lost : request[d] = request[e] => d = e
      BY <3>1, NoneAssumption DEF IInv, OneCallEach, GaveUp
    <3> QED BY <3>1, <3>2 DEF Injection, IsInjective
  <2>2. Cardinality(Lost) <= Cardinality(GaveUp)
    BY <2>1, FS_Injection DEF CountInv
  <2> QED BY <2>2 DEF CountInv, SameSize
<1> QED BY <1>1, CountInit, CountNext, Invariance, PTL DEF Spec

-----------------------------------------------------------------------------
(* The refinement of UnaryService.  Only StartCall, Cancel, Refuse, the     *)
(* Compute of a live call, an answered Finish and the life cycle are seen   *)
(* through the mapping; every other step must leave the abstract state of   *)
(* every call as it is.                                                     *)

\* The abstract state of one call.
Abstract(c) == CASE rpc[c] = "sent"    -> "pending"
                 [] rpc[c] = "matched" -> IF Executed(c) THEN "executed" ELSE "pending"
                 [] OTHER              -> rpc[c]

\* The abstract state of the calls, as a function.
LEMMA AbstractOf == AbstractRpc = [c \in Calls |-> Abstract(c)]
BY DEF AbstractRpc, Abstract

\* A step that no client and no caller of the service can see.
LEMMA Stutter ==
  ASSUME \A c \in Calls : Abstract(c)' = Abstract(c), reply' = reply,
         (server = "running")' <=> (server = "running")
  PROVE  [Service!Next]_(Service!vars)
<1>1. AbstractRpc' = AbstractRpc
  BY DEF AbstractRpc, Abstract
<1>2. (server = "running")' = (server = "running")
  OBVIOUS
<1> QED BY <1>1, <1>2 DEF Service!vars

\* A step that moves one call.
LEMMA OneChanges ==
  ASSUME NEW c \in Calls, \A e \in Calls \ {c} : Abstract(e)' = Abstract(e)
  PROVE  AbstractRpc' = [AbstractRpc EXCEPT ![c] = Abstract(c)']
BY DEF AbstractRpc, Abstract

\* A call is submitted; without a server it has failed.
LEMMA StartCallRefines ==
  ASSUME IInv, NEW c \in Calls, StartCall(c)
  PROVE  [Service!Next]_(Service!vars)
<1> USE DEF IInv, Ownership, TypeOK, StartCall, objects
<1>1. \A e \in Calls \ {c} : Abstract(e)' = Abstract(e)
  BY DEF Abstract, Executed
<1>2. /\ Abstract(c) = "idle"
      /\ Abstract(c)' = IF server = "running" THEN "pending" ELSE "failed"
  BY DEF Abstract
<1>3. Service!StartCall(c)
  BY <1>1, <1>2, OneChanges, AbstractOf DEF Service!StartCall
<1> QED BY <1>3 DEF Service!Next

\* A client that gives up or is gone fails its own call.
LEMMA CancelRefines ==
  ASSUME IInv, NEW c \in Calls, Cancel(c)
  PROVE  [Service!Next]_(Service!vars)
<1> USE DEF IInv, Ownership, TypeOK, Cancel, objects
<1>1. \A e \in Calls \ {c} : Abstract(e)' = Abstract(e)
  BY DEF Abstract, Executed
<1>2. Abstract(c) \in {"pending", "executed"} /\ Abstract(c)' = "cancelled"
  BY DEF Abstract
<1>3. Service!Cancel(c)
  BY <1>1, <1>2, OneChanges, AbstractOf DEF Service!Cancel
<1> QED BY <1>3 DEF Service!Next

\* A call that the server no longer takes fails.
LEMMA RefuseRefines ==
  ASSUME IInv, NEW c \in Calls, Refuse(c)
  PROVE  [Service!Next]_(Service!vars)
<1> USE DEF IInv, Ownership, TypeOK, Refuse, objects
<1>1. \A e \in Calls \ {c} : Abstract(e)' = Abstract(e)
  BY DEF Abstract, Executed
<1>2. Abstract(c) = "pending" /\ Abstract(c)' = "failed"
  BY DEF Abstract
<1>3. Service!Fail(c)
  BY <1>1, <1>2, OneChanges, AbstractOf DEF Service!Fail
<1> QED BY <1>3 DEF Service!Next

\* The object that takes the call is blank, and no other holds that call: it is
\* pending still.
LEMMA MatchCallRefines ==
  ASSUME IInv, NEW c \in Calls, NEW d \in Addresses, MatchCall(c, d)
  PROVE  [Service!Next]_(Service!vars)
<1> USE NoneAssumption DEF IInv, Ownership, TypeOK, MatchCall
<1>1. \A e \in Calls \ {c} : Executed(e)' <=> Executed(e)
  BY DEF Executed, WaitingIsBlank, Blank
<1>2. ~Executed(c)'
  BY DEF Executed, OneCallEach, WaitingIsBlank, Blank
<1>3. \A e \in Calls : Abstract(e)' = Abstract(e)
  BY <1>1, <1>2 DEF Abstract
<1> QED BY <1>3, Stutter

\* A Finish that completes with ok finds the result in place, and it is that of
\* its own call.
LEMMA CompleteFinishRefines ==
  ASSUME IInv, NEW d \in Addresses, CompleteFinish(d)
  PROVE  [Service!Next]_(Service!vars)
<1> USE DEF IInv, Ownership, TypeOK, CompleteFinish, objects, client
<1> DEFINE c == request[d]
<1>1. d \in heap /\ c \in Calls /\ response[d] = c
  BY DEF NoUseAfterFree, CallFollowsStatus, Serves
<1>2. \A e \in Calls \ {c} : Abstract(e)' = Abstract(e)
  BY DEF Abstract, Executed
<1>3. CASE rpc[c] = "matched"
  <2>1. Abstract(c) = "executed" /\ Abstract(c)' = "answered"
    BY <1>1, <1>3 DEF Abstract, Executed
  <2>2. Service!Answer(c)
    BY <1>1, <1>2, <1>3, <2>1, OneChanges, AbstractOf DEF Service!Answer
  <2> QED BY <1>1, <2>2 DEF Service!Next
<1>4. CASE rpc[c] # "matched"
  <2>1. Abstract(c)' = Abstract(c)
    BY <1>4 DEF Abstract
  <2> QED BY <1>1, <1>2, <1>4, <2>1, Stutter
<1> QED BY <1>3, <1>4

\* Steps that only move an object between its owners.
LEMMA MoveRefines ==
  ASSUME UNCHANGED <<client, heap, request, response, server>>
  PROVE  [Service!Next]_(Service!vars)
<1>1. \A e \in Calls : Abstract(e)' = Abstract(e)
  BY DEF Abstract, Executed, client
<1> QED BY <1>1, Stutter DEF client

\* A new object has no result; the address is not that of a live one.
LEMMA ConstructRefines ==
  ASSUME IInv, NEW h \in Handlers, NEW d \in Addresses, Construct(h, d)
  PROVE  [Service!Next]_(Service!vars)
<1> USE NoneAssumption DEF IInv, Ownership, TypeOK, Construct, client
<1>1. \A e \in Calls : Executed(e)' <=> Executed(e)
  BY DEF Executed
<1>2. \A e \in Calls : Abstract(e)' = Abstract(e)
  BY <1>1 DEF Abstract
<1> QED BY <1>2, Stutter

\* set_result executes the call, if its client still waits: the object is the
\* only one that holds the call, and the server is not shutting down.
LEMMA ComputeRefines ==
  ASSUME IInv, NEW h \in Handlers, Compute(h)
  PROVE  [Service!Next]_(Service!vars)
<1> USE DEF IInv, Ownership, TypeOK, Compute, client
<1> DEFINE c == request[this[h]]
<1>1. c \in Calls /\ this[h] \in Addresses /\ this[h] \in heap /\ server = "running"
  BY DEF ThreadShape, CallFollowsStatus, Serves, NoUseAfterFree, LifeCycle
<1>2. \A e \in Calls \ {c} : Abstract(e)' = Abstract(e)
  BY <1>1 DEF Abstract, Executed
<1>3. CASE rpc[c] = "matched" /\ ~Executed(c)
  <2>1. Abstract(c) = "pending" /\ Abstract(c)' = "executed"
    BY <1>1, <1>3 DEF Abstract, Executed
  <2>2. Service!Execute(c)
    BY <1>1, <1>2, <2>1, OneChanges, AbstractOf DEF Service!Execute
  <2> QED BY <1>1, <2>2 DEF Service!Next
<1>4. CASE ~(rpc[c] = "matched" /\ ~Executed(c))
  <2>1. Abstract(c)' = Abstract(c)
    BY <1>1, <1>4 DEF Abstract, Executed
  <2> QED BY <1>1, <1>2, <2>1, Stutter
<1> QED BY <1>3, <1>4

\* The call of an object that is deleted is over: its execution is no longer
\* looked up.
LEMMA DeleteRefines ==
  ASSUME IInv, NEW h \in Handlers, Delete(h)
  PROVE  [Service!Next]_(Service!vars)
<1> USE DEF IInv, Ownership, TypeOK, Delete, client
<1>1. rpc[request[this[h]]] # "matched"
  BY DEF ThreadShape, CallFollowsStatus, Serves
<1>2. \A e \in Calls : rpc[e] = "matched" => (Executed(e)' <=> Executed(e))
  BY <1>1 DEF Executed
<1>3. \A e \in Calls : Abstract(e)' = Abstract(e)
  BY <1>2 DEF Abstract
<1> QED BY <1>3, Stutter

\* The life cycle of SumServiceImpl.
LEMMA LifeCycleRefines ==
  ASSUME Start \/ Stop \/ ShutdownReturns
  PROVE  [Service!Next]_(Service!vars)
<1> USE DEF Start, Stop, ShutdownReturns, client, objects
<1>1. \A e \in Calls : Abstract(e)' = Abstract(e)
  BY DEF Abstract, Executed
<1>2. CASE (server = "running")' <=> (server = "running")
  BY <1>1, <1>2, Stutter
<1>3. CASE ~((server = "running")' <=> (server = "running"))
  <2>1. AbstractRpc' = AbstractRpc
    BY <1>1 DEF AbstractRpc, Abstract
  <2>2. (server = "running")' = ~(server = "running")
    BY <1>3
  <2>3. Service!Switch
    BY <2>1, <2>2 DEF Service!Switch
  <2> QED BY <2>3 DEF Service!Next
<1> QED BY <1>2, <1>3

\* No call has been started.
LEMMA InitRefines == Init => Service!Init
<1> SUFFICES ASSUME Init PROVE Service!Init
  OBVIOUS
<1>1. AbstractRpc = [c \in Calls |-> "idle"]
  BY DEF Init, AbstractRpc
<1>2. (server = "running") = FALSE
  BY DEF Init
<1> QED BY <1>1, <1>2 DEF Init, Service!Init

\* Every step of the server is one of the abstract service, or none.
LEMMA NextRefines == IInv /\ [Next]_vars => [Service!Next]_(Service!vars)
<1> SUFFICES ASSUME IInv, [Next]_vars PROVE [Service!Next]_(Service!vars)
  OBVIOUS
<1>1. ASSUME NEW c \in Calls, StartCall(c) \/ Cancel(c) \/ Refuse(c)
      PROVE  [Service!Next]_(Service!vars)
  BY <1>1, StartCallRefines, CancelRefines, RefuseRefines
<1>2. ASSUME NEW c \in Calls, NEW d \in Addresses, MatchCall(c, d)
      PROVE  [Service!Next]_(Service!vars)
  BY <1>2, MatchCallRefines
<1>3. ASSUME NEW d \in Addresses, CompleteFinish(d) \/ FlushRequest(d)
      PROVE  [Service!Next]_(Service!vars)
  <2>1. CASE CompleteFinish(d)
    BY <2>1, CompleteFinishRefines
  <2>2. CASE FlushRequest(d)
    BY <2>2, MoveRefines DEF FlushRequest, objects
  <2> QED BY <1>3, <2>1, <2>2
<1>4. ASSUME NEW h \in Handlers, HandlerStep(h)
      PROVE  [Service!Next]_(Service!vars)
  <2>1. ASSUME NEW d \in Addresses, EnterLoop(h, d) \/ Spawn(h, d)
        PROVE  [Service!Next]_(Service!vars)
    BY <2>1, ConstructRefines DEF EnterLoop, Spawn
  <2>2. ASSUME NEW d \in Addresses, HandleEvent(h, d) \/ LeaveLoop(h, d)
        PROVE  [Service!Next]_(Service!vars)
    BY <2>2, MoveRefines DEF HandleEvent, LeaveLoop, objects
  <2>3. CASE \/ ProceedCreate(h) \/ RequestComputeSum(h)
             \/ SetFinish(h) \/ Finish(h)
    BY <2>3, MoveRefines DEF ProceedCreate, RequestComputeSum, SetFinish, Finish,
                             objects
  <2>4. CASE Compute(h) \/ Delete(h)
    BY <2>4, ComputeRefines, DeleteRefines
  <2> QED BY <1>4, <2>1, <2>2, <2>3, <2>4 DEF HandlerStep
<1>5. CASE Start \/ Stop \/ ShutdownReturns
  BY <1>5, LifeCycleRefines
<1>6. CASE UNCHANGED vars
  BY <1>6, MoveRefines DEF vars, objects
<1> QED BY <1>1, <1>2, <1>3, <1>4, <1>5, <1>6 DEF Next, Match

\* The server executes a call once at most, answers it once at most and with its
\* own sum, whatever the clients, the threads and the shutdown do.
THEOREM RefinesUnaryService == Spec => ImplementsUnaryService
BY Invariance, InitRefines, NextRefines, PTL DEF Spec, ImplementsUnaryService, Service!Spec
=============================================================================
