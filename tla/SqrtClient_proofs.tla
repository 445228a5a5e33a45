-------------------------- MODULE SqrtClient_proofs --------------------------
(***************************************************************************)
(* The handshake of 20 between Calculate and the callback of its call, for *)
(* command lines of any length: what main() reports is what the callback   *)
(* of this call stored, and the callback is over when Calculate returns.   *)
(***************************************************************************)
EXTENDS SqrtClient, SequenceTheorems, TLAPS

\* The call main() is in is one of the calls of the command line.
LEMMA ThisCall ==
  ASSUME TypeOK, i <= Len(args)
  PROVE  This \in Calls
<1>1. args \in Seq({"good", "negative", "junk"})
  BY ArgumentsAssumption DEF TypeOK
<1>2. Len(args) \in Nat
  BY <1>1
<1>3. i \in 1..Len(args)
  BY <1>2 DEF TypeOK
<1>4. QED
  BY <1>3 DEF This, Calls, TypeOK

\* A call goes through one of the clients.
LEMMA CallClient ==
  ASSUME NEW k \in Calls
  PROVE  k = <<k[1], k[2]>> /\ k[2] \in Clients
  BY DEF Calls

\* Nothing has been called at the start.
LEMMA InitIInv == ASSUME Init PROVE IInv
<1>1. args \in Seq({"good", "negative", "junk"})
  BY ArgumentsAssumption DEF Init
<1>2. Len(args) \in Nat
  BY <1>1
<1>3. TypeOK
  BY <1>2 DEF Init, TypeOK, Clients, Locations, Codes, Inside
<1>4. Consistent /\ OwnStatus /\ ReturnsAfterCallback
  BY DEF Init, Consistent, OwnStatus, ReturnsAfterCallback, InCall, Waiting, Inside
<1>5. QED
  BY <1>3, <1>4 DEF IInv

\* The steps of main() between its calls.
LEMMA LoopIInv ==
  ASSUME IInv, Skip \/ Parse \/ Return \/ Leave
  PROVE  IInv'
<1>1. Len(args) \in Nat
  BY ArgumentsAssumption DEF IInv, TypeOK
<1> USE <1>1
        DEF IInv, TypeOK, Consistent, OwnStatus, ReturnsAfterCallback, InCall, Waiting,
            Stored, Signaled, Inside, Calls, This, Locations, Clients, Goto, objects,
            calls
<1>2. CASE Skip
  BY <1>2 DEF Skip
<1>3. CASE Parse
  BY <1>3 DEF Parse
<1>4. CASE Return
  BY <1>4 DEF Return
<1>5. CASE Leave
  <2>1. TypeOK'
    <3>1. CASE client = "reactor"
      BY <1>5, <3>1 DEF Leave
    <3>2. CASE client = "callback"
      BY <1>5, <3>2 DEF Leave
    <3>3. QED
      BY <3>1, <3>2
  <2>2. \A k \in Calls : thread[k] \notin {"running", "answered"} \cup Inside
    BY <1>5 DEF Leave
  <2>3. Consistent'
    BY <1>5, <2>2 DEF Leave
  <2>4. OwnStatus' /\ ReturnsAfterCallback'
    BY <1>5, <2>2 DEF Leave
  <2>5. QED
    BY <2>1, <2>3, <2>4
<1>6. QED
  BY <1>2, <1>3, <1>4, <1>5

\* The calls of a command line do not change, nor does the call main() is in.
LEMMA CallFacts ==
  ASSUME IInv, InCall, UNCHANGED <<args, i, client>>
  PROVE  /\ This \in Calls /\ This[2] = client /\ client \in Clients
         /\ This' = This /\ Calls' = Calls
         /\ \A k \in Calls : k[2] \in Clients
<1>1. This \in Calls
  BY ThisCall DEF IInv, Consistent
<1>2. Calls' = Calls
  BY DEF Calls
<1>3. QED
  BY <1>1, <1>2, CallClient DEF This, IInv, TypeOK

\* The steps of main() in a call, but for the predicate of the wait.
LEMMA CallIInv ==
  ASSUME IInv,
         \/ Construct \/ Reset \/ Start \/ Lock
         \/ Wake("waiting") \/ Wake("notified") \/ Read \/ Unlock
  PROVE  IInv'
<1>1. InCall /\ UNCHANGED <<args, i, client>>
  BY DEF Construct, Reset, Start, Lock, Wake, Read, Unlock, Goto, InCall
<1>2. /\ This \in Calls /\ This[2] = client /\ client \in Clients
      /\ This' = This /\ Calls' = Calls
      /\ \A k \in Calls : k[2] \in Clients
  BY <1>1, CallFacts
<1> USE <1>1, <1>2
        DEF IInv, TypeOK, Consistent, OwnStatus, ReturnsAfterCallback, InCall, Waiting,
            Stored, Signaled, Inside, Locations, Clients, Goto, calls
<1>3. CASE Construct
  BY <1>3 DEF Construct
<1>4. CASE Reset
  BY <1>4 DEF Reset
<1>5. CASE Start
  BY <1>5 DEF Start, objects
<1>6. CASE Lock
  BY <1>6 DEF Lock
<1>7. CASE Wake("waiting") \/ Wake("notified")
  BY <1>7 DEF Wake
<1>8. CASE Read
  BY <1>8 DEF Read, objects
<1>9. CASE Unlock
  BY <1>9 DEF Unlock
<1>10. QED
  BY <1>3, <1>4, <1>5, <1>6, <1>7, <1>8, <1>9

\* The predicate of the wait: done is true only after the callback has left.
LEMMA TestIInv == ASSUME IInv, Test PROVE IInv'
<1>1. InCall /\ UNCHANGED <<args, i, client>>
  BY DEF Test, Goto, InCall
<1>2. /\ This \in Calls /\ This[2] = client /\ client \in Clients
      /\ This' = This /\ Calls' = Calls
      /\ \A k \in Calls : k[2] \in Clients
  BY <1>1, CallFacts
<1> USE <1>1, <1>2
        DEF IInv, TypeOK, Consistent, OwnStatus, ReturnsAfterCallback, InCall, Waiting,
            Stored, Signaled, Inside, Locations, Clients, Goto, calls
<1>3. CASE done[client] /\ pc' = "read"
  <2>1. pc = "test" /\ mtx[client] = "main"
    BY <1>3 DEF Test
  <2>2. thread[This] \notin Inside
    BY <2>1
  <2>3. thread[This] = "ended"
    BY <1>3, <2>1, <2>2
  <2>4. QED
    BY <1>3, <2>1, <2>3 DEF Test, objects
<1>4. CASE ~done[client] /\ pc' = "wait"
  BY <1>4 DEF Test
<1>5. QED
  BY <1>3, <1>4 DEF Test

\* The end of a call and the steps of its callback.
LEMMA CallbackIInv ==
  ASSUME IInv, NEW k \in Calls,
         Complete(k) \/ DoneLocks(k) \/ Callback(k)
  PROVE  IInv'
<1>1. k = This /\ InCall /\ UNCHANGED <<args, i, client>>
  BY DEF Complete, DoneLocks, Callback, SetStatus, SetDone, Notify, DoneUnlocks, Step,
         InCall, IInv, Consistent, Inside, Waiting
<1>2. /\ This \in Calls /\ This[2] = client /\ client \in Clients
      /\ This' = This /\ Calls' = Calls
      /\ \A l \in Calls : l[2] \in Clients
  BY <1>1, CallFacts
<1> USE <1>1, <1>2
        DEF IInv, TypeOK, Consistent, OwnStatus, ReturnsAfterCallback, InCall, Waiting,
            Stored, Signaled, Inside, Locations, Clients, Step
<1>3. CASE Complete(k)
  <2>1. \E code \in Codes : answer' = [answer EXCEPT ![k] = code]
    BY <1>3 DEF Complete, Calculate, Codes
  <2>2. QED
    BY <1>3, <2>1 DEF Complete, objects, Codes
<1>4. CASE DoneLocks(k)
  BY <1>4 DEF DoneLocks
<1>5. CASE SetStatus(k)
  BY <1>5 DEF SetStatus
<1>6. CASE SetDone(k)
  BY <1>6 DEF SetDone
<1>7. CASE Notify(k)
  BY <1>7 DEF Notify
<1>8. CASE DoneUnlocks(k)
  BY <1>8 DEF DoneUnlocks
<1>9. QED
  BY <1>3, <1>4, <1>5, <1>6, <1>7, <1>8 DEF Callback

\* A step that changes nothing.
LEMMA StutterIInv == ASSUME IInv, UNCHANGED vars PROVE IInv'
  BY DEF vars, objects, calls, IInv, TypeOK, Consistent, OwnStatus,
         ReturnsAfterCallback, InCall, This, Calls

\* The mutex, the flag, the status and the callback of a call stay consistent,
\* over any sequence of calls: the inductive invariant.
THEOREM Invariance == Spec => []IInv
<1>1. ASSUME IInv, [Next]_vars PROVE IInv'
  BY <1>1, LoopIInv, CallIInv, TestIInv, CallbackIInv, StutterIInv DEF Next, Main
<1>2. QED
  BY InitIInv, <1>1, PTL DEF Spec

\* Each call reports the status its own callback stored (sqrt-callback.hpp:20-44).
THEOREM StatusIsOwn == Spec => []OwnStatus
<1>1. IInv => OwnStatus
  BY DEF IInv
<1>2. QED
  BY Invariance, <1>1, PTL

\* Calculate does not return under the callback's hands (sqrt-reactor.hpp:18-32).
THEOREM CallbackIsOver == Spec => []ReturnsAfterCallback
<1>1. IInv => ReturnsAfterCallback
  BY DEF IInv
<1>2. QED
  BY Invariance, <1>1, PTL
=============================================================================
