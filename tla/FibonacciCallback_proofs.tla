---------------------- MODULE FibonacciCallback_proofs ----------------------
(***************************************************************************)
(* What holds of the stream of 07 for any number of clients and any window. *)
(*                                                                         *)
(* IInv says where every number of a stream is: already received, on its   *)
(* way, in the StartWrite under way or not yet computed.  From it follow   *)
(* that a client has a prefix of its own stream and not another's, that    *)
(* only calls that were lost abort a process, and that the reactors        *)
(* implement ResponseStream.                                               *)
(***************************************************************************)
EXTENDS FibonacciCallback, SequenceTheorems, TLAPS

\* The stream up to n.
LEMMA UptoProperties ==
  ASSUME NEW n \in Nat
  PROVE  Upto(n) \in Seq(Nat) /\ Len(Upto(n)) = n /\ \A i \in 1..n : Upto(n)[i] = i
BY DEF Upto

\* A sequence that counts from one is a prefix of any longer one that does.
LEMMA CountingIsPrefix ==
  ASSUME NEW s \in Seq(Nat), NEW n \in Nat, Len(s) <= n, \A i \in 1..Len(s) : s[i] = i
  PROVE  IsPrefix(s, Upto(n)) /\ (Len(s) = n => s = Upto(n))
<1>1. Upto(n) \in Seq(Nat) /\ Len(Upto(n)) = n /\ \A i \in 1..n : Upto(n)[i] = i
  BY UptoProperties
<1>2. Len(s) \in Nat
  BY LenProperties
<1>3. /\ SubSeq(s, 1, Len(s)) \in Seq(Nat)
      /\ SubSeq(Upto(n), 1, Len(s)) \in Seq(Nat)
      /\ Len(SubSeq(s, 1, Len(s))) = Len(s)
      /\ Len(SubSeq(Upto(n), 1, Len(s))) = Len(s)
      /\ \A i \in 1..Len(s) : SubSeq(s, 1, Len(s))[i] = SubSeq(Upto(n), 1, Len(s))[i]
  BY <1>1, <1>2, SubSeqProperties
<1>4. SubSeq(s, 1, Len(s)) = SubSeq(Upto(n), 1, Len(s))
  BY <1>3, SeqEqual
<1>5. Len(s) = n => s = Upto(n)
  BY <1>1, SeqEqual
<1> QED BY <1>1, <1>4, <1>5 DEF IsPrefix

\* The client has s, t is on its way, and at most n responses were taken: together
\* they count from one.
Counts(s, t, n) == /\ \A i \in 1..Len(s) : s[i] = i
                   /\ \A i \in 1..Len(t) : t[i] = Len(s) + i
                   /\ Len(s) + Len(t) <= n

\* The next response exists.
LEMMA CountsAtLeast ==
  ASSUME NEW s \in Seq(Nat), NEW t \in Seq(Nat), NEW n \in Nat, Counts(s, t, n - 1)
  PROVE  n \in Nat \ {0}
BY DEF Counts

\* A response joins the wire.
LEMMA TakesOne ==
  ASSUME NEW s \in Seq(Nat), NEW t \in Seq(Nat), NEW n \in Nat, Counts(s, t, n - 1),
         Len(s) + Len(t) = n - 1
  PROVE  Counts(s, Append(t, n), n) /\ Len(s) + Len(Append(t, n)) = n
<1>1. /\ Len(Append(t, n)) = Len(t) + 1 /\ Append(t, n)[Len(t) + 1] = n
      /\ \A i \in 1..Len(t) : Append(t, n)[i] = t[i]
  BY AppendProperties
<1>2. Len(s) + Len(Append(t, n)) = n
  BY <1>1
<1>3. ASSUME NEW i \in 1..Len(Append(t, n))
      PROVE  Append(t, n)[i] = Len(s) + i
  <2>1. CASE i = Len(t) + 1
    BY <1>1, <2>1
  <2>2. CASE i \in 1..Len(t)
    BY <1>1, <2>2 DEF Counts
  <2> QED BY <1>1, <2>1, <2>2
<1>4. \A i \in 1..Len(s) : s[i] = i
  BY DEF Counts
<1>5. Len(s) + Len(Append(t, n)) <= n
  BY <1>2
<1>6. \A i \in 1..Len(Append(t, n)) : Append(t, n)[i] = Len(s) + i
  BY <1>3
<1> HIDE <1>1
<1> QED BY <1>2, <1>4, <1>5, <1>6 DEF Counts

\* A response is dropped.
LEMMA DropsOne ==
  ASSUME NEW s \in Seq(Nat), NEW t \in Seq(Nat), NEW n \in Nat, Counts(s, t, n - 1)
  PROVE  Counts(s, t, n)
BY DEF Counts

\* The client reads a response.
LEMMA ReadsOne ==
  ASSUME NEW s \in Seq(Nat), NEW t \in Seq(Nat), t # <<>>, NEW n \in Int, Counts(s, t, n)
  PROVE  /\ Counts(Append(s, Head(t)), Tail(t), n)
         /\ Len(Append(s, Head(t))) + Len(Tail(t)) = Len(s) + Len(t)
<1>1. Head(t) \in Nat /\ Tail(t) \in Seq(Nat) /\ Len(Tail(t)) = Len(t) - 1
      /\ \A i \in 1..Len(Tail(t)) : Tail(t)[i] = t[i + 1]
  BY HeadTailProperties
<1>2. Head(t) = t[1] /\ Len(t) \in Nat \ {0}
  BY EmptySeq
<1>3. /\ Len(Append(s, Head(t))) = Len(s) + 1 /\ Append(s, Head(t))[Len(s) + 1] = Head(t)
      /\ \A i \in 1..Len(s) : Append(s, Head(t))[i] = s[i]
  BY <1>1, AppendProperties
<1>4. Head(t) = Len(s) + 1
  BY <1>2 DEF Counts
<1> QED BY <1>1, <1>2, <1>3, <1>4 DEF Counts

\* While something is on its way, there is more to read.
LEMMA NotFull ==
  ASSUME NEW s \in Seq(Nat), NEW t \in Seq(Nat), t # <<>>, NEW n \in Int, Counts(s, t, n)
  PROVE  Len(s) < n
<1>1. Len(t) \in Nat \ {0}
  BY EmptySeq
<1> QED BY <1>1 DEF Counts

\* A prefix has the type of the whole.
LEMMA PrefixType ==
  ASSUME NEW S, NEW s \in Seq(S), NEW k \in 0..Len(s)
  PROVE  SubSeq(s, 1, k) \in Seq(S)
<1>1. \A i \in 1..k : s[i] \in S
  BY ElementOfSeq
<1> QED BY <1>1, SubSeqProperties

\* The end of the wire is lost.
LEMMA LosesSome ==
  ASSUME NEW s \in Seq(Nat), NEW t \in Seq(Nat), NEW n \in Int, Counts(s, t, n),
         NEW k \in 0..Len(t)
  PROVE  Counts(s, SubSeq(t, 1, k), n)
<1>1. Len(SubSeq(t, 1, k)) = k /\ \A i \in 1..k : SubSeq(t, 1, k)[i] = t[i]
  BY SubSeqProperties
<1> QED BY <1>1 DEF Counts

\* What the client has and what is on its way, in one sequence.
LEMMA Together ==
  ASSUME NEW s \in Seq(Nat), NEW t \in Seq(Nat), NEW n \in Int, Counts(s, t, n)
  PROVE  /\ s \o t \in Seq(Nat) /\ Len(s \o t) = Len(s) + Len(t) /\ Len(s \o t) <= n
         /\ \A i \in 1..Len(s \o t) : (s \o t)[i] = i
<1>1. /\ s \o t \in Seq(Nat) /\ Len(s \o t) = Len(s) + Len(t)
      /\ \A i \in 1..Len(s) + Len(t) : (s \o t)[i] = IF i <= Len(s) THEN s[i] ELSE t[i - Len(s)]
  BY ConcatProperties
<1> QED BY <1>1 DEF Counts

\* ... it is a prefix of the stream.
LEMMA PrefixOfUpto ==
  ASSUME NEW s \in Seq(Nat), NEW t \in Seq(Nat), NEW n \in Int, Counts(s, t, n),
         NEW m \in Nat, n <= m
  PROVE  /\ IsPrefix(s \o t, Upto(m))
         /\ Len(s) + Len(t) = m => s \o t = Upto(m)
<1>1. PICK u \in Seq(Nat) : u = s \o t
  BY Together
<1>2. Len(u) = Len(s) + Len(t) /\ Len(u) <= n /\ \A i \in 1..Len(u) : u[i] = i
  BY <1>1, Together
<1>3. Len(u) <= m
  BY <1>2
<1> QED BY <1>1, <1>2, <1>3, CountingIsPrefix

-----------------------------------------------------------------------------
(* IInv, one call at a time.                                               *)

CallTypes == /\ limit \in [Calls -> Limits]
             /\ main \in [Calls -> {"idle", "calling", "await", "returned", "threw",
                                    "crashed", "died"}]
             /\ reading \in [Calls -> BOOLEAN]
             /\ numbers \in [Calls -> Seq(Nat)]
             /\ status \in [Calls -> Codes \cup {"none"}]
             /\ wire \in [Calls -> Seq(Nat)]
             /\ trailer \in [Calls -> Codes \cup {"none"}]
             /\ link \in [Calls -> {"up", "cut", "reset"}]
             /\ process \in {"down", "up", "gone", "aborted"}
             /\ reactor \in [Calls -> {"none", "live", "finished", "deleted"}]
             /\ current \in [Calls -> Nat]
             /\ write \in [Calls -> {"none", "started", "ok", "failed"}]
             /\ finish \in [Calls -> {"none", "OK", "UNKNOWN"}]

Bounded(c) == /\ numbers[c] \in Seq(1..limit[c])
              /\ wire[c] \in Seq(1..limit[c])
              /\ current[c] \in 0..limit[c]
Counted(c) == /\ Counts(numbers[c], wire[c], Taken(c))
              /\ link[c] = "up" => Len(numbers[c]) + Len(wire[c]) = Taken(c)
Failing(c) == /\ main[c] = "idle" => link[c] = "up"
              /\ link[c] # "up" => trailer[c] = "UNAVAILABLE" \/ main[c] = "died"
Finishing(c) == /\ reactor[c] = "none" =>
                     current[c] = 0 /\ write[c] = "none" /\ finish[c] = "none"
                /\ write[c] = "failed" => link[c] = "reset"
                /\ write[c] # "none" /\ finish[c] # "none" =>
                     finish[c] = "UNKNOWN" /\ link[c] = "reset"
                /\ finish[c] = "OK" => current[c] = limit[c]
Succeeding(c) == /\ trailer[c] = "OK" => /\ finish[c] = "OK"
                                         /\ Len(numbers[c]) + Len(wire[c]) = limit[c]
                 /\ status[c] = "OK" => Len(numbers[c]) = limit[c]
Beginning(c) == /\ main[c] \in {"idle", "calling", "crashed"} =>
                     numbers[c] = <<>> /\ ~reading[c]
                /\ main[c] = "crashed" => status[c] # "none"
                /\ main[c] = "crashed" => OverBeforeTheFirstRead(c)
CallInv(c) == /\ Bounded(c) /\ Counted(c) /\ Failing(c) /\ Finishing(c)
              /\ Succeeding(c) /\ Beginning(c)

\* IInv speaks of each call for itself.
LEMMA ByCall ==
  /\ IInv <=> CallTypes /\ (\A c \in Calls : CallInv(c)) /\ OnlyLostCallsAbort
  /\ IInv' <=> CallTypes' /\ (\A c \in Calls : CallInv(c)') /\ OnlyLostCallsAbort'
BY ZenonT(30) DEF IInv, TypeOK, NothingSkipped, LossFailsTheCall, FinishFollowsWrites,
       SuccessIsWhole, NothingBeforeTheFirstRead, CallTypes, CallInv, Bounded, Counted,
       Counts, Failing, Finishing, Succeeding, Beginning, OverBeforeTheFirstRead

At(c) == <<limit[c], main[c], reading[c], numbers[c], status[c], wire[c], trailer[c],
           link[c], reactor[c], current[c], write[c], finish[c]>>

\* A call that a step does not touch.
LEMMA Untouched ==
  ASSUME NEW c \in Calls, CallInv(c), At(c)' = At(c)
  PROVE  CallInv(c)'
BY DEF At, CallInv, Bounded, Counted, Taken, Failing, Finishing, Succeeding, Beginning,
       OverBeforeTheFirstRead

\* A step of one call.
LEMMA OneCall ==
  ASSUME IInv, NEW c \in Calls, CallTypes', \A e \in Calls \ {c} : At(e)' = At(e),
         CallInv(c)', OnlyLostCallsAbort'
  PROVE  IInv'
BY ByCall, Untouched

-----------------------------------------------------------------------------
(* The server's steps.                                                     *)

\* A client asks for a number.
LEMMA LimitsAreNumbers ==
  ASSUME CallTypes, NEW c \in Calls
  PROVE  limit[c] \in Nat
BY LimitsAssumption DEF CallTypes

\* What Counted speaks of may stay as it is.
LEMMA CountedStays ==
  ASSUME NEW c \in Calls, Counted(c), Taken(c)' = Taken(c),
         <<numbers[c], wire[c], link[c]>>' = <<numbers[c], wire[c], link[c]>>
  PROVE  Counted(c)'
BY DEF Counted

\* What NextWrite leaves behind: a Finish, or the next response in a write.
NextOrEnd(c, f) ==
    /\ current' \in [Calls -> Nat]
    /\ write' \in [Calls -> {"none", "started", "ok", "failed"}]
    /\ finish' \in [Calls -> {"none", "OK", "UNKNOWN"}]
    /\ process' \in {process, "aborted"}
    /\ \A e \in Calls \ {c} :
         <<current[e], write[e], finish[e]>>' = <<current[e], write[e], finish[e]>>
    /\ current'[c] \in 0..limit[c]
    /\ \/ /\ current[c] = limit[c] /\ current'[c] = current[c]
          /\ write'[c] = "none"
          /\ f = "none" => finish'[c] = "OK" /\ process' = process
          /\ f # "none" => finish'[c] = f /\ process' = "aborted"
       \/ /\ current[c] < limit[c] /\ current'[c] = current[c] + 1
          /\ write'[c] = "started" /\ finish'[c] = f /\ process' = process

\* NextWrite does one or the other.
LEMMA NextWriteStep ==
  ASSUME CallTypes, NEW c \in Calls, Bounded(c), NEW f \in {"none", "OK", "UNKNOWN"},
         NextWrite(c, f)
  PROVE  NextOrEnd(c, f)
<1>1. limit[c] \in Nat /\ current[c] \in Nat /\ current[c] <= limit[c]
  BY LimitsAreNumbers DEF Bounded
<1>2. CASE current[c] = limit[c]
  <2>1. /\ Finish(c, f, "OK")
        /\ write' = [write EXCEPT ![c] = "none"] /\ current' = current
    BY <1>1, <1>2 DEF NextWrite
  <2>2. finish' = [finish EXCEPT ![c] = IF f = "none" THEN "OK" ELSE f]
        /\ process' = IF f = "none" THEN process ELSE "aborted"
    BY <2>1 DEF Finish
  <2> QED BY <1>1, <1>2, <2>1, <2>2 DEF CallTypes, NextOrEnd
<1>3. CASE current[c] < limit[c]
  <2>1. /\ current' = [current EXCEPT ![c] = @ + 1]
        /\ write' = [write EXCEPT ![c] = "started"]
        /\ finish' = [finish EXCEPT ![c] = f] /\ process' = process
    BY <1>1, <1>3 DEF NextWrite
  <2> QED BY <1>1, <1>3, <2>1 DEF CallTypes, NextOrEnd
<1> QED BY <1>1, <1>2, <1>3

\* A new reactor starts with its first write.
LEMMA GetFibonaccisStreamInv ==
  ASSUME IInv, NEW c \in Calls, GetFibonaccisStream(c)
  PROVE  IInv'
<1> USE LimitsAssumption DEF GetFibonaccisStream, client, transport, server
<1>1. CallTypes /\ CallInv(c) /\ OnlyLostCallsAbort
  BY ByCall
<1>2. UNCHANGED <<client, transport>>
  BY <1>1
<1>3. NextWrite(c, "none") /\ "none" \in {"none", "OK", "UNKNOWN"} /\ Bounded(c)
  BY <1>1 DEF CallInv
<1>4. NextOrEnd(c, "none")
  BY <1>1, <1>3, NextWriteStep
<1>5. CallTypes'
  BY <1>1, <1>2, <1>4 DEF NextOrEnd, CallTypes
<1>6. \A e \in Calls \ {c} : At(e)' = At(e)
  BY <1>1, <1>2, <1>4 DEF NextOrEnd, At
<1>7. CallInv(c)'
  <2>1. Bounded(c)'
    BY <1>1, <1>2, <1>4 DEF NextOrEnd, CallInv, Bounded
  <2>2. Counted(c)'
    <3>1. Taken(c)' = Taken(c)
      BY <1>1, <1>2, <1>4 DEF NextOrEnd, CallInv, Finishing, Taken
    <3> QED BY <1>1, <1>2, <3>1, CountedStays DEF CallInv
  <2>3. Failing(c)'
    BY <1>1, <1>2 DEF CallInv, Failing
  <2>4. Finishing(c)'
    BY <1>1, <1>2, <1>4 DEF NextOrEnd, CallTypes, Finishing
  <2>5. Succeeding(c)'
    BY <1>1, <1>2, <1>4 DEF CallInv, Succeeding
  <2>6. Beginning(c)'
    BY <1>1, <1>2, <1>4 DEF CallTypes, CallInv, Beginning, OverBeforeTheFirstRead
  <2> QED BY <2>1, <2>2, <2>3, <2>4, <2>5, <2>6 DEF CallInv
<1>8. OnlyLostCallsAbort'
  BY <1>1, <1>2, <1>4 DEF NextOrEnd, OnlyLostCallsAbort
<1> QED BY <1>5, <1>6, <1>7, <1>8, OneCall

\* The next response, or the end.
LEMMA OnWriteDoneInv ==
  ASSUME IInv, NEW c \in Calls, OnWriteDone(c)
  PROVE  IInv'
<1> USE LimitsAssumption DEF OnWriteDone, client, transport, server
<1>1. CallTypes /\ CallInv(c) /\ OnlyLostCallsAbort
  BY ByCall
<1>2. UNCHANGED <<client, transport>>
  BY <1>1
<1>3. NextWrite(c, finish[c]) /\ finish[c] \in {"none", "OK", "UNKNOWN"} /\ Bounded(c)
  BY <1>1 DEF CallTypes, CallInv
<1>4. NextOrEnd(c, finish[c])
  BY <1>1, <1>3, NextWriteStep DEF NextOrEnd
<1>5. CallTypes'
  BY <1>1, <1>2, <1>4 DEF NextOrEnd, CallTypes
<1>6. \A e \in Calls \ {c} : At(e)' = At(e)
  BY <1>1, <1>2, <1>4 DEF NextOrEnd, At
<1>7. CallInv(c)'
  <2>1. Bounded(c)'
    BY <1>1, <1>2, <1>4 DEF NextOrEnd, CallInv, Bounded
  <2>2. Counted(c)'
    <3>1. Taken(c)' = Taken(c)
      BY <1>1, <1>2, <1>4 DEF NextOrEnd, CallTypes, CallInv, Finishing, Taken
    <3> QED BY <1>1, <1>2, <3>1, CountedStays DEF CallInv
  <2>3. Failing(c)'
    BY <1>1, <1>2 DEF CallInv, Failing
  <2>4. Finishing(c)'
    BY <1>1, <1>2, <1>4 DEF NextOrEnd, CallInv, Finishing
  <2>5. Succeeding(c)'
    BY <1>1, <1>2, <1>4 DEF NextOrEnd, CallInv, Succeeding
  <2>6. Beginning(c)'
    BY <1>1, <1>2, <1>4 DEF CallTypes, CallInv, Beginning, OverBeforeTheFirstRead
  <2> QED BY <2>1, <2>2, <2>3, <2>4, <2>5, <2>6 DEF CallInv
<1>8. OnlyLostCallsAbort'
  BY <1>1, <1>2, <1>4 DEF NextOrEnd, OnlyLostCallsAbort, CallInv, Finishing
<1> QED BY <1>5, <1>6, <1>7, <1>8, OneCall

\* A failed write finishes the call and goes on: to a second Finish after the last
\* response, or to another write.
LEMMA FirstFailureInv ==
  ASSUME IInv, NEW c \in Calls, OnWriteFailed(c), finish[c] = "none"
  PROVE  IInv'
<1> USE LimitsAssumption DEF OnWriteFailed, client, transport, server
<1>1. CallTypes /\ CallInv(c) /\ OnlyLostCallsAbort
  BY ByCall
<1>2. UNCHANGED <<client, transport>>
  BY <1>1
<1>3. NextWrite(c, "UNKNOWN") /\ "UNKNOWN" \in {"none", "OK", "UNKNOWN"} /\ Bounded(c)
  BY <1>1 DEF CallInv
<1>4. NextOrEnd(c, "UNKNOWN")
  BY <1>1, <1>3, NextWriteStep
<1>5. CallTypes'
  BY <1>1, <1>2, <1>4 DEF NextOrEnd, CallTypes
<1>6. \A e \in Calls \ {c} : At(e)' = At(e)
  BY <1>1, <1>2, <1>4 DEF NextOrEnd, At
<1>7. CallInv(c)'
  <2>1. Bounded(c)'
    BY <1>1, <1>2, <1>4 DEF NextOrEnd, CallInv, Bounded
  <2>2. Counted(c)'
    <3>1. Taken(c)' = Taken(c)
      BY <1>1, <1>2, <1>4 DEF NextOrEnd, CallTypes, CallInv, Finishing, Taken
    <3> QED BY <1>1, <1>2, <3>1, CountedStays DEF CallInv
  <2>3. Failing(c)'
    BY <1>1, <1>2 DEF CallInv, Failing
  <2>4. Finishing(c)'
    BY <1>1, <1>2, <1>4 DEF NextOrEnd, CallInv, Finishing
  <2>5. Succeeding(c)'
    BY <1>1, <1>2, <1>4 DEF CallInv, Succeeding
  <2>6. Beginning(c)'
    BY <1>1, <1>2, <1>4 DEF CallTypes, CallInv, Beginning, OverBeforeTheFirstRead
  <2> QED BY <2>1, <2>2, <2>3, <2>4, <2>5, <2>6 DEF CallInv
<1>8. OnlyLostCallsAbort'
  BY <1>1, <1>2, <1>4 DEF NextOrEnd, OnlyLostCallsAbort, CallInv, Finishing
<1> QED BY <1>5, <1>6, <1>7, <1>8, OneCall

\* The write after that fails too: a second Finish.
LEMMA SecondFailureInv ==
  ASSUME IInv, NEW c \in Calls, OnWriteFailed(c), finish[c] # "none"
  PROVE  IInv'
<1> USE LimitsAssumption DEF OnWriteFailed, client, transport, server
<1>1. CallTypes /\ CallInv(c) /\ OnlyLostCallsAbort
  BY ByCall
<1>2. CallTypes'
  BY <1>1 DEF CallTypes
<1>3. \A e \in Calls \ {c} : At(e)' = At(e)
  BY <1>1 DEF At
<1>4. CallInv(c)'
  <2>1. Bounded(c)'
    BY <1>1 DEF CallInv, Bounded
  <2>2. Counted(c)'
    BY <1>1 DEF CallInv, Counted, Taken
  <2>3. Failing(c)'
    BY <1>1 DEF CallInv, Failing
  <2>4. Finishing(c)'
    BY <1>1 DEF CallInv, Finishing
  <2>5. Succeeding(c)'
    BY <1>1 DEF CallInv, Succeeding
  <2>6. Beginning(c)'
    BY <1>1 DEF CallTypes, CallInv, Beginning, OverBeforeTheFirstRead
  <2> QED BY <2>1, <2>2, <2>3, <2>4, <2>5, <2>6 DEF CallInv
<1>5. OnlyLostCallsAbort'
  BY <1>1 DEF OnlyLostCallsAbort, CallInv, Finishing
<1> QED BY <1>2, <1>3, <1>4, <1>5, OneCall

\* The reactor goes when its last write is over.
LEMMA OnDoneInv ==
  ASSUME IInv, NEW c \in Calls, OnDone(c)
  PROVE  IInv'
<1> USE LimitsAssumption DEF OnDone, client, transport, server
<1>1. CallTypes /\ CallInv(c) /\ OnlyLostCallsAbort
  BY ByCall
<1>2. CallTypes'
  BY <1>1 DEF CallTypes
<1>3. \A e \in Calls \ {c} : At(e)' = At(e)
  BY <1>1 DEF At
<1>4. CallInv(c)'
  <2>1. Bounded(c)'
    BY <1>1 DEF CallInv, Bounded
  <2>2. Counted(c)'
    BY <1>1 DEF CallInv, Counted, Taken
  <2>3. Failing(c)'
    BY <1>1 DEF CallInv, Failing
  <2>4. Finishing(c)'
    BY <1>1 DEF CallInv, Finishing
  <2>5. Succeeding(c)'
    BY <1>1 DEF CallInv, Succeeding
  <2>6. Beginning(c)'
    BY <1>1 DEF CallTypes, CallInv, Beginning, OverBeforeTheFirstRead
  <2> QED BY <2>1, <2>2, <2>3, <2>4, <2>5, <2>6 DEF CallInv
<1>5. OnlyLostCallsAbort'
  BY <1>1 DEF OnlyLostCallsAbort
<1> QED BY <1>2, <1>3, <1>4, <1>5, OneCall

\* A write ends on the wire, on the floor, or with ok = false.
LEMMA WriteCompletesInv ==
  ASSUME IInv, NEW c \in Calls, WriteCompletes(c)
  PROVE  IInv'
<1>1. CallTypes /\ CallInv(c) /\ OnlyLostCallsAbort
  BY ByCall
<1>2. /\ write[c] = "started" /\ process = "up"
      /\ UNCHANGED <<client, trailer, link, process, reactor, current, finish>>
      /\ \/ /\ link[c] = "up" /\ write' = [write EXCEPT ![c] = "ok"]
            /\ wire' = [wire EXCEPT ![c] = Append(wire[c], current[c])]
         \/ /\ link[c] # "up" /\ wire' = wire /\ write' = [write EXCEPT ![c] = "ok"]
         \/ /\ link[c] = "reset" /\ wire' = wire /\ write' = [write EXCEPT ![c] = "failed"]
  BY <1>1 DEF WriteCompletes, CallTypes
<1>3. current[c] \in Nat /\ limit[c] \in Nat /\ current[c] <= limit[c]
  BY <1>1, LimitsAreNumbers DEF CallInv, Bounded
<1>4. /\ wire[c] \in Seq(Nat) /\ numbers[c] \in Seq(Nat)
      /\ numbers[c] \in Seq(1..limit[c]) /\ wire[c] \in Seq(1..limit[c])
  BY <1>1, LimitsAreNumbers DEF CallInv, Bounded
<1>5. /\ Counts(numbers[c], wire[c], current[c] - 1)
      /\ link[c] = "up" => Len(numbers[c]) + Len(wire[c]) = current[c] - 1
  BY <1>1, <1>2 DEF CallInv, Counted, Taken
<1>6. current[c] \in 1..limit[c]
  BY <1>3, <1>4, <1>5, CountsAtLeast
<1>7. Append(wire[c], current[c]) \in Seq(Nat) /\ Append(wire[c], current[c]) \in Seq(1..limit[c])
  BY <1>3, <1>4, <1>6, AppendProperties
<1>8. write \in [Calls -> {"none", "started", "ok", "failed"}] /\ wire \in [Calls -> Seq(Nat)]
  BY <1>1 DEF CallTypes
<1>9. /\ write' \in [Calls -> {"none", "started", "ok", "failed"}]
      /\ write'[c] \in {"ok", "failed"}
      /\ write'[c] = "failed" => link[c] = "reset"
      /\ \A e \in Calls \ {c} : write'[e] = write[e]
  BY <1>8, <1>2
<1>10. /\ wire' \in [Calls -> Seq(Nat)]
       /\ wire'[c] = IF link[c] = "up" THEN Append(wire[c], current[c]) ELSE wire[c]
       /\ \A e \in Calls \ {c} : wire'[e] = wire[e]
  BY <1>8, <1>2, <1>7
<1>11. UNCHANGED <<limit, main, reading, numbers, status, trailer, link, process, reactor,
                   current, finish>>
  BY <1>2 DEF client
<1>12. CallTypes'
  BY <1>1, <1>9, <1>10, <1>11 DEF CallTypes
<1>13. \A e \in Calls \ {c} : At(e)' = At(e)
  BY <1>9, <1>10, <1>11 DEF At
<1>14. CallInv(c)'
  <2>1. Bounded(c)'
    BY <1>1, <1>7, <1>10, <1>11 DEF CallInv, Bounded
  <2>2. Counted(c)'
    <3>1. Taken(c)' = current[c]
      BY <1>9, <1>11 DEF Taken
    <3>2. CASE link[c] # "up"
      <4>1. Counts(numbers[c], wire[c], current[c])
        BY <1>3, <1>4, <1>5, DropsOne
      <4> QED BY <1>10, <1>11, <3>1, <3>2, <4>1 DEF Counted
    <3>3. CASE link[c] = "up"
      <4>1. /\ Counts(numbers[c], Append(wire[c], current[c]), current[c])
            /\ Len(numbers[c]) + Len(Append(wire[c], current[c])) = current[c]
        BY <1>3, <1>4, <1>5, <3>3, TakesOne
      <4> QED BY <1>10, <1>11, <3>1, <3>3, <4>1 DEF Counted
    <3> QED BY <3>2, <3>3
  <2>3. Failing(c)'
    BY <1>1, <1>11 DEF CallInv, Failing
  <2>4. Finishing(c)'
    BY <1>1, <1>2, <1>9, <1>11 DEF CallInv, Finishing
  <2>5. Succeeding(c)'
    BY <1>1, <1>2, <1>9, <1>10, <1>11 DEF CallInv, Finishing, Succeeding
  <2>6. Beginning(c)'
    BY <1>1, <1>2, <1>9, <1>11 DEF CallTypes, CallInv, Beginning, OverBeforeTheFirstRead
  <2> QED BY <2>1, <2>2, <2>3, <2>4, <2>5, <2>6 DEF CallInv
<1>15. OnlyLostCallsAbort'
  BY <1>1, <1>11 DEF OnlyLostCallsAbort
<1> QED BY <1>12, <1>13, <1>14, <1>15, OneCall

\* The status follows the last response, on a connection that is up.
LEMMA FinishCompletesInv ==
  ASSUME IInv, NEW c \in Calls, FinishCompletes(c)
  PROVE  IInv'
<1> USE LimitsAssumption DEF FinishCompletes, client, transport, server
<1>1. CallTypes /\ CallInv(c) /\ OnlyLostCallsAbort
  BY ByCall
<1>2. CallTypes'
  BY <1>1 DEF CallTypes, Codes
<1>3. \A e \in Calls \ {c} : At(e)' = At(e)
  BY <1>1 DEF At
<1>4. CallInv(c)'
  <2>1. Bounded(c)'
    BY <1>1 DEF CallInv, Bounded
  <2>2. Counted(c)'
    BY <1>1 DEF CallInv, Counted, Taken
  <2>3. Failing(c)'
    BY <1>1 DEF CallInv, Failing
  <2>4. Finishing(c)'
    BY <1>1 DEF CallInv, Finishing
  <2>5. Succeeding(c)'
    BY <1>1 DEF CallTypes, CallInv, Counted, Taken, Finishing, Succeeding
  <2>6. Beginning(c)'
    BY <1>1 DEF CallTypes, CallInv, Beginning, OverBeforeTheFirstRead
  <2> QED BY <2>1, <2>2, <2>3, <2>4, <2>5, <2>6 DEF CallInv
<1>5. OnlyLostCallsAbort'
  BY <1>1 DEF OnlyLostCallsAbort
<1> QED BY <1>2, <1>3, <1>4, <1>5, OneCall

\* The server is told of a connection that was lost before.
LEMMA OnCancelInv ==
  ASSUME IInv, NEW c \in Calls, OnCancel(c)
  PROVE  IInv'
<1> USE LimitsAssumption DEF OnCancel, client, transport, server
<1>1. CallTypes /\ CallInv(c) /\ OnlyLostCallsAbort
  BY ByCall
<1>2. CallTypes'
  BY <1>1 DEF CallTypes
<1>3. \A e \in Calls \ {c} : At(e)' = At(e)
  BY <1>1 DEF At
<1>4. CallInv(c)'
  <2>1. Bounded(c)'
    BY <1>1 DEF CallInv, Bounded
  <2>2. Counted(c)'
    BY <1>1 DEF CallTypes, CallInv, Counted, Taken
  <2>3. Failing(c)'
    BY <1>1 DEF CallInv, Failing
  <2>4. Finishing(c)'
    BY <1>1 DEF CallInv, Finishing
  <2>5. Succeeding(c)'
    BY <1>1 DEF CallInv, Succeeding
  <2>6. Beginning(c)'
    BY <1>1 DEF CallTypes, CallInv, Beginning, OverBeforeTheFirstRead
  <2> QED BY <2>1, <2>2, <2>3, <2>4, <2>5, <2>6 DEF CallInv
<1>5. OnlyLostCallsAbort'
  BY <1>1 DEF OnlyLostCallsAbort
<1> QED BY <1>2, <1>3, <1>4, <1>5, OneCall

-----------------------------------------------------------------------------
(* The client's steps.                                                     *)

\* A call starts, or fails at once.
LEMMA GetFibonacciSequenceInv ==
  ASSUME IInv, NEW c \in Calls, GetFibonacciSequence(c)
  PROVE  IInv'
<1> USE LimitsAssumption DEF GetFibonacciSequence, client, transport, server
<1>1. CallTypes /\ CallInv(c) /\ OnlyLostCallsAbort
  BY ByCall
<1>2. CallTypes'
  BY <1>1 DEF CallTypes, Codes
<1>3. \A e \in Calls \ {c} : At(e)' = At(e)
  BY <1>1 DEF At
<1>4. CallInv(c)'
  <2>1. Bounded(c)'
    BY <1>1 DEF CallInv, Bounded
  <2>2. Counted(c)'
    BY <1>1 DEF CallInv, Counted, Taken
  <2>3. Failing(c)'
    BY <1>1 DEF CallInv, Failing
  <2>4. Finishing(c)'
    BY <1>1 DEF CallInv, Finishing
  <2>5. Succeeding(c)'
    BY <1>1 DEF CallTypes, CallInv, Succeeding
  <2>6. Beginning(c)'
    BY <1>1 DEF CallTypes, CallInv, Beginning, OverBeforeTheFirstRead
  <2> QED BY <2>1, <2>2, <2>3, <2>4, <2>5, <2>6 DEF CallInv
<1>5. OnlyLostCallsAbort'
  BY <1>1 DEF OnlyLostCallsAbort
<1> QED BY <1>2, <1>3, <1>4, <1>5, OneCall

\* The main thread comes to Await.
LEMMA FirstReadInv ==
  ASSUME IInv, NEW c \in Calls, FirstRead(c)
  PROVE  IInv'
<1> USE LimitsAssumption DEF FirstRead, client, transport, server
<1>1. CallTypes /\ CallInv(c) /\ OnlyLostCallsAbort
  BY ByCall
<1>2. CallTypes'
  BY <1>1 DEF CallTypes
<1>3. \A e \in Calls \ {c} : At(e)' = At(e)
  BY <1>1 DEF At
<1>4. CallInv(c)'
  <2>1. Bounded(c)'
    BY <1>1 DEF CallInv, Bounded
  <2>2. Counted(c)'
    BY <1>1 DEF CallInv, Counted, Taken
  <2>3. Failing(c)'
    BY <1>1 DEF CallInv, Failing
  <2>4. Finishing(c)'
    BY <1>1 DEF CallInv, Finishing
  <2>5. Succeeding(c)'
    BY <1>1 DEF CallInv, Succeeding
  <2>6. Beginning(c)'
    BY <1>1 DEF CallTypes, CallInv, Beginning, OverBeforeTheFirstRead
  <2> QED BY <2>1, <2>2, <2>3, <2>4, <2>5, <2>6 DEF CallInv
<1>5. OnlyLostCallsAbort'
  BY <1>1 DEF OnlyLostCallsAbort
<1> QED BY <1>2, <1>3, <1>4, <1>5, OneCall

\* The call was gone before its first read.
LEMMA StartsTooLateInv ==
  ASSUME IInv, NEW c \in Calls, StartsTooLate(c)
  PROVE  IInv'
<1> USE LimitsAssumption DEF StartsTooLate, client, transport, server
<1>1. CallTypes /\ CallInv(c) /\ OnlyLostCallsAbort
  BY ByCall
<1>2. CallTypes'
  BY <1>1 DEF CallTypes
<1>3. \A e \in Calls \ {c} : At(e)' = At(e)
  BY <1>1 DEF At
<1>4. CallInv(c)'
  <2>1. Bounded(c)'
    BY <1>1 DEF CallInv, Bounded
  <2>2. Counted(c)'
    BY <1>1 DEF CallInv, Counted, Taken
  <2>3. Failing(c)'
    BY <1>1 DEF CallInv, Failing
  <2>4. Finishing(c)'
    BY <1>1 DEF CallInv, Finishing
  <2>5. Succeeding(c)'
    BY <1>1 DEF CallInv, Succeeding
  <2>6. Beginning(c)'
    <3>1. numbers[c] = <<>> /\ ~reading[c]
      BY <1>1 DEF CallInv, Beginning
    <3>2. limit[c] = 0 \/ status[c] # "OK"
      BY <1>1, <3>1, EmptySeq DEF CallInv, Succeeding
    <3>3. status[c] # "none" /\ OverBeforeTheFirstRead(c)
      BY <1>1, <3>2 DEF CallTypes, Codes, OverBeforeTheFirstRead
    <3> QED BY <3>1, <3>3 DEF Beginning, OverBeforeTheFirstRead
  <2> QED BY <2>1, <2>2, <2>3, <2>4, <2>5, <2>6 DEF CallInv
<1>5. OnlyLostCallsAbort'
  BY <1>1 DEF OnlyLostCallsAbort
<1> QED BY <1>2, <1>3, <1>4, <1>5, OneCall

\* The last read.
LEMMA OnReadEndedInv ==
  ASSUME IInv, NEW c \in Calls, OnReadEnded(c)
  PROVE  IInv'
<1> USE LimitsAssumption DEF OnReadEnded, client, transport, server
<1>1. CallTypes /\ CallInv(c) /\ OnlyLostCallsAbort
  BY ByCall
<1>2. CallTypes'
  BY <1>1 DEF CallTypes
<1>3. \A e \in Calls \ {c} : At(e)' = At(e)
  BY <1>1 DEF At
<1>4. CallInv(c)'
  <2>1. Bounded(c)'
    BY <1>1 DEF CallInv, Bounded
  <2>2. Counted(c)'
    BY <1>1 DEF CallInv, Counted, Taken
  <2>3. Failing(c)'
    BY <1>1 DEF CallInv, Failing
  <2>4. Finishing(c)'
    BY <1>1 DEF CallInv, Finishing
  <2>5. Succeeding(c)'
    BY <1>1 DEF CallInv, Succeeding
  <2>6. Beginning(c)'
    BY <1>1 DEF CallTypes, CallInv, Beginning, OverBeforeTheFirstRead
  <2> QED BY <2>1, <2>2, <2>3, <2>4, <2>5, <2>6 DEF CallInv
<1>5. OnlyLostCallsAbort'
  BY <1>1 DEF OnlyLostCallsAbort
<1> QED BY <1>2, <1>3, <1>4, <1>5, OneCall

\* A response is read.
LEMMA OnReadDoneInv ==
  ASSUME IInv, NEW c \in Calls, OnReadDone(c)
  PROVE  IInv'
<1>1. CallTypes /\ CallInv(c) /\ OnlyLostCallsAbort
  BY ByCall
<1>2. /\ wire[c] # <<>> /\ main[c] = "await" /\ reading[c]
      /\ numbers' = [numbers EXCEPT ![c] = Append(numbers[c], Head(wire[c]))]
      /\ wire' = [wire EXCEPT ![c] = Tail(wire[c])]
      /\ UNCHANGED <<limit, main, reading, status, trailer, link, process, reactor, current,
                     write, finish>>
  BY DEF OnReadDone, server
<1>3. /\ numbers \in [Calls -> Seq(Nat)] /\ wire \in [Calls -> Seq(Nat)]
      /\ numbers[c] \in Seq(Nat) /\ wire[c] \in Seq(Nat)
      /\ numbers[c] \in Seq(1..limit[c]) /\ wire[c] \in Seq(1..limit[c])
  BY <1>1 DEF CallTypes, CallInv, Bounded
<1>4. /\ current[c] \in Nat /\ limit[c] \in Nat /\ current[c] <= limit[c]
      /\ Taken(c) \in Int /\ Taken(c) <= limit[c]
  BY <1>1, LimitsAreNumbers DEF CallInv, Bounded, Taken
<1>5. /\ Append(numbers[c], Head(wire[c])) \in Seq(Nat) /\ Tail(wire[c]) \in Seq(Nat)
      /\ Append(numbers[c], Head(wire[c])) \in Seq(1..limit[c])
      /\ Tail(wire[c]) \in Seq(1..limit[c])
  BY <1>2, <1>3, HeadTailProperties, AppendProperties
<1>6. /\ numbers' \in [Calls -> Seq(Nat)] /\ wire' \in [Calls -> Seq(Nat)]
      /\ numbers'[c] = Append(numbers[c], Head(wire[c])) /\ wire'[c] = Tail(wire[c])
      /\ \A e \in Calls \ {c} : numbers'[e] = numbers[e] /\ wire'[e] = wire[e]
  BY <1>2, <1>3, <1>5
<1>7. CallTypes'
  BY <1>1, <1>2, <1>6 DEF CallTypes
<1>8. \A e \in Calls \ {c} : At(e)' = At(e)
  BY <1>2, <1>6 DEF At
<1>9. CallInv(c)'
  <2>1. Bounded(c)'
    BY <1>1, <1>2, <1>5, <1>6 DEF CallInv, Bounded
  <2>2. Counted(c)' /\ Len(numbers[c])' + Len(wire[c])' = Len(numbers[c]) + Len(wire[c])
    <3>1. /\ Counts(Append(numbers[c], Head(wire[c])), Tail(wire[c]), Taken(c))
          /\ Len(Append(numbers[c], Head(wire[c]))) + Len(Tail(wire[c]))
               = Len(numbers[c]) + Len(wire[c])
      BY <1>1, <1>2, <1>3, <1>4, ReadsOne DEF CallInv, Counted
    <3>2. Taken(c)' = Taken(c)
      BY <1>2 DEF Taken
    <3> QED BY <1>1, <1>2, <1>6, <3>1, <3>2 DEF CallInv, Counted
  <2>3. Failing(c)'
    BY <1>1, <1>2 DEF CallInv, Failing
  <2>4. Finishing(c)'
    BY <1>1, <1>2 DEF CallInv, Finishing
  <2>5. Succeeding(c)'
    <3>1. status[c] # "OK"
      <4>1. Len(numbers[c]) < Taken(c)
        BY <1>1, <1>2, <1>3, <1>4, NotFull DEF CallInv, Counted
      <4>2. Len(numbers[c]) # limit[c]
        BY <1>4, <4>1
      <4> QED BY <1>1, <4>2 DEF CallInv, Succeeding
    <3> QED BY <1>1, <1>2, <2>2, <3>1 DEF CallInv, Succeeding
  <2>6. Beginning(c)'
    BY <1>1, <1>2 DEF CallTypes, CallInv, Beginning, OverBeforeTheFirstRead
  <2> QED BY <2>1, <2>2, <2>3, <2>4, <2>5, <2>6 DEF CallInv
<1>10. OnlyLostCallsAbort'
  BY <1>1, <1>2 DEF OnlyLostCallsAbort
<1> QED BY <1>7, <1>8, <1>9, <1>10, OneCall

\* OnDone reports the status when the wire is empty.
LEMMA OnCallDoneInv ==
  ASSUME IInv, NEW c \in Calls, OnCallDone(c)
  PROVE  IInv'
<1> USE LimitsAssumption DEF OnCallDone, client, transport, server
<1>1. CallTypes /\ CallInv(c) /\ OnlyLostCallsAbort
  BY ByCall
<1>2. CallTypes'
  BY <1>1 DEF CallTypes
<1>3. \A e \in Calls \ {c} : At(e)' = At(e)
  BY <1>1 DEF At
<1>4. CallInv(c)'
  <2>1. Bounded(c)'
    BY <1>1 DEF CallInv, Bounded
  <2>2. Counted(c)'
    BY <1>1 DEF CallInv, Counted, Taken
  <2>3. Failing(c)'
    BY <1>1 DEF CallInv, Failing
  <2>4. Finishing(c)'
    BY <1>1 DEF CallInv, Finishing
  <2>5. Succeeding(c)'
    BY <1>1 DEF CallTypes, CallInv, Succeeding
  <2>6. Beginning(c)'
    BY <1>1 DEF CallTypes, CallInv, Beginning, OverBeforeTheFirstRead
  <2> QED BY <2>1, <2>2, <2>3, <2>4, <2>5, <2>6 DEF CallInv
<1>5. OnlyLostCallsAbort'
  BY <1>1 DEF OnlyLostCallsAbort
<1> QED BY <1>2, <1>3, <1>4, <1>5, OneCall

\* Await returns.
LEMMA AwaitInv ==
  ASSUME IInv, NEW c \in Calls, Await(c)
  PROVE  IInv'
<1> USE LimitsAssumption DEF Await, client, transport, server
<1>1. CallTypes /\ CallInv(c) /\ OnlyLostCallsAbort
  BY ByCall
<1>2. CallTypes'
  BY <1>1 DEF CallTypes
<1>3. \A e \in Calls \ {c} : At(e)' = At(e)
  BY <1>1 DEF At
<1>4. CallInv(c)'
  <2>1. Bounded(c)'
    BY <1>1 DEF CallInv, Bounded
  <2>2. Counted(c)'
    BY <1>1 DEF CallInv, Counted, Taken
  <2>3. Failing(c)'
    BY <1>1 DEF CallInv, Failing
  <2>4. Finishing(c)'
    BY <1>1 DEF CallInv, Finishing
  <2>5. Succeeding(c)'
    BY <1>1 DEF CallInv, Succeeding
  <2>6. Beginning(c)'
    BY <1>1 DEF CallTypes, CallInv, Beginning, OverBeforeTheFirstRead
  <2> QED BY <2>1, <2>2, <2>3, <2>4, <2>5, <2>6 DEF CallInv
<1>5. OnlyLostCallsAbort'
  BY <1>1 DEF OnlyLostCallsAbort
<1> QED BY <1>2, <1>3, <1>4, <1>5, OneCall

\* The client dies.
LEMMA ClientDiesInv ==
  ASSUME IInv, NEW c \in Calls, ClientDies(c)
  PROVE  IInv'
<1> USE LimitsAssumption DEF ClientDies, client, transport, server
<1>1. CallTypes /\ CallInv(c) /\ OnlyLostCallsAbort
  BY ByCall
<1>2. CallTypes'
  BY <1>1 DEF CallTypes
<1>3. \A e \in Calls \ {c} : At(e)' = At(e)
  BY <1>1 DEF At
<1>4. CallInv(c)'
  <2>1. Bounded(c)'
    BY <1>1 DEF CallInv, Bounded
  <2>2. Counted(c)'
    BY <1>1 DEF CallTypes, CallInv, Counted, Taken
  <2>3. Failing(c)'
    BY <1>1 DEF CallTypes, Failing
  <2>4. Finishing(c)'
    BY <1>1 DEF CallInv, Finishing
  <2>5. Succeeding(c)'
    BY <1>1 DEF CallInv, Succeeding
  <2>6. Beginning(c)'
    BY <1>1 DEF CallTypes, CallInv, Beginning, OverBeforeTheFirstRead
  <2> QED BY <2>1, <2>2, <2>3, <2>4, <2>5, <2>6 DEF CallInv
<1>5. OnlyLostCallsAbort'
  BY <1>1 DEF OnlyLostCallsAbort
<1> QED BY <1>2, <1>3, <1>4, <1>5, OneCall

\* The connection is lost, with what it carried.
LEMMA LoseInv ==
  ASSUME IInv, NEW c \in Calls, Lose(c)
  PROVE  IInv'
<1>1. CallTypes /\ CallInv(c) /\ OnlyLostCallsAbort
  BY ByCall
<1>2. PICK n \in 0..Len(wire[c]) : wire' = [wire EXCEPT ![c] = SubSeq(wire[c], 1, n)]
  BY DEF Lose
<1>3. /\ main[c] \in {"calling", "await"} /\ trailer[c] # "UNAVAILABLE" /\ status[c] = "none"
      /\ trailer' = [trailer EXCEPT ![c] = "UNAVAILABLE"]
      /\ link' = [link EXCEPT ![c] = "cut"]
      /\ UNCHANGED <<limit, main, reading, numbers, status, process, reactor, current, write,
                     finish>>
  BY DEF Lose, client, server
<1>4. /\ wire \in [Calls -> Seq(Nat)] /\ numbers[c] \in Seq(Nat) /\ wire[c] \in Seq(Nat)
      /\ wire[c] \in Seq(1..limit[c])
  BY <1>1 DEF CallTypes, CallInv, Bounded
<1>5. Taken(c) \in Int
  BY <1>1, LimitsAreNumbers DEF CallTypes, Taken
<1>6. SubSeq(wire[c], 1, n) \in Seq(Nat) /\ SubSeq(wire[c], 1, n) \in Seq(1..limit[c])
  <2>1. SubSeq(wire[c], 1, n) \in Seq(Nat)
    BY <1>4, PrefixType
  <2>2. SubSeq(wire[c], 1, n) \in Seq(1..limit[c])
    BY <1>4, PrefixType
  <2> QED BY <2>1, <2>2
<1>7. /\ wire' \in [Calls -> Seq(Nat)] /\ wire'[c] = SubSeq(wire[c], 1, n)
      /\ \A e \in Calls \ {c} : wire'[e] = wire[e]
  BY <1>2, <1>4, <1>6
<1>8. /\ trailer' \in [Calls -> Codes \cup {"none"}] /\ link' \in [Calls -> {"up", "cut", "reset"}]
      /\ trailer'[c] = "UNAVAILABLE" /\ link'[c] = "cut"
      /\ \A e \in Calls \ {c} : trailer'[e] = trailer[e] /\ link'[e] = link[e]
  BY <1>1, <1>3 DEF CallTypes, Codes
<1>9. CallTypes'
  BY <1>1, <1>3, <1>7, <1>8 DEF CallTypes
<1>10. \A e \in Calls \ {c} : At(e)' = At(e)
  BY <1>3, <1>7, <1>8 DEF At
<1>11. CallInv(c)'
  <2>1. Bounded(c)'
    BY <1>1, <1>3, <1>6, <1>7 DEF CallInv, Bounded
  <2>2. Counted(c)'
    <3>1. Counts(numbers[c], SubSeq(wire[c], 1, n), Taken(c))
      BY <1>1, <1>4, <1>5, LosesSome DEF CallInv, Counted
    <3>2. Taken(c)' = Taken(c)
      BY <1>3 DEF Taken
    <3> QED BY <1>3, <1>7, <1>8, <3>1, <3>2 DEF Counted
  <2>3. Failing(c)'
    BY <1>1, <1>3, <1>8 DEF Failing
  <2>4. Finishing(c)'
    BY <1>1, <1>3, <1>8 DEF CallInv, Failing, Finishing
  <2>5. Succeeding(c)'
    BY <1>1, <1>3, <1>8 DEF Succeeding
  <2>6. Beginning(c)'
    BY <1>1, <1>3 DEF CallTypes, CallInv, Beginning, OverBeforeTheFirstRead
  <2> QED BY <2>1, <2>2, <2>3, <2>4, <2>5, <2>6 DEF CallInv
<1>12. OnlyLostCallsAbort'
  BY <1>1, <1>3, <1>8 DEF CallInv, Failing, OnlyLostCallsAbort
<1> QED BY <1>9, <1>10, <1>11, <1>12, OneCall

-----------------------------------------------------------------------------
(* The theorems.                                                           *)

\* The server comes and goes.
LEMMA ProcessInv ==
  ASSUME IInv, Run \/ Kill
  PROVE  IInv'
<1>1. /\ CallTypes /\ process # "aborted" /\ process' \in {"up", "gone"}
      /\ UNCHANGED <<limit, main, reading, numbers, status, wire, trailer, link, reactor,
                     current, write, finish>>
  BY ByCall DEF Run, Kill, client, transport
<1>2. CallTypes'
  BY <1>1 DEF CallTypes
<1>3. \A e \in Calls : CallInv(e) /\ At(e)' = At(e)
  BY <1>1, ByCall DEF At
<1>4. OnlyLostCallsAbort'
  BY <1>1 DEF OnlyLostCallsAbort
<1> QED BY <1>2, <1>3, <1>4, ByCall, Untouched

\* Nothing happens.
LEMMA StutterInv ==
  ASSUME IInv, UNCHANGED vars
  PROVE  IInv'
<1>1. /\ CallTypes /\ OnlyLostCallsAbort
      /\ UNCHANGED <<limit, main, reading, numbers, status, wire, trailer, link, process,
                     reactor, current, write, finish>>
  BY ByCall DEF vars, client, transport, server
<1>2. CallTypes' /\ OnlyLostCallsAbort'
  BY <1>1 DEF CallTypes, OnlyLostCallsAbort
<1>3. \A e \in Calls : CallInv(e) /\ At(e)' = At(e)
  BY <1>1, ByCall DEF At
<1> QED BY <1>2, <1>3, ByCall, Untouched

\* There is no server and no call.
LEMMA InitInv ==
  ASSUME Init
  PROVE  IInv
<1>1. CallTypes
  BY EmptySeq DEF Init, CallTypes
<1>2. OnlyLostCallsAbort
  BY DEF Init, OnlyLostCallsAbort
<1>3. ASSUME NEW c \in Calls
      PROVE  CallInv(c)
  <2>1. numbers[c] = <<>> /\ wire[c] = <<>> /\ current[c] = 0 /\ limit[c] \in Nat
    BY <1>1, LimitsAreNumbers DEF Init
  <2>2. Bounded(c)
    BY <2>1, EmptySeq DEF Bounded
  <2>3. Counted(c)
    BY <2>1 DEF Init, Counted, Counts, Taken
  <2>4. Failing(c) /\ Finishing(c) /\ Succeeding(c) /\ Beginning(c)
    BY DEF Init, Failing, Finishing, Succeeding, Beginning
  <2> QED BY <2>2, <2>3, <2>4 DEF CallInv
<1> QED BY <1>1, <1>2, <1>3, ByCall

\* Where every response is, on both sides of a connection that may be lost at any
\* point, holds in every reachable state of any number of calls and for any limits.
THEOREM Invariance == Spec => []IInv
<1>1. Init => IInv
  BY InitInv
<1>2. IInv /\ [Next]_vars => IInv'
  <2> SUFFICES ASSUME IInv, [Next]_vars PROVE IInv'
    OBVIOUS
  <2>1. CASE Run \/ Kill
    BY <2>1, ProcessInv
  <2>2. ASSUME NEW c \in Calls, GetFibonacciSequence(c) PROVE IInv'
    BY <2>2, GetFibonacciSequenceInv
  <2>3. ASSUME NEW c \in Calls, ServerStep(c) PROVE IInv'
    BY <2>3, GetFibonaccisStreamInv, OnWriteDoneInv, FirstFailureInv,
         SecondFailureInv, OnDoneInv DEF ServerStep
  <2>4. ASSUME NEW c \in Calls, ClientStep(c) PROVE IInv'
    BY <2>4, FirstReadInv, StartsTooLateInv, OnReadDoneInv, OnReadEndedInv,
         OnCallDoneInv, AwaitInv DEF ClientStep
  <2>5. ASSUME NEW c \in Calls, RuntimeStep(c) PROVE IInv'
    BY <2>5, WriteCompletesInv, FinishCompletesInv, LoseInv,
         OnCancelInv DEF RuntimeStep, ServerLost
  <2>6. ASSUME NEW c \in Calls, NetworkFails(c) \/ ClientDies(c) PROVE IInv'
    BY <2>6, LoseInv, ClientDiesInv DEF NetworkFails
  <2>7. CASE UNCHANGED vars
    BY <2>7, StutterInv
  <2> QED BY <2>1, <2>2, <2>3, <2>4, <2>5, <2>6, <2>7 DEF Next
<1> QED BY <1>1, <1>2, PTL DEF Spec

\* What the client has and what is on its way is always the stream from its start.
THEOREM WholePrefix == Spec => []StreamFromTheStart
<1>1. IInv => StreamFromTheStart
  <2> SUFFICES ASSUME IInv, NEW c \in Calls
               PROVE  /\ IsPrefix(numbers[c] \o wire[c], Upto(current[c]))
                      /\ link[c] = "up" /\ write[c] # "started" =>
                           numbers[c] \o wire[c] = Upto(current[c])
    BY DEF StreamFromTheStart
  <2>1. CallTypes /\ Bounded(c) /\ Counted(c)
    BY ByCall DEF CallInv
  <2>2. /\ numbers[c] \in Seq(Nat) /\ wire[c] \in Seq(Nat)
        /\ current[c] \in Nat /\ Taken(c) \in Int /\ Taken(c) <= current[c]
        /\ write[c] # "started" => Taken(c) = current[c]
    BY <2>1 DEF CallTypes, Taken
  <2>3. Counts(numbers[c], wire[c], Taken(c))
        /\ (link[c] = "up" => Len(numbers[c]) + Len(wire[c]) = Taken(c))
    BY <2>1 DEF Counted
  <2>4. link[c] = "up" /\ write[c] # "started" =>
          Len(numbers[c]) + Len(wire[c]) = current[c]
    BY <2>2, <2>3
  <2>5. /\ IsPrefix(numbers[c] \o wire[c], Upto(current[c]))
        /\ Len(numbers[c]) + Len(wire[c]) = current[c] =>
             numbers[c] \o wire[c] = Upto(current[c])
    BY <2>2, <2>3, PrefixOfUpto
  <2> QED BY <2>4, <2>5
<1> QED BY <1>1, Invariance, PTL

\* Only a client that is gone can make the reactor bring the server down.
THEOREM PatientClientsAreSafe == Spec => []OnlyLostCallsAbort
<1>1. IInv => OnlyLostCallsAbort
  BY DEF IInv
<1> QED BY <1>1, Invariance, PTL

-----------------------------------------------------------------------------
(* The refinement of ResponseStream: GetFibonacciSequence opens a call,    *)
(* OnReadDone receives, Await succeeds or fails, and a client that crashes *)
(* or dies has failed.  Every other step is a stutter.                     *)

Received == [c \in Calls |-> Len(numbers[c])]

\* The outcome of one call.
OutcomeOf(c) == CASE main[c] = "idle" -> "idle"
                  [] main[c] \in {"calling", "await"} -> "open"
                  [] main[c] = "returned" -> "ok"
                  [] OTHER -> "error"

\* A step that moves one call.
LEMMA OutcomeByCall ==
  ASSUME NEW c \in Calls, \A e \in Calls \ {c} : OutcomeOf(e)' = OutcomeOf(e)
  PROVE  /\ Outcome[c] = OutcomeOf(c)
         /\ Outcome' = [Outcome EXCEPT ![c] = OutcomeOf(c)']
BY DEF Outcome, OutcomeOf

\* A step that the client cannot see.
LEMMA Unseen ==
  ASSUME limit' = limit, numbers' = numbers, \A c \in Calls : OutcomeOf(c)' = OutcomeOf(c)
  PROVE  [Stream!Next]_(Stream!vars)
<1>1. Outcome' = Outcome
  BY DEF Outcome, OutcomeOf
<1> QED BY <1>1 DEF Stream!vars

\* The call is opened.
LEMMA OpenRefines ==
  ASSUME IInv, NEW c \in Calls, GetFibonacciSequence(c)
  PROVE  Stream!Next
<1>1. /\ limit' = limit /\ numbers' = numbers /\ main' = [main EXCEPT ![c] = "calling"]
      /\ main[c] = "idle" /\ CallTypes
  BY ByCall DEF GetFibonacciSequence
<1>2. /\ \A e \in Calls \ {c} : OutcomeOf(e)' = OutcomeOf(e)
      /\ OutcomeOf(c) = "idle" /\ OutcomeOf(c)' = "open"
  BY <1>1 DEF CallTypes, OutcomeOf
<1>3. Stream!Open(c)
  BY <1>1, <1>2, OutcomeByCall DEF Stream!Open
<1> QED BY <1>3 DEF Stream!Next

\* A response arrives while fewer than limit have arrived.
LEMMA ReceiveRefines ==
  ASSUME IInv, NEW c \in Calls, OnReadDone(c)
  PROVE  Stream!Next
<1>1. /\ CallTypes /\ Bounded(c) /\ Counted(c)
  BY ByCall DEF CallInv
<1>2. /\ wire[c] # <<>> /\ main[c] = "await"
      /\ numbers' = [numbers EXCEPT ![c] = Append(numbers[c], Head(wire[c]))]
      /\ limit' = limit /\ main' = main
  BY DEF OnReadDone
<1>3. /\ numbers \in [Calls -> Seq(Nat)] /\ numbers[c] \in Seq(Nat) /\ wire[c] \in Seq(Nat)
      /\ current[c] \in Nat /\ limit[c] \in Nat /\ current[c] <= limit[c]
      /\ Taken(c) \in Int /\ Taken(c) <= limit[c]
  BY <1>1, LimitsAreNumbers DEF CallTypes, Bounded, Taken
<1>4. Len(numbers[c]) < limit[c]
  <2>1. Len(numbers[c]) < Taken(c)
    BY <1>1, <1>2, <1>3, NotFull DEF Counted
  <2> QED BY <1>3, <2>1
<1>5. Len(Append(numbers[c], Head(wire[c]))) = Len(numbers[c]) + 1
  <2>1. Head(wire[c]) \in Nat
    BY <1>2, <1>3, HeadTailProperties
  <2> QED BY <1>3, <2>1, AppendProperties
<1>6. Received[c] < limit[c] /\ Received' = [Received EXCEPT ![c] = @ + 1]
  <2>1. \A e \in Calls \ {c} : numbers'[e] = numbers[e]
    BY <1>2, <1>3
  <2>2. numbers'[c] = Append(numbers[c], Head(wire[c]))
    BY <1>2, <1>3
  <2> QED BY <1>4, <1>5, <2>1, <2>2 DEF Received
<1>7. Outcome' = Outcome /\ Outcome[c] = "open"
  BY <1>2 DEF Outcome
<1>8. Stream!Receive(c)
  BY <1>2, <1>6, <1>7 DEF Stream!Receive, Received
<1> QED BY <1>8 DEF Stream!Next

\* Await returns the whole sequence, or throws.
LEMMA AwaitRefines ==
  ASSUME IInv, NEW c \in Calls, Await(c)
  PROVE  Stream!Next
<1>1. CallTypes /\ Succeeding(c)
  BY ByCall DEF CallInv
<1>2. /\ limit' = limit /\ numbers' = numbers /\ main[c] = "await" /\ status[c] # "none"
      /\ main' = [main EXCEPT ![c] = IF status[c] = "OK" THEN "returned" ELSE "threw"]
  BY DEF Await
<1>3. /\ \A e \in Calls \ {c} : OutcomeOf(e)' = OutcomeOf(e)
      /\ OutcomeOf(c) = "open"
      /\ OutcomeOf(c)' = IF status[c] = "OK" THEN "ok" ELSE "error"
  BY <1>1, <1>2 DEF CallTypes, OutcomeOf
<1>4. CASE status[c] = "OK"
  <2>1. Received[c] = limit[c]
    BY <1>1, <1>4 DEF Succeeding, Received
  <2>2. Stream!Succeed(c)
    BY <1>2, <1>3, <1>4, <2>1, OutcomeByCall DEF Stream!Succeed, Received
  <2> QED BY <2>2 DEF Stream!Next
<1>5. CASE status[c] # "OK"
  <2>1. Stream!Fail(c)
    BY <1>2, <1>3, <1>5, OutcomeByCall DEF Stream!Fail
  <2> QED BY <2>1 DEF Stream!Next
<1> QED BY <1>4, <1>5

\* A client that starts its read too late crashes; one that dies has failed.
LEMMA FailRefines ==
  ASSUME IInv, NEW c \in Calls, StartsTooLate(c) \/ ClientDies(c)
  PROVE  Stream!Next
<1>1. /\ limit' = limit /\ numbers' = numbers /\ CallTypes
      /\ main[c] \in {"calling", "await"}
      /\ \E m \in {"crashed", "died"} : main' = [main EXCEPT ![c] = m]
  BY ByCall DEF StartsTooLate, ClientDies
<1>2. /\ \A e \in Calls \ {c} : OutcomeOf(e)' = OutcomeOf(e)
      /\ OutcomeOf(c) = "open" /\ OutcomeOf(c)' = "error"
  BY <1>1 DEF CallTypes, OutcomeOf
<1>3. Stream!Fail(c)
  BY <1>1, <1>2, OutcomeByCall DEF Stream!Fail
<1> QED BY <1>3 DEF Stream!Next

\* Every client is given the responses in order and success only behind the last of
\* them, whatever the writes, reads and lost connections do.
THEOREM RefinesResponseStream == Spec => ImplementsResponseStream
<1>1. Init => Stream!Init
  BY DEF Init, Stream!Init, Outcome
<1>2. IInv /\ [Next]_vars => [Stream!Next]_(Stream!vars)
  <2> SUFFICES ASSUME IInv, [Next]_vars PROVE [Stream!Next]_(Stream!vars)
    OBVIOUS
  <2>1. CallTypes
    BY ByCall
  <2>2. CASE Run \/ Kill \/ UNCHANGED vars
    BY <2>2, Unseen DEF Run, Kill, vars, client, OutcomeOf
  <2>3. ASSUME NEW c \in Calls, ServerStep(c) \/ RuntimeStep(c) \/ NetworkFails(c)
        PROVE  [Stream!Next]_(Stream!vars)
    <3>1. UNCHANGED client
      BY <2>3 DEF ServerStep, GetFibonaccisStream, OnWriteDone, OnWriteFailed,
                  OnDone, RuntimeStep, WriteCompletes, FinishCompletes, OnCancel,
                  ServerLost, NetworkFails, Lose
    <3> QED BY <3>1, Unseen DEF client, OutcomeOf
  <2>4. ASSUME NEW c \in Calls, FirstRead(c)
        PROVE  [Stream!Next]_(Stream!vars)
    BY <2>1, <2>4, Unseen DEF FirstRead, OutcomeOf
  <2>5. ASSUME NEW c \in Calls, OnReadEnded(c) \/ OnCallDone(c)
        PROVE  [Stream!Next]_(Stream!vars)
    BY <2>5, Unseen DEF OnReadEnded, OnCallDone, OutcomeOf
  <2> QED BY <2>2, <2>3, <2>4, <2>5, OpenRefines, ReceiveRefines, AwaitRefines,
               FailRefines DEF Next, ClientStep
<1> QED BY <1>1, <1>2, Invariance, PTL DEF Spec, ImplementsResponseStream, Stream!Spec

====
