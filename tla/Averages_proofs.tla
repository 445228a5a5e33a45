-------------------------- MODULE Averages_proofs --------------------------
(***************************************************************************)
(* The average of 08 is of everything or of nothing, for any lists, any    *)
(* window, and any loss of a connection or of a process.                   *)
(*                                                                         *)
(* SumOf is a recursive function; what it computes is proved by the least  *)
(* length for which it would fail.  Behind says that what is on its way is *)
(* what the server has not yet read, and IInv where a call ends.           *)
(***************************************************************************)
EXTENDS Streams, SequenceTheorems, WellFoundedInduction, TLAPS

\* A set of numbers has a least one.
LEMMA LeastNumber ==
  ASSUME NEW T, T \subseteq Nat, T # {}
  PROVE  \E m \in T : \A n \in T : m <= n
<1>1. PICK m \in T : \A n \in T : ~ (<<n, m>> \in OpToRel(<, Nat))
  BY NatLessThanWellFounded, WFMin
<1>2. \A n \in T : ~ (n < m)
  BY <1>1 DEF OpToRel
<1> QED BY <1>2

-----------------------------------------------------------------------------
(* The client that writes, and the race of its constructor.                *)

AverageWriterInv == Average!WriterTypeOK /\ Average!CursorFollowsWrites

\* Lists have lengths, and elements up to them.
LEMMA AverageListFacts ==
  ASSUME Average!WriterTypeOK
  PROVE  /\ numbers \in Seq(Nat) /\ Len(numbers) \in Nat /\ Len(sent) \in Nat
         /\ current \in Nat
         /\ \A i \in 1..Len(numbers) : numbers[i] \in Nat
<1>1. numbers \in Seq(Nat)
  BY SamplesAssumption DEF Average!WriterTypeOK
<1> QED BY <1>1, LenProperties, ElementOfSeq DEF Average!WriterTypeOK

\* The start: nothing is written.
LEMMA AverageWriterInit ==
  ASSUME Average!WriterInit, trailer = "none"
  PROVE  AverageWriterInv
<1>1. numbers \in Seq(Nat) /\ Len(numbers) \in Nat /\ <<>> \in Seq(Nat)
  BY LenProperties, SamplesAssumption DEF Average!WriterInit
<1> QED BY <1>1
           DEF Average!WriterInit, AverageWriterInv, Average!WriterTypeOK,
               Average!CursorFollowsWrites

\* The call is opened, or fails at once.
LEMMA AverageStartCall ==
  ASSUME AverageWriterInv, Average!StartCall
  PROVE  AverageWriterInv'
BY DEF AverageWriterInv, Average!StartCall, Average!Open, Average!WriterTypeOK,
       Average!CursorFollowsWrites, Average!cursor

\* The constructor starts its first write, and that is of the first number.
LEMMA AverageFirstWrite ==
  ASSUME AverageWriterInv, Average!FirstWrite, main = "calling", status = "none"
  PROVE  AverageWriterInv'
<1> USE DEF AverageWriterInv, Average!FirstWrite, Average!transport, Average!cursor
<1>1. numbers \in Seq(Nat) /\ Len(numbers) \in Nat /\ Len(<<>>) = 0
  BY AverageListFacts
<1>2. numbers # <<>> => 1 \in 1..Len(numbers)
  BY <1>1, EmptySeq
<1>3. numbers # <<>> => numbers[1] \in Nat
  BY <1>2, AverageListFacts
<1>4. Average!WriterTypeOK'
  BY <1>3 DEF Average!WriterTypeOK
<1>5. Average!CursorFollowsWrites'
  BY <1>1 DEF Average!WriterTypeOK, Average!CursorFollowsWrites, Average!Started
<1> QED BY <1>4, <1>5

\* The call is gone before its first write.
LEMMA AverageStartsTooLate ==
  ASSUME AverageWriterInv, Average!StartsTooLate
  PROVE  AverageWriterInv'
BY DEF AverageWriterInv, Average!StartsTooLate, Average!WriterTypeOK,
       Average!CursorFollowsWrites, Average!transport, Average!cursor

\* The constructor moves the cursor, or loses the race.
LEMMA AverageAdvance == ASSUME AverageWriterInv, Average!Advance PROVE AverageWriterInv'
<1> USE DEF AverageWriterInv, Average!Advance, Average!Increment, Average!transport
<1>1. /\ numbers \in Seq(Nat) /\ Len(numbers) \in Nat /\ Len(sent) \in Nat
      /\ current \in Nat
  BY AverageListFacts
<1>2. current <= Len(numbers) /\ current' \in Nat /\ current' <= current + 1
  BY <1>1 DEF Average!WriterTypeOK, Average!CursorFollowsWrites
<1>3. current' \in 0..Len(numbers) + 1
  BY <1>1, <1>2
<1>4. Average!WriterTypeOK'
  BY <1>3 DEF Average!WriterTypeOK
<1>5. Average!CursorFollowsWrites'
  BY <1>1, <1>2 DEF Average!CursorFollowsWrites, Average!Started
<1> QED BY <1>4, <1>5

\* The cursor is tested: there is a number to write, or the direction is closed.
LEMMA AverageOnWriteDone ==
  ASSUME AverageWriterInv, Average!OnWriteDone
  PROVE  AverageWriterInv'
<1> USE DEF AverageWriterInv, Average!OnWriteDone, Average!AtEnd, Average!Alive,
            Average!cursor, Average!transport
<1>1. Average!WriterTypeOK'
  BY DEF Average!WriterTypeOK
<1>2. main \in {"writing", "await"}
  BY DEF Average!CursorFollowsWrites
<1>3. Average!CursorFollowsWrites'
  BY <1>2 DEF Average!CursorFollowsWrites, Average!Started
<1> QED BY <1>1, <1>3

\* The next write, or a crash past the end.
LEMMA AverageWriteNext ==
  ASSUME AverageWriterInv, Average!WriteNext
  PROVE  AverageWriterInv'
<1> USE DEF AverageWriterInv, Average!WriteNext, Average!Alive, Average!transport
<1>1. /\ numbers \in Seq(Nat) /\ Len(numbers) \in Nat /\ Len(sent) \in Nat
      /\ current \in Nat
  BY AverageListFacts
<1>2. current < Len(numbers) => current + 1 \in 1..Len(numbers)
  BY <1>1
<1>3. current < Len(numbers) =>
        numbers[current + 1] \in Nat /\ current + 1 \in 0..Len(numbers) + 1
  BY <1>1, <1>2, AverageListFacts
<1>4. Average!WriterTypeOK'
  BY <1>3 DEF Average!WriterTypeOK
<1>5. main \in {"writing", "await"}
  BY DEF Average!CursorFollowsWrites
<1>6. Average!CursorFollowsWrites'
  BY <1>1, <1>5 DEF Average!CursorFollowsWrites, Average!Started
<1> QED BY <1>4, <1>6

\* A failed write closes the direction; the status comes; a client ends.
LEMMA AverageEnds ==
  ASSUME AverageWriterInv,
         Average!OnWriteFailed \/ Average!OnCallDone(trailer) \/ Average!Await
           \/ Average!ClientEnds \/ Average!ClientGone
  PROVE  AverageWriterInv'
<1> USE DEF AverageWriterInv, Average!Alive, Average!WriterTypeOK,
            Average!CursorFollowsWrites, Average!Started, Average!cursor,
            Average!writer, Average!transport, Average!messages
<1>1. CASE Average!OnWriteFailed
  BY <1>1 DEF Average!OnWriteFailed
<1>2. CASE Average!OnCallDone(trailer)
  BY <1>2 DEF Average!OnCallDone
<1>3. CASE Average!Await
  BY <1>3 DEF Average!Await
<1>4. CASE Average!ClientEnds
  BY <1>4 DEF Average!ClientEnds, Average!Hangup
<1>5. CASE Average!ClientGone
  BY <1>5 DEF Average!ClientGone
<1> QED BY <1>1, <1>2, <1>3, <1>4, <1>5

\* A number goes on its way: one more is written, and one less is under way.
LEMMA AverageWriteAccepted ==
  ASSUME AverageWriterInv, Average!WriteAccepted
  PROVE  AverageWriterInv'
<1> USE DEF AverageWriterInv, Average!WriteAccepted, Average!Put, Average!Alive,
            Average!cursor
<1>1. sent \in Seq(Nat) /\ request \in Nat /\ main \in {"writing", "await"}
  BY DEF Average!WriterTypeOK, Average!CursorFollowsWrites
<1>2. sent' \in Seq(Nat) /\ Len(sent') = Len(sent) + 1 /\ Len(sent) \in Nat
  BY <1>1, AppendProperties, LenProperties
<1>3. Average!WriterTypeOK'
  BY <1>2 DEF Average!WriterTypeOK
<1>4. Average!CursorFollowsWrites'
  BY <1>1, <1>2 DEF Average!CursorFollowsWrites, Average!Started
<1> QED BY <1>3, <1>4

\* A write fails, or the direction is closed.
LEMMA AverageWriteEnds ==
  ASSUME AverageWriterInv, Average!WriteRefused \/ Average!CloseCompletes
  PROVE  AverageWriterInv'
BY DEF AverageWriterInv, Average!WriteRefused, Average!PutFails, Average!CloseCompletes,
       Average!Close, Average!Alive, Average!WriterTypeOK, Average!CursorFollowsWrites,
       Average!transport, Average!cursor

\* The step of somebody else.
LEMMA AverageOthers ==
  ASSUME AverageWriterInv, UNCHANGED Average!writer,
         trailer' = trailer \/ trailer' \in {"OK", "CANCELLED", "UNAVAILABLE"}
  PROVE  AverageWriterInv'
BY DEF AverageWriterInv, Average!WriterTypeOK, Average!CursorFollowsWrites,
       Average!Started, Average!writer, Average!cursor

\* A client that crashes at the end of its list has written all of it, and past the end
\* more: the race of the constructor is the only crash of a client.
LEMMA AverageOnlyTheRace == ASSUME AverageWriterInv PROVE Average!CrashesOfItsConstructor
<1>1. numbers \in Seq(Nat) /\ {Len(numbers), Len(sent), current} \subseteq Nat
  BY AverageListFacts DEF AverageWriterInv
<1> SUFFICES ASSUME main = "crashed", Len(sent) > Len(numbers)
             PROVE  ~Average!SendsItsNumbers
  BY <1>1 DEF AverageWriterInv, Average!CursorFollowsWrites, Average!CrashesOfItsConstructor
<1> SUFFICES ASSUME NEW n \in 0..Len(numbers), sent = SubSeq(numbers, 1, n)
             PROVE  FALSE
  BY DEF Average!SendsItsNumbers
<1>2. \A i \in 1..n : numbers[i] \in Nat
  BY <1>1, ElementOfSeq
<1>3. Len(SubSeq(numbers, 1, n)) = IF 1 <= n THEN n - 1 + 1 ELSE 0
  BY <1>2, SubSeqProperties
<1> QED BY <1>1, <1>3

-----------------------------------------------------------------------------
\* The function that SumOf chooses, for the first n numbers of s.
IsSum(s, n, f) == f = [k \in 0..n |-> IF k = 0 THEN 0 ELSE f[k - 1] + s[k]]

\* There is one ...
LEMMA SumExists ==
  ASSUME NEW s \in Seq(Nat)
  PROVE  \A n \in 0..Len(s) : \E f \in [0..n -> Nat] : IsSum(s, n, f)
<1> DEFINE Bad == {n \in 0..Len(s) : ~ \E f \in [0..n -> Nat] : IsSum(s, n, f)}
<1>1. Len(s) \in Nat /\ \A k \in 1..Len(s) : s[k] \in Nat
  BY LenProperties, ElementOfSeq
<1>2. SUFFICES ASSUME Bad # {} PROVE FALSE
  OBVIOUS
<1>3. Bad \subseteq Nat
  BY <1>1
<1>4. PICK m \in Bad : \A n \in Bad : m <= n
  <2> HIDE DEF Bad
  <2> QED BY <1>2, <1>3, LeastNumber
<1>5. m \in Nat /\ m <= Len(s)
  BY <1>1
<1>6. CASE m = 0
  <2> DEFINE f == [k \in 0..0 |-> 0]
  <2>1. f \in [0..0 -> Nat] /\ IsSum(s, 0, f)
    BY DEF IsSum
  <2> QED BY <1>6, <2>1
<1>7. CASE m # 0
  <2>0. m - 1 \in 0..Len(s) /\ ~(m <= m - 1)
    BY <1>1, <1>5, <1>7
  <2>1. m - 1 \notin Bad
    <3> HIDE DEF Bad
    <3> QED BY <1>4, <2>0
  <2>2. PICK f \in [0..m - 1 -> Nat] : IsSum(s, m - 1, f)
    BY <2>0, <2>1
  <2> DEFINE g == [k \in 0..m |-> IF k = m THEN f[m - 1] + s[m] ELSE f[k]]
  <2>3. s[m] \in Nat /\ f[m - 1] \in Nat /\ \A k \in 0..m : k # m => k \in 0..m - 1
    BY <1>1, <1>5, <1>7
  <2>4. g \in [0..m -> Nat]
    BY <2>3
  <2>5. ASSUME NEW k \in 0..m
        PROVE  g[k] = IF k = 0 THEN 0 ELSE g[k - 1] + s[k]
    <3>1. CASE k = m
      BY <1>5, <1>7, <3>1
    <3>2. CASE k # m
      <4>1. k \in 0..m - 1 /\ f[k] = IF k = 0 THEN 0 ELSE f[k - 1] + s[k]
        BY <2>2, <2>3, <3>2 DEF IsSum
      <4>2. k # 0 => k - 1 \in 0..m /\ k - 1 # m
        BY <1>5, <4>1
      <4> QED BY <3>2, <4>1, <4>2
    <3> QED BY <3>1, <3>2
  <2>6. IsSum(s, m, g)
    <3> HIDE DEF g
    <3> QED BY <2>4, <2>5 DEF IsSum
  <2> QED BY <2>4, <2>6
<1> QED BY <1>6, <1>7

\* ... and those of two lists agree as far as the lists do.
LEMMA SumUnique ==
  ASSUME NEW s, NEW t, NEW n \in Nat, NEW m \in Nat, n <= m, NEW f, NEW g,
         IsSum(s, n, f), IsSum(t, m, g), \A i \in 1..n : s[i] = t[i]
  PROVE  \A k \in 0..n : f[k] = g[k]
<1> DEFINE Bad == {k \in 0..n : f[k] # g[k]}
<1>1. SUFFICES ASSUME Bad # {} PROVE FALSE
  OBVIOUS
<1>2. Bad \subseteq Nat
  OBVIOUS
<1>3. PICK k \in Bad : \A j \in Bad : k <= j
  <2> HIDE DEF Bad
  <2> QED BY <1>1, <1>2, LeastNumber
<1>4. k \in 0..n /\ k \in 0..m
  OBVIOUS
<1>5. /\ f[k] = IF k = 0 THEN 0 ELSE f[k - 1] + s[k]
      /\ g[k] = IF k = 0 THEN 0 ELSE g[k - 1] + t[k]
  BY <1>4 DEF IsSum
<1>6. k # 0 => k - 1 \in 0..n /\ k - 1 \notin Bad
  BY <1>3, <1>4
<1> QED BY <1>4, <1>5, <1>6

\* SumOf is the last value of that function.
LEMMA SumOfIs ==
  ASSUME NEW s \in Seq(Nat)
  PROVE  \E f : IsSum(s, Len(s), f) /\ Average!SumOf(s) = f[Len(s)]
           /\ Average!SumOf(s) \in Nat
<1> DEFINE sum == CHOOSE f : IsSum(s, Len(s), f)
<1>1. Len(s) \in Nat
  BY LenProperties
<1>2. PICK f \in [0..Len(s) -> Nat] : IsSum(s, Len(s), f)
  BY <1>1, SumExists
<1>3. IsSum(s, Len(s), sum)
  BY <1>2
<1>4. Average!SumOf(s) = sum[Len(s)]
  OBVIOUS
<1>5. Len(s) \in 0..Len(s) /\ \A i \in 1..Len(s) : s[i] = s[i]
  BY <1>1
<1>6. sum[Len(s)] = f[Len(s)]
  <2> HIDE DEF sum
  <2> QED BY <1>1, <1>2, <1>3, <1>5, SumUnique
<1>7. f[Len(s)] \in Nat
  BY <1>1
<1> QED BY <1>2, <1>4, <1>6, <1>7

\* A list with one more number has that number more.
LEMMA SumOfNext ==
  ASSUME NEW s \in Seq(Nat), NEW t \in Seq(Nat), Len(t) = Len(s) + 1,
         \A i \in 1..Len(s) : t[i] = s[i]
  PROVE  Average!SumOf(t) = Average!SumOf(s) + t[Len(t)] /\ Average!SumOf(s) \in Nat
<1>1. Len(s) \in Nat /\ Len(t) \in Nat
  BY LenProperties
<1>2. PICK f : IsSum(s, Len(s), f) /\ Average!SumOf(s) = f[Len(s)]
                 /\ Average!SumOf(s) \in Nat
  BY SumOfIs
<1>3. PICK g : IsSum(t, Len(t), g) /\ Average!SumOf(t) = g[Len(t)]
  BY SumOfIs
<1>4. f[Len(s)] = g[Len(s)]
  <2>1. \A k \in 0..Len(s) : f[k] = g[k]
    <3> DEFINE a == Len(s)
               b == Len(t)
    <3>1. a \in Nat /\ b \in Nat /\ a <= b /\ \A i \in 1..a : s[i] = t[i]
      BY <1>1
    <3>2. IsSum(s, a, f) /\ IsSum(t, b, g)
      BY <1>2, <1>3
    <3>3. \A k \in 0..a : f[k] = g[k]
      <4> HIDE DEF a, b
      <4> QED BY ONLY SMTT(30), <3>1, <3>2, SumUnique
    <3> QED BY <3>3
  <2> QED BY <1>1, <2>1
<1>5. g[Len(t)] = g[Len(t) - 1] + t[Len(t)]
  BY <1>1, <1>3 DEF IsSum
<1> QED BY <1>1, <1>2, <1>3, <1>4, <1>5

\* Nothing adds up to nothing.
LEMMA SumOfNothing == Average!SumOf(<<>>) = 0
<1>1. <<>> \in Seq(Nat) /\ Len(<<>>) = 0
  OBVIOUS
<1>2. PICK f : IsSum(<<>>, Len(<<>>), f) /\ Average!SumOf(<<>>) = f[Len(<<>>)]
  BY <1>1, SumOfIs
<1> QED BY <1>1, <1>2 DEF IsSum

-----------------------------------------------------------------------------
\* A prefix stays as it is when a number is appended.
LEMMA PrefixStays ==
  ASSUME NEW s \in Seq(Nat), NEW x \in Nat, NEW n \in Nat, n <= Len(s)
  PROVE  SubSeq(Append(s, x), 1, n) = SubSeq(s, 1, n)
<1>1. /\ Append(s, x) \in Seq(Nat) /\ Len(s) \in Nat
      /\ \A i \in 1..Len(s) : Append(s, x)[i] = s[i] /\ s[i] \in Nat
  BY AppendProperties, LenProperties, ElementOfSeq
<1>2. \A i \in 1..n : Append(s, x)[i] = s[i] /\ s[i] \in Nat
  BY <1>1
<1>3. /\ SubSeq(s, 1, n) \in Seq(Nat)
      /\ Len(SubSeq(s, 1, n)) = IF 1 <= n THEN n - 1 + 1 ELSE 0
      /\ \A i \in 1..n - 1 + 1 : SubSeq(s, 1, n)[i] = s[1 + i - 1]
  BY <1>2, SubSeqProperties
<1>4. /\ SubSeq(Append(s, x), 1, n) \in Seq(Nat)
      /\ Len(SubSeq(Append(s, x), 1, n)) = IF 1 <= n THEN n - 1 + 1 ELSE 0
      /\ \A i \in 1..n - 1 + 1 : SubSeq(Append(s, x), 1, n)[i] = Append(s, x)[1 + i - 1]
  BY <1>2, SubSeqProperties
<1>5. \A i \in 1..n : SubSeq(Append(s, x), 1, n)[i] = SubSeq(s, 1, n)[i]
  BY <1>2, <1>3, <1>4
<1>6. Len(SubSeq(s, 1, n)) = n /\ Len(SubSeq(Append(s, x), 1, n)) = n
  BY <1>3, <1>4
<1> QED BY <1>3, <1>4, <1>5, <1>6, SeqEqual

\* The next sample of a list adds to the sum of those before.
LEMMA NextSample ==
  ASSUME NEW s \in Seq(Nat), NEW n \in Nat, n < Len(s)
  PROVE  /\ Average!SumOf(SubSeq(s, 1, n + 1)) = Average!SumOf(SubSeq(s, 1, n)) + s[n + 1]
         /\ Average!SumOf(SubSeq(s, 1, n)) \in Nat
<1>1. Len(s) \in Nat /\ \A i \in 1..n + 1 : i \in 1..Len(s)
  BY LenProperties
<1>2. \A i \in 1..n + 1 : s[i] \in Nat
  BY <1>1, ElementOfSeq
<1>3. \A i \in 1..n : s[i] \in Nat
  BY <1>2
<1>4. /\ SubSeq(s, 1, n) \in Seq(Nat)
      /\ Len(SubSeq(s, 1, n)) = IF 1 <= n THEN n - 1 + 1 ELSE 0
      /\ \A i \in 1..n - 1 + 1 : SubSeq(s, 1, n)[i] = s[1 + i - 1]
  BY <1>3, SubSeqProperties
<1>5. /\ SubSeq(s, 1, n + 1) \in Seq(Nat)
      /\ Len(SubSeq(s, 1, n + 1)) = IF 1 <= n + 1 THEN n + 1 - 1 + 1 ELSE 0
      /\ \A i \in 1..n + 1 - 1 + 1 : SubSeq(s, 1, n + 1)[i] = s[1 + i - 1]
  BY <1>2, SubSeqProperties
<1>6. /\ Len(SubSeq(s, 1, n)) = n /\ Len(SubSeq(s, 1, n + 1)) = n + 1
      /\ \A i \in 1..n : SubSeq(s, 1, n + 1)[i] = SubSeq(s, 1, n)[i]
      /\ SubSeq(s, 1, n + 1)[n + 1] = s[n + 1]
  BY <1>4, <1>5
<1> HIDE DEF Average!SumOf
<1> QED BY ZenonT(30), <1>4, <1>5, <1>6, SumOfNext

-----------------------------------------------------------------------------
\* u is what comes behind the first k elements of s.
Behind(u, s, k) == /\ k + Len(u) = Len(s)
                   /\ \A i \in 1..Len(u) : u[i] = s[k + i]

\* Both grow by the same number.
LEMMA BehindGrows ==
  ASSUME NEW s \in Seq(Nat), NEW u \in Seq(Nat), NEW k \in Nat, NEW r \in Nat,
         Behind(u, s, k)
  PROVE  Behind(Append(u, r), Append(s, r), k)
<1> DEFINE t == Append(s, r)
           v == Append(u, r)
<1>1. /\ Len(t) = Len(s) + 1 /\ t[Len(s) + 1] = r /\ \A i \in 1..Len(s) : t[i] = s[i]
      /\ Len(v) = Len(u) + 1 /\ v[Len(u) + 1] = r /\ \A i \in 1..Len(u) : v[i] = u[i]
      /\ Len(s) \in Nat /\ Len(u) \in Nat
  BY AppendProperties, LenProperties
<1>2. \A i \in 1..Len(u) : u[i] = s[k + i]
  BY DEF Behind
<1>3. /\ Len(t) = Len(s) + 1 /\ Len(v) = Len(u) + 1 /\ k + Len(u) = Len(s)
      /\ Len(s) \in Nat /\ Len(u) \in Nat /\ k \in Nat
  BY <1>1 DEF Behind
<1> HIDE DEF t, v
<1>4. ASSUME NEW i \in 1..Len(v)
      PROVE  v[i] = t[k + i]
  <2>1. CASE i = Len(u) + 1
    <3>1. k + i = Len(s) + 1
      BY <1>3, <2>1
    <3> QED BY <1>1, <2>1, <3>1
  <2>2. CASE i # Len(u) + 1
    <3>1. i \in 1..Len(u) /\ k + i \in 1..Len(s)
      BY <1>3, <2>2
    <3> QED BY <1>1, <1>2, <3>1
  <2> QED BY <2>1, <2>2
<1>5. k + Len(v) = Len(t)
  BY <1>3
<1>6. Behind(v, t, k)
  BY <1>4, <1>5 DEF Behind
<1> QED BY <1>6 DEF t, v

\* The first of u is taken.
LEMMA BehindTaken ==
  ASSUME NEW s \in Seq(Nat), NEW u \in Seq(Nat), NEW k \in Nat, Behind(u, s, k), u # <<>>
  PROVE  /\ Behind(Tail(u), s, k + 1) /\ Head(u) = s[k + 1]
         /\ Head(u) \in Nat /\ Tail(u) \in Seq(Nat)
<1> DEFINE v == Tail(u)
<1>1. /\ Head(u) = u[1] /\ Head(u) \in Nat /\ v \in Seq(Nat)
      /\ Len(v) = Len(u) - 1 /\ \A i \in 1..Len(v) : v[i] = u[i + 1]
      /\ Len(s) \in Nat /\ Len(u) \in Nat /\ Len(u) > 0
  BY HeadTailProperties, LenProperties, EmptySeq
<1>2. k + Len(u) = Len(s) /\ \A i \in 1..Len(u) : u[i] = s[k + i]
  BY DEF Behind
<1> HIDE DEF v
<1>3. ASSUME NEW i \in 1..Len(v)
      PROVE  v[i] = s[k + 1 + i]
  <2>1. i + 1 \in 1..Len(u) /\ k + (i + 1) = k + 1 + i
    BY <1>1
  <2>2. v[i] = u[i + 1] /\ u[i + 1] = s[k + (i + 1)]
    BY <1>1, <1>2, <2>1
  <2> QED BY <2>1, <2>2
<1>4. k + 1 + Len(v) = Len(s)
  <2>1. \A a, b, c \in Nat : c = b - 1 /\ k + b = a => k + 1 + c = a
    OBVIOUS
  <2>2. Len(v) = Len(u) - 1 /\ k + Len(u) = Len(s) /\ Len(v) \in Nat
    BY <1>1, LenProperties DEF Behind
  <2> QED BY <1>1, <2>1, <2>2
<1>5. Behind(v, s, k + 1)
  BY <1>3, <1>4 DEF Behind
<1>6. 1 \in 1..Len(u)
  BY <1>1
<1> QED BY <1>1, <1>2, <1>5, <1>6 DEF v

-----------------------------------------------------------------------------
\* IInv, with the part that is the writer's.
LEMMA AverageParts ==
  /\ Average!IInv => AverageWriterInv
  /\ Average!TypeOK' /\ AverageWriterInv' /\ Average!SamplesInOrder'
       /\ Average!EndsBehindTheLast' => Average!IInv'
BY DEF Average!IInv, Average!TypeOK, AverageWriterInv

\* The samples, in a step that reads and writes none.
LEMMA AverageSamplesStay ==
  ASSUME Average!SamplesInOrder, UNCHANGED <<sent, up, incoming, total>>,
         read' = "ok" <=> read = "ok"
  PROVE  Average!SamplesInOrder'
BY DEF Average!SamplesInOrder

\* What has ended stays so, in a step of the client alone.
LEMMA AverageEndsStay ==
  ASSUME Average!EndsBehindTheLast,
         UNCHANGED <<average, Average!server, up, closed, trailer, link>>,
         sending' = "closed" <=> sending = "closed",
         main' = "idle" <=> main = "idle",
         status' = "OK" => status = "OK" \/ trailer = "OK"
  PROVE  Average!EndsBehindTheLast'
BY DEF Average!EndsBehindTheLast, Average!AllCounted, Average!server

\* The call is opened, or fails at once.
LEMMA AverageComputeAverage ==
  ASSUME Average!IInv, Average!ComputeAverage
  PROVE  Average!IInv'
<1> USE DEF Average!ComputeAverage, Average!StartCall, Average!Open, Average!server,
            Average!messages
<1>1. AverageWriterInv'
  BY AverageParts, AverageStartCall
<1>2. Average!TypeOK'
  BY <1>1 DEF AverageWriterInv, Average!IInv, Average!TypeOK
<1>3. Average!SamplesInOrder'
  BY AverageSamplesStay DEF Average!IInv
<1>4. Average!EndsBehindTheLast'
  BY DEF Average!IInv, Average!EndsBehindTheLast, Average!AllCounted
<1> QED BY <1>1, <1>2, <1>3, <1>4, AverageParts

\* The constructor and the callbacks of the client, but for what the transport takes.
LEMMA AverageClient ==
  ASSUME Average!IInv, UNCHANGED <<average, Average!server>>,
         \/ main = "calling" /\ status = "none" /\ Average!FirstWrite
         \/ Average!StartsTooLate \/ Average!Advance \/ Average!OnWriteDone
              \/ Average!WriteNext \/ Average!OnWriteFailed
         \/ Average!OnCallDone(trailer) \/ Average!WriteRefused
  PROVE  Average!IInv'
<1> USE DEF Average!FirstWrite, Average!StartsTooLate, Average!Advance,
            Average!OnWriteDone, Average!WriteNext, Average!OnWriteFailed,
            Average!OnCallDone, Average!WriteRefused, Average!PutFails, Average!AtEnd, Average!Alive,
            Average!server, Average!transport, Average!messages, Average!cursor
<1>1. AverageWriterInv'
  <2> HIDE DEF Average!FirstWrite, Average!StartsTooLate, Average!Advance,
               Average!OnWriteDone, Average!WriteNext, Average!OnWriteFailed,
               Average!OnCallDone, Average!WriteRefused
  <2> QED BY AverageParts, AverageFirstWrite, AverageStartsTooLate, AverageAdvance,
             AverageOnWriteDone, AverageWriteNext, AverageEnds, AverageWriteEnds
<1>2. UNCHANGED <<sent, up, closed, down, trailer, link>>
  OBVIOUS
<1>3. Average!TypeOK'
  BY <1>1, <1>2 DEF AverageWriterInv, Average!IInv, Average!TypeOK
<1>4. Average!SamplesInOrder'
  BY <1>2, AverageSamplesStay DEF Average!IInv
<1>5. Average!EndsBehindTheLast'
  <2>1. sending' = "closed" <=> sending = "closed"
    BY DEF Average!IInv, Average!CursorFollowsWrites
  <2>2. main' = "idle" <=> main = "idle"
    OBVIOUS
  <2>3. status' = status \/ status' = trailer
    BY DEF Average!cursor, Average!writer
  <2> QED BY <1>2, <2>1, <2>2, <2>3, AverageEndsStay DEF Average!IInv
<1> QED BY <1>1, <1>3, <1>4, <1>5, AverageParts

\* A sample goes on its way.
LEMMA AverageWriteAcceptedKeeps ==
  ASSUME Average!IInv, Average!WriteAccepted, UNCHANGED <<average, Average!server>>
  PROVE  Average!IInv'
<1> USE DEF Average!WriteAccepted, Average!Put, Average!Alive, Average!server
<1>1. AverageWriterInv'
  BY AverageParts, AverageWriteAccepted
<1>2. Average!TypeOK'
  <2>1. up' \in Seq(Nat)
    BY AppendProperties DEF Average!IInv, Average!TypeOK, Average!WriterTypeOK
  <2> QED BY <1>1, <2>1 DEF AverageWriterInv, Average!IInv, Average!TypeOK
<1>3. Average!SamplesInOrder'
  <2> DEFINE n == total.count
             k == IF read = "ok" THEN n + 1 ELSE n
  <2>1. /\ request \in Nat /\ sent \in Seq(Nat) /\ up \in Seq(Nat) /\ n \in Nat
        /\ sent' = Append(sent, request) /\ up' = Append(up, request)
        /\ UNCHANGED <<total, read, incoming>>
    BY DEF Average!IInv, Average!TypeOK, Average!WriterTypeOK
  <2> HIDE DEF Average!WriteAccepted
  <2>2. /\ Behind(up, sent, k)
        /\ read = "ok" => incoming = sent[k]
        /\ total.sum = Average!SumOf(SubSeq(sent, 1, n)) /\ ~total.known
    BY DEF Average!IInv, Average!SamplesInOrder, Behind
  <2>3. k \in Nat /\ n <= k /\ (read = "ok" => k = n + 1)
    BY <2>1
  <2>4. Len(sent) \in Nat /\ Len(up) \in Nat /\ \A i \in 1..Len(sent) : sent'[i] = sent[i]
    BY <2>1, AppendProperties, LenProperties
  <2> HIDE DEF k
  <2>5. k + Len(up) = Len(sent)
    BY <2>2 DEF Behind
  <2>6. k <= Len(sent) /\ n <= Len(sent)
    BY <2>1, <2>3, <2>4, <2>5
  <2>7. read = "ok" => incoming = sent'[k]
    <3> SUFFICES ASSUME read = "ok" PROVE incoming = sent'[k]
      OBVIOUS
    <3>1. k \in 1..Len(sent)
      BY <2>1, <2>3, <2>4, <2>6
    <3> QED BY <2>2, <2>4, <3>1
  <2>8. SubSeq(sent', 1, n) = SubSeq(sent, 1, n)
    BY <2>1, <2>6, PrefixStays
  <2>9. Behind(up', sent', k)
    BY <2>1, <2>2, <2>3, BehindGrows
  <2> QED BY <2>1, <2>2, <2>7, <2>8, <2>9 DEF Average!SamplesInOrder, Behind, k
<1>4. Average!EndsBehindTheLast'
  BY DEF Average!IInv, Average!EndsBehindTheLast, Average!AllCounted
<1> QED BY <1>1, <1>2, <1>3, <1>4, AverageParts

\* The client's direction is closed, and its reads end behind the last sample.
LEMMA AverageCloseCompletesKeeps ==
  ASSUME Average!IInv, Average!CloseCompletes, UNCHANGED <<average, Average!server>>
  PROVE  Average!IInv'
<1> USE DEF Average!CloseCompletes, Average!Close, Average!server
<1>1. AverageWriterInv'
  BY AverageParts, AverageWriteEnds
<1>2. Average!TypeOK'
  BY <1>1 DEF AverageWriterInv, Average!IInv, Average!TypeOK
<1>3. Average!SamplesInOrder'
  BY AverageSamplesStay DEF Average!IInv
<1>4. Average!EndsBehindTheLast'
  BY DEF Average!IInv, Average!EndsBehindTheLast, Average!AllCounted
<1> QED BY <1>1, <1>2, <1>3, <1>4, AverageParts

\* The client is gone, and its connection with it.
LEMMA AverageClientFault ==
  ASSUME Average!IInv, Average!WriterFaults, UNCHANGED <<average, Average!server>>
  PROVE  Average!IInv'
<1> USE DEF Average!WriterFaults, Average!ClientEnds, Average!ClientGone,
            Average!Hangup, Average!server, Average!messages, Average!writer,
            Average!cursor
<1>1. AverageWriterInv'
  <2> HIDE DEF Average!ClientEnds, Average!ClientGone
  <2> QED BY AverageParts, AverageEnds
<1>2. Average!TypeOK'
  BY <1>1 DEF AverageWriterInv, Average!IInv, Average!TypeOK
<1>3. Average!SamplesInOrder'
  BY AverageSamplesStay DEF Average!IInv
<1>4. Average!EndsBehindTheLast'
  BY DEF Average!IInv, Average!EndsBehindTheLast, Average!AllCounted
<1> QED BY <1>1, <1>2, <1>3, <1>4, AverageParts

\* ComputeAverage returns what came with an OK status, or throws.
LEMMA AverageReturns ==
  ASSUME Average!IInv, Average!Returns
  PROVE  Average!IInv'
<1> USE DEF Average!Returns, Average!Await, Average!server, Average!transport,
            Average!messages
<1>1. AverageWriterInv'
  <2> HIDE DEF Average!Await
  <2> QED BY AverageParts, AverageEnds
<1>2. Average!TypeOK'
  BY <1>1 DEF AverageWriterInv, Average!IInv, Average!TypeOK
<1>3. Average!SamplesInOrder'
  BY AverageSamplesStay DEF Average!IInv
<1>4. Average!EndsBehindTheLast'
  BY DEF Average!IInv, Average!EndsBehindTheLast, Average!AllCounted
<1> QED BY <1>1, <1>2, <1>3, <1>4, AverageParts

\* The server's callbacks, but for the one that counts a sample.
LEMMA AverageServer ==
  ASSUME Average!IInv, Average!ComputeAvg \/ Average!OnReadEnd \/ Average!OnDone
  PROVE  Average!IInv'
<1> USE DEF Average!ComputeAvg, Average!OnReadEnd, Average!Ended, Average!OnDone,
            Average!Delete, Average!transport, Average!messages
<1>1. UNCHANGED <<Average!writer, average, Average!transport, process>>
  OBVIOUS
<1>2. AverageWriterInv'
  BY <1>1, AverageParts, AverageOthers
<1>3. Average!TypeOK'
  BY <1>1, <1>2 DEF AverageWriterInv, Average!IInv, Average!TypeOK
<1>4. Average!SamplesInOrder'
  <2>1. read' = "ok" <=> read = "ok"
    BY DEF Average!IInv, Average!EndsBehindTheLast
  <2> QED BY <1>1, <2>1, AverageSamplesStay DEF Average!IInv, Average!writer
<1>5. Average!EndsBehindTheLast'
  BY DEF Average!IInv, Average!EndsBehindTheLast, Average!AllCounted, Average!writer,
         Average!cursor
<1> QED BY <1>2, <1>3, <1>4, <1>5, AverageParts

\* A sample is counted: the first that is not, by BehindTaken.
LEMMA AverageOnReadDone ==
  ASSUME Average!IInv, Average!OnReadDone
  PROVE  Average!IInv'
<1> USE DEF Average!IInv, Average!writer, Average!OnReadDone, Average!transport,
            Average!messages
<1>1. AverageWriterInv'
  BY AverageParts, AverageOthers
<1>2. Average!TypeOK'
  <2>1. /\ total \in [sum : Nat, count : Nat, known : BOOLEAN] /\ incoming \in Nat
        /\ total' = [total EXCEPT !.sum = @ + incoming, !.count = @ + 1]
    <3>1. up \in Seq(Nat) /\ sent \in Seq(Nat) /\ total.count + 1 \in 1..Len(sent)
      BY LenProperties DEF Average!TypeOK, Average!WriterTypeOK, Average!SamplesInOrder
    <3>2. incoming = sent[total.count + 1]
      BY DEF Average!SamplesInOrder
    <3>3. incoming \in Nat
      BY <3>1, <3>2
    <3> QED BY <3>3 DEF Average!TypeOK, Average!Add
  <2> HIDE DEF Average!OnReadDone, Average!IInv
  <2>2. total.sum + incoming \in Nat /\ total.count + 1 \in Nat
    BY <2>1
  <2>3. total' \in [sum : Nat, count : Nat, known : BOOLEAN]
    BY <2>1, <2>2
  <2> QED BY <1>1, <2>3
             DEF AverageWriterInv, Average!TypeOK, Average!OnReadDone, Average!IInv
<1>3. Average!SamplesInOrder'
  <2> DEFINE n == total.count
  <2>1. /\ sent \in Seq(Nat) /\ up \in Seq(Nat) /\ n \in Nat
        /\ Len(sent) \in Nat /\ Len(up) \in Nat
        /\ total \in [sum : Nat, count : Nat, known : BOOLEAN] /\ incoming \in Nat
    BY SMTT(30), LenProperties DEF Average!TypeOK, Average!WriterTypeOK, Average!SamplesInOrder
  <2>2. /\ n + 1 + Len(up) = Len(sent) /\ \A i \in 1..Len(up) : up[i] = sent[n + 1 + i]
        /\ incoming = sent[n + 1]
        /\ total.sum = Average!SumOf(SubSeq(sent, 1, n)) /\ ~total.known
    BY DEF Average!SamplesInOrder
  <2>3. Average!SumOf(SubSeq(sent, 1, n + 1)) = total.sum + incoming
    <3>1. n < Len(sent)
      BY <2>1, <2>2
    <3>2. Average!SumOf(SubSeq(sent, 1, n + 1))
            = Average!SumOf(SubSeq(sent, 1, n)) + sent[n + 1]
      BY <2>1, <3>1, NextSample
    <3> QED BY <2>2, <3>2
  <2>4. total'.count = n + 1 /\ total'.sum = total.sum + incoming /\ ~total'.known
    BY <2>1, <2>2 DEF Average!Add
  <2>5. read' = "started" /\ sent' = sent /\ up' = up
    OBVIOUS
  <2> HIDE DEF Average!OnReadDone
  <2> QED BY <2>2, <2>3, <2>4, <2>5 DEF Average!SamplesInOrder
<1>4. Average!EndsBehindTheLast'
  BY DEF Average!EndsBehindTheLast, Average!AllCounted, Average!cursor
<1> QED BY <1>1, <1>2, <1>3, <1>4, AverageParts

\* A read brings the next sample, or the end.
LEMMA AverageReadCompletes ==
  ASSUME Average!IInv, Average!ReadCompletes
  PROVE  Average!IInv'
<1> USE DEF Average!IInv, Average!writer, Average!server, Average!messages,
            Average!transport, Average!ReadCompletes, Average!Take, Average!TakeEnds
<1>1. AverageWriterInv'
  BY AverageParts, AverageOthers
<1>2. Average!EndsBehindTheLast'
  BY DEF Average!EndsBehindTheLast, Average!AllCounted, Average!cursor
<1>3. CASE Average!TakeEnds /\ read' = "end" /\ UNCHANGED incoming
  <2>1. Average!TypeOK'
    BY <1>1, <1>3 DEF AverageWriterInv, Average!TypeOK
  <2>2. Average!SamplesInOrder'
    BY <1>3, AverageSamplesStay
  <2> QED BY <1>1, <1>2, <2>1, <2>2, AverageParts
<1>4. CASE Average!Take /\ read' = "ok" /\ incoming' = Head(up)
  <2> DEFINE n == total.count
  <2>1. /\ sent \in Seq(Nat) /\ up \in Seq(Nat) /\ n \in Nat
        /\ up # <<>> /\ up' = Tail(up) /\ incoming' = Head(up) /\ read' = "ok"
        /\ read = "started" /\ UNCHANGED <<sent, total>>
    BY <1>4 DEF Average!TypeOK, Average!WriterTypeOK
  <2>2. Behind(up, sent, n) /\ total.sum = Average!SumOf(SubSeq(sent, 1, n))
          /\ ~total.known
    BY <2>1 DEF Average!SamplesInOrder, Behind
  <2>3. /\ Behind(up', sent, n + 1) /\ incoming' = sent[n + 1]
        /\ incoming' \in Nat /\ up' \in Seq(Nat)
    BY <2>1, <2>2, BehindTaken
  <2>4. Average!TypeOK'
    BY <1>1, <1>4, <2>3 DEF AverageWriterInv, Average!TypeOK
  <2> HIDE DEF Average!ReadCompletes
  <2>5. Average!SamplesInOrder'
    BY <2>1, <2>2, <2>3 DEF Average!SamplesInOrder, Behind
  <2> QED BY <1>1, <1>2, <2>4, <2>5, AverageParts
<1> QED BY <1>3, <1>4

\* The status follows the answer, and the connection may be lost on either side.
LEMMA AverageRuntime ==
  ASSUME Average!IInv, Average!FinishCompletes \/ Average!OnCancel
  PROVE  Average!IInv'
<1> USE DEF Average!FinishCompletes, Average!Conclude, Average!OnCancel, Average!Learn,
            Average!messages, Average!server
<1>1. AverageWriterInv'
  <2>1. UNCHANGED Average!writer /\ (trailer' = trailer \/ trailer' = "OK")
    OBVIOUS
  <2> QED BY <2>1, AverageParts, AverageOthers
<1>2. Average!TypeOK'
  BY <1>1 DEF AverageWriterInv, Average!IInv, Average!TypeOK
<1>3. Average!SamplesInOrder'
  BY AverageSamplesStay DEF Average!IInv, Average!writer
<1>4. Average!EndsBehindTheLast'
  BY DEF Average!IInv, Average!EndsBehindTheLast, Average!AllCounted, Average!writer,
         Average!cursor
<1> QED BY <1>1, <1>2, <1>3, <1>4, AverageParts

\* The connection is lost; nothing was on its way to this client.
LEMMA AverageLose ==
  ASSUME Average!IInv, Average!Lose, UNCHANGED <<Average!writer, average, Average!server>>
  PROVE  Average!IInv'
<1> USE DEF Average!Lose, Average!messages, Average!server
<1>1. AverageWriterInv'
  BY AverageParts, AverageOthers
<1>2. Average!TypeOK'
  <2>1. \A n \in 0..0 : SubSeq(<<>>, 1, n) = <<>>
    BY SubSeqEmpty
  <2>2. Len(<<>>) = 0
    OBVIOUS
  <2>3. down' = <<>>
    BY <2>1, <2>2 DEF Average!IInv, Average!TypeOK
  <2> QED BY <1>1, <2>3 DEF AverageWriterInv, Average!IInv, Average!TypeOK
<1>3. Average!SamplesInOrder'
  BY AverageSamplesStay DEF Average!IInv, Average!writer
<1>4. Average!EndsBehindTheLast'
  BY DEF Average!IInv, Average!EndsBehindTheLast, Average!AllCounted, Average!writer,
         Average!cursor
<1> QED BY <1>1, <1>2, <1>3, <1>4, AverageParts

\* The server comes and goes, or nothing happens.
LEMMA AverageProcess ==
  ASSUME Average!IInv, UNCHANGED <<Average!writer, average, Average!server, Average!transport>>
  PROVE  Average!IInv'
<1>1. AverageWriterInv'
  BY AverageParts, AverageOthers DEF Average!transport
<1>2. Average!TypeOK' /\ Average!SamplesInOrder' /\ Average!EndsBehindTheLast'
  BY <1>1
     DEF AverageWriterInv, Average!IInv, Average!TypeOK, Average!SamplesInOrder,
         Average!EndsBehindTheLast, Average!AllCounted, Average!writer, Average!cursor,
         Average!server, Average!transport, Average!messages
<1> QED BY <1>1, <1>2, AverageParts

\* There is no call.
LEMMA AverageInit ==
  ASSUME Average!Init
  PROVE  Average!IInv
<1> USE DEF Average!Init, Average!TransportInit, Average!None
<1>1. AverageWriterInv
  BY AverageWriterInit
<1>2. <<>> \in Seq(Nat) /\ Len(<<>>) = 0
  OBVIOUS
<1>3. Average!TypeOK
  BY <1>1, <1>2 DEF AverageWriterInv, Average!TypeOK
<1>4. Average!SamplesInOrder
  <2>1. SubSeq(<<>>, 1, 0) = <<>>
    BY SubSeqEmpty
  <2>2. /\ sent = <<>> /\ up = <<>> /\ read # "ok"
        /\ total.count = 0 /\ total.sum = 0 /\ ~total.known
    BY DEF Average!WriterInit
  <2>3. total.sum = Average!SumOf(SubSeq(sent, 1, total.count))
    BY <2>1, <2>2, SumOfNothing
  <2>4. total.count + Len(up) = Len(sent) /\ \A i \in 1..Len(up) : FALSE
    BY <1>2, <2>2
  <2> HIDE DEF Average!Init
  <2> QED BY <2>2, <2>3, <2>4 DEF Average!SamplesInOrder
<1>5. Average!EndsBehindTheLast
  BY DEF Average!WriterInit, Average!EndsBehindTheLast
<1> QED BY <1>1, <1>3, <1>4, <1>5 DEF AverageWriterInv, Average!IInv

\* Every step keeps the invariant.
LEMMA AverageStep ==
  ASSUME Average!IInv, [Average!Next]_Average!vars
  PROVE  Average!IInv'
<1>1. CASE Average!ClientStep
  BY <1>1, AverageClient, AverageWriteAcceptedKeeps, AverageCloseCompletesKeeps
     DEF Average!ClientStep
<1>2. CASE Average!ComputeAverage \/ Average!Returns
  BY <1>2, AverageComputeAverage, AverageReturns
<1>3. CASE Average!Disturb
  BY <1>3, AverageLose, AverageProcess, AverageClientFault
     DEF Average!Disturb, Average!Kill
<1>4. CASE Average!ServerStep \/ Average!RuntimeStep
  BY <1>4, AverageServer, AverageOnReadDone, AverageReadCompletes, AverageRuntime
     DEF Average!ServerStep, Average!RuntimeStep
<1>5. CASE Average!Run \/ UNCHANGED Average!vars
  BY <1>5, AverageProcess DEF Average!Run, Average!Listen, Average!vars
<1> QED BY <1>1, <1>2, <1>3, <1>4, <1>5 DEF Average!Next

\* A program does not become another.
LEMMA SameProgram ==
  ASSUME [StreamsNext]_all
  PROVE  example' = example
<1>1. ASSUME Next PROVE example' = example
  BY <1>1
     DEF Next, Run, Call, CallerStep, Write, WritesDone, Read, Finish, CalleeStep,
         Handle, HandlerReads, HandlerWrites, HandlerReturns, SendsStatus,
         NetworkOrServer, ClientDies, caller
<1> QED BY <1>1 DEF StreamsNext, Sync, In08, In09, all, vars, caller

\* A step of the programs is one of 08, or changes nothing of it.
LEMMA StepOf08 ==
  ASSUME [StreamsNext]_all, example = "average_callback"
  PROVE  [Average!Next]_Average!vars
<1>1. CASE In08(Average!Next)
  BY <1>1 DEF In08
<1>2. CASE UNCHANGED all
  BY <1>2
     DEF all, vars, caller, transport, messages, writing, serving, averaging,
         Average!vars, Average!writer, Average!cursor, Average!server,
         Average!transport, Average!messages
<1> QED BY <1>1, <1>2 DEF StreamsNext, Sync, In09, Examples

\* Where every sample is, and how the two directions of a call end, for any lists, any
\* window and any loss of the connection or of a process.
THEOREM AverageInvariance ==
  StreamsSpec => [](example = "average_callback" => Average!IInv)
<1>1. StreamsInit => (example = "average_callback" => Average!IInv)
  BY AverageInit DEF StreamsInit, Init, Examples
<1>2. (example = "average_callback" => Average!IInv) /\ [StreamsNext]_all
        => (example = "average_callback" => Average!IInv)'
  <2> SUFFICES ASSUME example = "average_callback" => Average!IInv, [StreamsNext]_all,
                      example' = "average_callback"
               PROVE  Average!IInv'
    OBVIOUS
  <2> QED BY SameProgram, StepOf08, AverageStep
<1> QED BY <1>1, <1>2, PTL DEF StreamsSpec

\* No client of 08 is given the average of a part of what it wrote (08 server.cpp:24-33).
THEOREM NoPartialAverage ==
  StreamsSpec => [](example = "average_callback" => Average!WholeAnswers)
<1>1. Average!IInv => Average!WholeAnswers
  <2> SUFFICES ASSUME Average!IInv, average.known
               PROVE  closed /\ average = Average!Totals(sent)
    BY DEF Average!WholeAnswers
  <2>1. /\ Average!AllCounted /\ average = response /\ read = "none"
        /\ response = [total EXCEPT !.known = TRUE]
    BY DEF Average!IInv, Average!EndsBehindTheLast
  <2>2. /\ sent \in Seq(Nat) /\ Len(up) = 0 /\ Len(sent) \in Nat
        /\ total \in [sum : Nat, count : Nat, known : BOOLEAN]
    BY <2>1, LenProperties
       DEF Average!IInv, Average!TypeOK, Average!WriterTypeOK, Average!AllCounted
  <2>3. /\ total.count = Len(sent)
        /\ total.sum = Average!SumOf(SubSeq(sent, 1, total.count))
    BY <2>1, <2>2 DEF Average!IInv, Average!SamplesInOrder
  <2>4. SubSeq(sent, 1, Len(sent)) = sent
    BY <2>2, SubSeqFull
  <2>5. average = [sum |-> Average!SumOf(sent), count |-> Len(sent), known |-> TRUE]
    BY <2>1, <2>2, <2>3, <2>4
  <2> QED BY <2>1, <2>5 DEF Average!AllCounted, Average!Totals
<1> QED BY <1>1, AverageInvariance, PTL
=============================================================================
