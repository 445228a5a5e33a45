--------------------------- MODULE Streams_proofs ---------------------------
(***************************************************************************)
(* The bidirectional stream of 09 loses, repeats and reorders no number,   *)
(* for any lists, any window and any loss of a connection or of a process. *)
(*                                                                         *)
(* EvensOf is a recursive function; what it computes is proved by the      *)
(* least length for which it would fail.  Then IInv is inductive: what the *)
(* client has, what is on its way back, what the server's queue owes and   *)
(* what is on its way there are, in this order, what the client wrote.     *)
(***************************************************************************)
EXTENDS Averages_proofs

-----------------------------------------------------------------------------
(* The client that writes, and the race of its constructor.                *)

EvensWriterInv == Evens!WriterTypeOK /\ Evens!CursorFollowsWrites

\* Lists have lengths, and elements up to them.
LEMMA EvensListFacts ==
  ASSUME Evens!WriterTypeOK
  PROVE  /\ numbers \in Seq(Nat) /\ Len(numbers) \in Nat /\ Len(sent) \in Nat
         /\ current \in Nat
         /\ \A i \in 1..Len(numbers) : numbers[i] \in Nat
<1>1. numbers \in Seq(Nat)
  BY NumbersAssumption DEF Evens!WriterTypeOK
<1> QED BY <1>1, LenProperties, ElementOfSeq DEF Evens!WriterTypeOK

\* The start: nothing is written.
LEMMA EvensWriterInit ==
  ASSUME Evens!WriterInit, trailer = "none"
  PROVE  EvensWriterInv
<1>1. numbers \in Seq(Nat) /\ Len(numbers) \in Nat /\ <<>> \in Seq(Nat)
  BY LenProperties, NumbersAssumption DEF Evens!WriterInit
<1> QED BY <1>1
           DEF Evens!WriterInit, EvensWriterInv, Evens!WriterTypeOK,
               Evens!CursorFollowsWrites

\* The call is opened, or fails at once.
LEMMA EvensStartCall == ASSUME EvensWriterInv, Evens!StartCall PROVE EvensWriterInv'
BY DEF EvensWriterInv, Evens!StartCall, Evens!Open, Evens!WriterTypeOK,
       Evens!CursorFollowsWrites, Evens!cursor

\* The constructor starts its first write, and that is of the first number.
LEMMA EvensFirstWrite ==
  ASSUME EvensWriterInv, Evens!FirstWrite, main = "calling", status = "none"
  PROVE  EvensWriterInv'
<1> USE DEF EvensWriterInv, Evens!FirstWrite, Evens!transport, Evens!cursor
<1>1. numbers \in Seq(Nat) /\ Len(numbers) \in Nat /\ Len(<<>>) = 0
  BY EvensListFacts
<1>2. numbers # <<>> => 1 \in 1..Len(numbers)
  BY <1>1, EmptySeq
<1>3. numbers # <<>> => numbers[1] \in Nat
  BY <1>2, EvensListFacts
<1>4. Evens!WriterTypeOK'
  BY <1>3 DEF Evens!WriterTypeOK
<1>5. Evens!CursorFollowsWrites'
  BY <1>1 DEF Evens!WriterTypeOK, Evens!CursorFollowsWrites, Evens!Started
<1> QED BY <1>4, <1>5

\* The call is gone before its first write.
LEMMA EvensStartsTooLate ==
  ASSUME EvensWriterInv, Evens!StartsTooLate
  PROVE  EvensWriterInv'
BY DEF EvensWriterInv, Evens!StartsTooLate, Evens!WriterTypeOK,
       Evens!CursorFollowsWrites, Evens!transport, Evens!cursor

\* The constructor moves the cursor, or loses the race.
LEMMA EvensAdvance == ASSUME EvensWriterInv, Evens!Advance PROVE EvensWriterInv'
<1> USE DEF EvensWriterInv, Evens!Advance, Evens!Increment, Evens!transport
<1>1. /\ numbers \in Seq(Nat) /\ Len(numbers) \in Nat /\ Len(sent) \in Nat
      /\ current \in Nat
  BY EvensListFacts
<1>2. current <= Len(numbers) /\ current' \in Nat /\ current' <= current + 1
  BY <1>1 DEF Evens!WriterTypeOK, Evens!CursorFollowsWrites
<1>3. current' \in 0..Len(numbers) + 1
  BY <1>1, <1>2
<1>4. Evens!WriterTypeOK'
  BY <1>3 DEF Evens!WriterTypeOK
<1>5. Evens!CursorFollowsWrites'
  BY <1>1, <1>2 DEF Evens!CursorFollowsWrites, Evens!Started
<1> QED BY <1>4, <1>5

\* The cursor is tested: there is a number to write, or the direction is closed.
LEMMA EvensOnWriteDone ==
  ASSUME EvensWriterInv, Evens!OnWriteDone
  PROVE  EvensWriterInv'
<1> USE DEF EvensWriterInv, Evens!OnWriteDone, Evens!AtEnd, Evens!Alive,
            Evens!cursor, Evens!transport
<1>1. Evens!WriterTypeOK'
  BY DEF Evens!WriterTypeOK
<1>2. main \in {"writing", "await"}
  BY DEF Evens!CursorFollowsWrites
<1>3. Evens!CursorFollowsWrites'
  BY <1>2 DEF Evens!CursorFollowsWrites, Evens!Started
<1> QED BY <1>1, <1>3

\* The next write, or a crash past the end.
LEMMA EvensWriteNext ==
  ASSUME EvensWriterInv, Evens!WriteNext
  PROVE  EvensWriterInv'
<1> USE DEF EvensWriterInv, Evens!WriteNext, Evens!Alive, Evens!transport
<1>1. /\ numbers \in Seq(Nat) /\ Len(numbers) \in Nat /\ Len(sent) \in Nat
      /\ current \in Nat
  BY EvensListFacts
<1>2. current < Len(numbers) => current + 1 \in 1..Len(numbers)
  BY <1>1
<1>3. current < Len(numbers) =>
        numbers[current + 1] \in Nat /\ current + 1 \in 0..Len(numbers) + 1
  BY <1>1, <1>2, EvensListFacts
<1>4. Evens!WriterTypeOK'
  BY <1>3 DEF Evens!WriterTypeOK
<1>5. main \in {"writing", "await"}
  BY DEF Evens!CursorFollowsWrites
<1>6. Evens!CursorFollowsWrites'
  BY <1>1, <1>5 DEF Evens!CursorFollowsWrites, Evens!Started
<1> QED BY <1>4, <1>6

\* A failed write closes the direction; the status comes; a client ends.
LEMMA EvensEnds ==
  ASSUME EvensWriterInv,
         Evens!OnWriteFailed \/ Evens!OnCallDone(trailer) \/ Evens!Await
           \/ Evens!ClientEnds \/ Evens!ClientGone
  PROVE  EvensWriterInv'
<1> USE DEF EvensWriterInv, Evens!Alive, Evens!WriterTypeOK, Evens!CursorFollowsWrites,
            Evens!Started, Evens!cursor, Evens!writer, Evens!transport, Evens!messages
<1>1. CASE Evens!OnWriteFailed
  BY <1>1 DEF Evens!OnWriteFailed
<1>2. CASE Evens!OnCallDone(trailer)
  BY <1>2 DEF Evens!OnCallDone
<1>3. CASE Evens!Await
  BY <1>3 DEF Evens!Await
<1>4. CASE Evens!ClientEnds
  BY <1>4 DEF Evens!ClientEnds, Evens!Hangup
<1>5. CASE Evens!ClientGone
  BY <1>5 DEF Evens!ClientGone
<1> QED BY <1>1, <1>2, <1>3, <1>4, <1>5

\* A number goes on its way: one more is written, and one less is under way.
LEMMA EvensWriteAccepted ==
  ASSUME EvensWriterInv, Evens!WriteAccepted
  PROVE  EvensWriterInv'
<1> USE DEF EvensWriterInv, Evens!WriteAccepted, Evens!Put, Evens!Alive, Evens!cursor
<1>1. sent \in Seq(Nat) /\ request \in Nat /\ main \in {"writing", "await"}
  BY DEF Evens!WriterTypeOK, Evens!CursorFollowsWrites
<1>2. sent' \in Seq(Nat) /\ Len(sent') = Len(sent) + 1 /\ Len(sent) \in Nat
  BY <1>1, AppendProperties, LenProperties
<1>3. Evens!WriterTypeOK'
  BY <1>2 DEF Evens!WriterTypeOK
<1>4. Evens!CursorFollowsWrites'
  BY <1>1, <1>2 DEF Evens!CursorFollowsWrites, Evens!Started
<1> QED BY <1>3, <1>4

\* A write fails, or the direction is closed.
LEMMA EvensWriteEnds ==
  ASSUME EvensWriterInv, Evens!WriteRefused \/ Evens!CloseCompletes
  PROVE  EvensWriterInv'
BY DEF EvensWriterInv, Evens!WriteRefused, Evens!PutFails, Evens!CloseCompletes,
       Evens!Close, Evens!Alive, Evens!WriterTypeOK, Evens!CursorFollowsWrites,
       Evens!transport, Evens!cursor

\* The step of somebody else.
LEMMA EvensOthers ==
  ASSUME EvensWriterInv, UNCHANGED Evens!writer,
         trailer' = trailer \/ trailer' \in {"OK", "CANCELLED", "UNAVAILABLE"}
  PROVE  EvensWriterInv'
BY DEF EvensWriterInv, Evens!WriterTypeOK, Evens!CursorFollowsWrites, Evens!Started,
       Evens!writer, Evens!cursor

\* A client that crashes at the end of its list has written all of it, and past the end
\* more: the race of the constructor is the only crash of a client.
LEMMA EvensOnlyTheRace == ASSUME EvensWriterInv PROVE Evens!CrashesOfItsConstructor
<1>1. numbers \in Seq(Nat) /\ {Len(numbers), Len(sent), current} \subseteq Nat
  BY EvensListFacts DEF EvensWriterInv
<1> SUFFICES ASSUME main = "crashed", Len(sent) > Len(numbers)
             PROVE  ~Evens!SendsItsNumbers
  BY <1>1 DEF EvensWriterInv, Evens!CursorFollowsWrites, Evens!CrashesOfItsConstructor
<1> SUFFICES ASSUME NEW n \in 0..Len(numbers), sent = SubSeq(numbers, 1, n)
             PROVE  FALSE
  BY DEF Evens!SendsItsNumbers
<1>2. \A i \in 1..n : numbers[i] \in Nat
  BY <1>1, ElementOfSeq
<1>3. Len(SubSeq(numbers, 1, n)) = IF 1 <= n THEN n - 1 + 1 ELSE 0
  BY <1>2, SubSeqProperties
<1> QED BY <1>1, <1>3

-----------------------------------------------------------------------------
\* The function that EvensOf chooses, for the first n numbers of s.
IsEvens(s, n, f) == f = [k \in 0..n |-> IF k = 0 THEN <<>> ELSE Evens!Queue(f[k - 1], s[k])]

\* There is one ...
LEMMA EvensExist ==
  ASSUME NEW s \in Seq(Nat)
  PROVE  \A n \in 0..Len(s) : \E f \in [0..n -> Seq(Nat)] : IsEvens(s, n, f)
<1> DEFINE Bad == {n \in 0..Len(s) : ~ \E f \in [0..n -> Seq(Nat)] : IsEvens(s, n, f)}
<1>1. Len(s) \in Nat /\ \A k \in 1..Len(s) : s[k] \in Nat
  BY LenProperties, ElementOfSeq
<1>2. SUFFICES ASSUME Bad # {} PROVE FALSE
  OBVIOUS
<1>3. Bad \subseteq Nat
  BY <1>1
<1>4. PICK m \in Bad : \A n \in Bad : m <= n
  <2> HIDE DEF Bad
  <2> QED BY <1>2, <1>3, LeastNumber
<1>5. m \in Nat /\ m <= Len(s)
  BY <1>1
<1>6. CASE m = 0
  <2> DEFINE f == [k \in 0..0 |-> <<>>]
  <2>1. f \in [0..0 -> Seq(Nat)] /\ IsEvens(s, 0, f)
    BY DEF IsEvens
  <2> QED BY <1>6, <2>1
<1>7. CASE m # 0
  <2>1. m - 1 \in 0..Len(s) /\ ~(m <= m - 1)
    BY <1>1, <1>5, <1>7
  <2>2. m - 1 \notin Bad
    <3> HIDE DEF Bad
    <3> QED BY <1>4, <2>1
  <2>3. PICK f \in [0..m - 1 -> Seq(Nat)] : IsEvens(s, m - 1, f)
    BY <2>1, <2>2
  <2> DEFINE g == [k \in 0..m |-> IF k = m THEN Evens!Queue(f[m - 1], s[m]) ELSE f[k]]
  <2>4. /\ s[m] \in Nat /\ f[m - 1] \in Seq(Nat)
        /\ \A k \in 0..m : k # m => k \in 0..m - 1
    BY <1>1, <1>5, <1>7
  <2>5. Evens!Queue(f[m - 1], s[m]) \in Seq(Nat)
    BY <2>4, AppendProperties DEF Evens!Queue
  <2>6. g \in [0..m -> Seq(Nat)]
    BY <2>4, <2>5
  <2>7. ASSUME NEW k \in 0..m
        PROVE  g[k] = IF k = 0 THEN <<>> ELSE Evens!Queue(g[k - 1], s[k])
    <3>1. CASE k = m
      BY <1>5, <1>7, <3>1
    <3>2. CASE k # m
      <4>1. k \in 0..m - 1 /\ f[k] = IF k = 0 THEN <<>> ELSE Evens!Queue(f[k - 1], s[k])
        BY <2>3, <2>4, <3>2 DEF IsEvens
      <4>2. k # 0 => k - 1 \in 0..m /\ k - 1 # m
        BY <1>5, <4>1
      <4> QED BY <3>2, <4>1, <4>2
    <3> QED BY <3>1, <3>2
  <2>8. IsEvens(s, m, g)
    <3> HIDE DEF g
    <3> QED BY <2>6, <2>7 DEF IsEvens
  <2> QED BY <2>6, <2>8
<1> QED BY <1>6, <1>7

\* ... and those of two lists agree as far as the lists do.
LEMMA EvensUnique ==
  ASSUME NEW s, NEW t, NEW n \in Nat, NEW m \in Nat, n <= m, NEW f, NEW g,
         IsEvens(s, n, f), IsEvens(t, m, g), \A i \in 1..n : s[i] = t[i]
  PROVE  \A k \in 0..n : f[k] = g[k]
<1> DEFINE Bad == {k \in 0..n : f[k] # g[k]}
<1>1. SUFFICES ASSUME Bad # {} PROVE FALSE
  OBVIOUS
<1>2. Bad \subseteq Nat
  OBVIOUS
<1>3. PICK k \in Bad : \A j \in Bad : k <= j
  <2> HIDE DEF Bad
  <2> QED BY <1>1, <1>2, LeastNumber
<1>4. k \in 0..n /\ k \in 0..m
  OBVIOUS
<1>5. /\ f[k] = IF k = 0 THEN <<>> ELSE Evens!Queue(f[k - 1], s[k])
      /\ g[k] = IF k = 0 THEN <<>> ELSE Evens!Queue(g[k - 1], t[k])
  BY <1>4 DEF IsEvens
<1>6. k # 0 => k - 1 \in 0..n /\ k - 1 \notin Bad
  BY <1>3, <1>4
<1> QED BY <1>4, <1>5, <1>6

\* EvensOf is the last value of that function.
LEMMA EvensOfIs ==
  ASSUME NEW s \in Seq(Nat)
  PROVE  \E f : IsEvens(s, Len(s), f) /\ Evens!EvensOf(s) = f[Len(s)]
           /\ Evens!EvensOf(s) \in Seq(Nat)
<1> DEFINE evensOf == CHOOSE f : IsEvens(s, Len(s), f)
<1>1. Len(s) \in Nat
  BY LenProperties
<1>2. PICK f \in [0..Len(s) -> Seq(Nat)] : IsEvens(s, Len(s), f)
  BY <1>1, EvensExist
<1>3. IsEvens(s, Len(s), evensOf)
  BY <1>2
<1>4. Evens!EvensOf(s) = evensOf[Len(s)]
  BY DEF Evens!EvensOf, IsEvens, Evens!Queue
<1>5. Len(s) \in 0..Len(s) /\ \A i \in 1..Len(s) : s[i] = s[i]
  BY <1>1
<1>6. evensOf[Len(s)] = f[Len(s)]
  <2> HIDE DEF evensOf
  <2> QED BY <1>1, <1>2, <1>3, <1>5, EvensUnique
<1>7. f[Len(s)] \in Seq(Nat)
  BY <1>1
<1> QED BY <1>2, <1>4, <1>6, <1>7

\* A list with one more number has that number more, if it is even.
LEMMA EvensOfMore ==
  ASSUME NEW s \in Seq(Nat), NEW t \in Seq(Nat), Len(t) = Len(s) + 1,
         \A i \in 1..Len(s) : t[i] = s[i]
  PROVE  Evens!EvensOf(t) = Evens!Queue(Evens!EvensOf(s), t[Len(t)])
           /\ Evens!EvensOf(s) \in Seq(Nat)
<1>1. Len(s) \in Nat /\ Len(t) \in Nat
  BY LenProperties
<1>2. PICK f : IsEvens(s, Len(s), f) /\ Evens!EvensOf(s) = f[Len(s)]
                 /\ Evens!EvensOf(s) \in Seq(Nat)
  BY EvensOfIs
<1>3. PICK g : IsEvens(t, Len(t), g) /\ Evens!EvensOf(t) = g[Len(t)]
  BY EvensOfIs
<1>4. f[Len(s)] = g[Len(s)]
  <2>1. \A k \in 0..Len(s) : f[k] = g[k]
    <3> DEFINE a == Len(s)
               b == Len(t)
    <3>1. a \in Nat /\ b \in Nat /\ a <= b /\ \A i \in 1..a : s[i] = t[i]
      BY <1>1
    <3>2. IsEvens(s, a, f) /\ IsEvens(t, b, g)
      BY <1>2, <1>3
    <3>3. \A k \in 0..a : f[k] = g[k]
      <4> HIDE DEF a, b
      <4> QED BY ONLY SMTT(30), <3>1, <3>2, EvensUnique
    <3> QED BY <3>3
  <2> QED BY <1>1, <2>1
<1>5. g[Len(t)] = Evens!Queue(g[Len(t) - 1], t[Len(t)])
  BY <1>1, <1>3 DEF IsEvens
<1> QED BY <1>1, <1>2, <1>3, <1>4, <1>5

\* ... also said of the list that is appended to.
LEMMA EvensOfNext ==
  ASSUME NEW s \in Seq(Nat), NEW x \in Nat
  PROVE  Evens!EvensOf(Append(s, x)) = Evens!Queue(Evens!EvensOf(s), x)
           /\ Evens!EvensOf(s) \in Seq(Nat)
<1> DEFINE t == Append(s, x)
<1>1. /\ t \in Seq(Nat) /\ Len(s) \in Nat /\ Len(t) = Len(s) + 1 /\ t[Len(s) + 1] = x
      /\ \A i \in 1..Len(s) : t[i] = s[i]
  BY AppendProperties, LenProperties
<1> HIDE DEF t
<1>2. Evens!EvensOf(t) = Evens!Queue(Evens!EvensOf(s), t[Len(t)])
        /\ Evens!EvensOf(s) \in Seq(Nat)
  BY <1>1, EvensOfMore
<1> QED BY <1>1, <1>2 DEF t

\* Nothing is even in nothing.
LEMMA EvensOfNothing == Evens!EvensOf(<<>>) = <<>>
<1>1. <<>> \in Seq(Nat) /\ Len(<<>>) = 0 /\ 0 \in 0..0
  OBVIOUS
<1>2. PICK f : IsEvens(<<>>, Len(<<>>), f) /\ Evens!EvensOf(<<>>) = f[Len(<<>>)]
  BY <1>1, EvensOfIs
<1> QED BY <1>1, <1>2 DEF IsEvens

-----------------------------------------------------------------------------
\* Three lists, one behind the other.
LEMMA Lists3 == \A a, b, c \in Seq(Nat) : (a \o b) \o c = a \o (b \o c)
BY SMTT(30), ConcatAssociative

\* A number is appended to the second of two lists.
LEMMA AppendBehind ==
  ASSUME NEW s \in Seq(Nat), NEW t \in Seq(Nat), NEW x \in Nat
  PROVE  Append(s \o t, x) = s \o Append(t, x)
<1>1. s \o t \in Seq(Nat) /\ <<x>> \in Seq(Nat)
  BY ConcatProperties
<1>2. Append(s \o t, x) = (s \o t) \o <<x>> /\ Append(t, x) = t \o <<x>>
  BY <1>1, AppendIsConcat
<1> QED BY <1>1, <1>2, ConcatAssociative

\* The even numbers of two lists, one behind the other.
LEMMA EvensOfConcat ==
  ASSUME NEW s \in Seq(Nat), NEW t \in Seq(Nat)
  PROVE  Evens!EvensOf(s \o t) = Evens!EvensOf(s) \o Evens!EvensOf(t)
<1> DEFINE Bad == {n \in Nat : \E u \in Seq(Nat) :
                        Len(u) = n
                          /\ Evens!EvensOf(s \o u) # Evens!EvensOf(s) \o Evens!EvensOf(u)}
<1>1. SUFFICES ASSUME Evens!EvensOf(s \o t) # Evens!EvensOf(s) \o Evens!EvensOf(t)
                      PROVE FALSE
  OBVIOUS
<1>2. Len(t) \in Bad
  BY <1>1, LenProperties
<1>3. PICK m \in Bad : \A n \in Bad : m <= n
  <2>1. Bad \subseteq Nat
    OBVIOUS
  <2> HIDE DEF Bad
  <2> QED BY <1>2, <2>1, LeastNumber
<1>4. PICK u \in Seq(Nat) : Len(u) = m
                              /\ Evens!EvensOf(s \o u) # Evens!EvensOf(s) \o Evens!EvensOf(u)
  BY <1>3
<1>5. Evens!EvensOf(s) \in Seq(Nat)
  BY EvensOfIs
<1>6. u # <<>>
  <2>1. s \o <<>> = s /\ Evens!EvensOf(s) \o <<>> = Evens!EvensOf(s)
    BY <1>5, ConcatEmptySeq
  <2> QED BY <1>4, <2>1, EvensOfNothing
<1>7. PICK v \in Seq(Nat), x \in Nat : u = Append(v, x)
  BY <1>6, SequenceEmptyOrAppend
<1>8. Evens!EvensOf(s \o v) = Evens!EvensOf(s) \o Evens!EvensOf(v)
  <2>1. Len(v) \in Nat /\ m = Len(v) + 1
    BY <1>4, <1>7, AppendProperties, LenProperties
  <2>2. Len(v) \notin Bad
    <3>1. ~(m <= Len(v))
      BY <2>1
    <3> HIDE DEF Bad
    <3> QED BY <1>3, <3>1
  <2> QED BY <2>1, <2>2
<1>9. Evens!EvensOf(v) \in Seq(Nat) /\ s \o v \in Seq(Nat) /\ s \o u = Append(s \o v, x)
  <2>1. Evens!EvensOf(v) \in Seq(Nat)
    BY EvensOfIs
  <2>2. s \o v \in Seq(Nat)
    BY ConcatProperties
  <2>3. s \o u = Append(s \o v, x)
    BY <1>7, AppendBehind
  <2> QED BY <2>1, <2>2, <2>3
<1>10. Evens!EvensOf(u) = Evens!Queue(Evens!EvensOf(v), x)
  BY <1>7, EvensOfNext
<1>11. Evens!EvensOf(s \o u) = Evens!Queue(Evens!EvensOf(s) \o Evens!EvensOf(v), x)
  BY ZenonT(30), <1>8, <1>9, EvensOfNext
<1>12. Evens!Queue(Evens!EvensOf(s) \o Evens!EvensOf(v), x)
         = Evens!EvensOf(s) \o Evens!Queue(Evens!EvensOf(v), x)
  BY <1>5, <1>9, AppendBehind DEF Evens!Queue
<1> QED BY <1>4, <1>10, <1>11, <1>12

\* The server's queue takes a number if it is even.
LEMMA QueueTakes ==
  ASSUME NEW b \in Seq(Nat), NEW n \in Nat
  PROVE  Evens!Queue(b, n) = b \o Evens!EvensOf(<<n>>)
           /\ Evens!EvensOf(<<n>>) \in Seq(Nat)
<1>1. <<n>> = Append(<<>>, n) /\ <<n>> \in Seq(Nat) /\ <<>> \in Seq(Nat)
  OBVIOUS
<1>2. Evens!EvensOf(<<n>>) = Evens!Queue(<<>>, n)
  BY <1>1, EvensOfNext, EvensOfNothing
<1>3. b \o <<>> = b /\ b \o <<n>> = Append(b, n)
  BY ConcatEmptySeq, AppendIsConcat
<1> QED BY <1>1, <1>2, <1>3, EvensOfIs DEF Evens!Queue

-----------------------------------------------------------------------------
\* A list is its first numbers and the others.
LEMMA FirstPart ==
  ASSUME NEW s \in Seq(Nat), NEW n \in 0..Len(s)
  PROVE  /\ SubSeq(s, 1, n) \in Seq(Nat)
         /\ \E u \in Seq(Nat) : s = SubSeq(s, 1, n) \o u
<1> DEFINE u == SubSeq(s, n + 1, Len(s))
<1>1. Len(s) \in Nat /\ \A i \in 1..Len(s) : s[i] \in Nat
  BY LenProperties, ElementOfSeq
<1>2. SubSeq(s, 1, n) \o u = SubSeq(s, 1, Len(s))
  <2>1. n \in 1 - 1..Len(s) /\ Len(s) \in n..Len(s) /\ 1 \in 1..Len(s) + 1
    BY <1>1
  <2> QED BY <2>1, ConcatAdjacentSubSeq
<1>3. u \in Seq(Nat) /\ SubSeq(s, 1, n) \in Seq(Nat)
  <2>1. (\A i \in n + 1..Len(s) : s[i] \in Nat) /\ \A i \in 1..n : s[i] \in Nat
    BY <1>1
  <2> QED BY <1>1, <2>1, SubSeqProperties
<1> QED BY <1>2, <1>3, SubSeqFull

\* A prefix is what something can be appended to.
LEMMA PrefixIs ==
  ASSUME NEW s \in Seq(Nat), NEW t \in Seq(Nat)
  PROVE  Evens!IsPrefix(s, t) <=> \E u \in Seq(Nat) : t = s \o u
<1>1. Len(s) \in Nat /\ Len(t) \in Nat
  BY LenProperties
<1>2. ASSUME Evens!IsPrefix(s, t)
      PROVE  \E u \in Seq(Nat) : t = s \o u
  <2>1. Len(s) \in 0..Len(t) /\ s = SubSeq(t, 1, Len(s))
    BY <1>1, <1>2, SubSeqFull DEF Evens!IsPrefix
  <2> QED BY ZenonT(30), <2>1, FirstPart
<1>3. ASSUME NEW u \in Seq(Nat), t = s \o u
      PROVE  Evens!IsPrefix(s, t)
  <2>1. Len(u) \in Nat /\ Len(t) = Len(s) + Len(u)
    BY <1>3, ConcatProperties, LenProperties
  <2>2. SubSeq(t, 1, Len(s)) = SubSeq(s, 1, Len(s))
    <3>1. CASE Len(s) = 0
      BY <3>1, SubSeqEmpty
    <3>2. CASE Len(s) # 0
      <4>1. 1 \in 1..Len(s) /\ Len(s) \in 1..Len(s)
        BY <1>1, <3>2
      <4> QED BY <1>3, <4>1, SubSeqOfConcat1
    <3> QED BY <3>1, <3>2
  <2> QED BY <1>1, <2>1, <2>2 DEF Evens!IsPrefix
<1> QED BY <1>2, <1>3

\* What grows keeps its prefixes.
LEMMA PrefixGrows ==
  ASSUME NEW s \in Seq(Nat), NEW t \in Seq(Nat), NEW u \in Seq(Nat), Evens!IsPrefix(s, t)
  PROVE  Evens!IsPrefix(s, t \o u)
<1>1. PICK v \in Seq(Nat) : t = s \o v
  BY PrefixIs
<1>2. (s \o v) \o u = s \o (v \o u)
  BY ZenonT(30), Lists3
<1>3. v \o u \in Seq(Nat) /\ t \o u \in Seq(Nat)
  BY ConcatProperties
<1> QED BY <1>1, <1>2, <1>3, PrefixIs

\* A list is its first element and the rest.
LEMMA FirstAndRest ==
  ASSUME NEW s \in Seq(Nat), s # <<>>
  PROVE  s = <<Head(s)>> \o Tail(s) /\ Head(s) \in Nat /\ Tail(s) \in Seq(Nat)
<1>1. Len(s) \in Nat \ {0} /\ Head(s) = s[1]
  BY EmptySeq
<1>2. 1 \in 1..Len(s) /\ Len(s) \in 1..Len(s)
  BY <1>1
<1>3. SubSeq(s, 1, Len(s)) = <<s[1]>> \o SubSeq(s, 1 + 1, Len(s))
  BY <1>2, SubSeqRecursiveFirst
<1> QED BY <1>1, <1>3, SubSeqFull, TailIsSubSeq, HeadTailProperties

\* Of one that is behind another, too.
LEMMA MoveFirst ==
  ASSUME NEW s \in Seq(Nat), NEW t \in Seq(Nat), t # <<>>
  PROVE  Append(s, Head(t)) \o Tail(t) = s \o t
<1>1. t = <<Head(t)>> \o Tail(t) /\ <<Head(t)>> \in Seq(Nat) /\ Tail(t) \in Seq(Nat)
  BY FirstAndRest
<1>2. Append(s, Head(t)) = s \o <<Head(t)>>
  BY FirstAndRest, AppendIsConcat
<1>3. \A a, b \in Seq(Nat) : (s \o a) \o b = s \o (a \o b)
  BY SMTT(30), ConcatAssociative
<1> QED BY <1>1, <1>2, <1>3

-----------------------------------------------------------------------------
\* IInv, with the part that is the writer's.
LEMMA EvensParts ==
  /\ Evens!IInv => EvensWriterInv
  /\ Evens!TypeOK' /\ EvensWriterInv' /\ Evens!NothingLost' /\ Evens!OneAtATime'
       /\ Evens!EndsBehindTheLast' => Evens!IInv'
BY DEF Evens!IInv, Evens!TypeOK, EvensWriterInv

\* The lists of a call are lists.
LEMMA EvensListsOfTheCall ==
  ASSUME Evens!IInv
  PROVE  /\ sent \in Seq(Nat) /\ evens \in Seq(Nat) /\ down \in Seq(Nat)
              /\ up \in Seq(Nat)
         /\ buffer \in Seq(Nat) /\ incoming \in Nat /\ request \in Nat
         /\ Evens!EvensOf(sent) \in Seq(Nat)
<1>1. sent \in Seq(Nat)
  BY DEF Evens!IInv, Evens!TypeOK, Evens!WriterTypeOK
<1> QED BY <1>1, EvensOfIs DEF Evens!IInv, Evens!TypeOK, Evens!WriterTypeOK

\* What the reactor owes and what it has not read are lists.
LEMMA EvensOwedAndUnread ==
  ASSUME Evens!IInv
  PROVE  Evens!Owed \in Seq(Nat) /\ Evens!Unread \in Seq(Nat)
<1>1. Evens!Owed \in Seq(Nat)
  BY EvensListsOfTheCall, FirstAndRest DEF Evens!Owed, Evens!IInv, Evens!OneAtATime
<1>2. <<incoming>> \in Seq(Nat) /\ <<>> \in Seq(Nat)
  BY EvensListsOfTheCall
<1> QED BY <1>1, <1>2, EvensListsOfTheCall, ConcatProperties DEF Evens!Unread

\* The lists, in a step that moves no number.
LEMMA EvensNumbersStay ==
  ASSUME Evens!NothingLost, Evens!EndsBehindTheLast', UNCHANGED <<evens, down, sent>>,
         link' = "up"
           => link = "up" /\ Evens!Owed' = Evens!Owed /\ Evens!Unread' = Evens!Unread
  PROVE  Evens!NothingLost'
BY DEF Evens!NothingLost, Evens!EndsBehindTheLast

\* The reactor, in a step of the client or of the network.
LEMMA EvensReactorStays ==
  ASSUME Evens!OneAtATime, UNCHANGED Evens!server, link = "reset" => link' = "reset"
  PROVE  Evens!OneAtATime'
BY DEF Evens!OneAtATime, Evens!OneOperation, Evens!server

\* There is no call.
LEMMA EvensInit ==
  ASSUME Evens!Init
  PROVE  Evens!IInv
<1> USE DEF Evens!Init, Evens!TransportInit
<1>1. EvensWriterInv
  BY EvensWriterInit
<1>2. <<>> \in Seq(Nat) /\ Len(<<>>) = 0
  OBVIOUS
<1>3. Evens!TypeOK
  BY <1>1, <1>2 DEF EvensWriterInv, Evens!TypeOK
<1>4. Evens!NothingLost
  <2>1. Evens!IsPrefix(<<>>, <<>>) /\ <<>> \o <<>> = <<>>
    BY <1>2, PrefixIs, ConcatEmptySeq
  <2> QED BY <2>1, EvensOfNothing DEF Evens!WriterInit, Evens!NothingLost
<1>5. Evens!OneAtATime
  BY DEF Evens!OneAtATime, Evens!OneOperation
<1>6. Evens!EndsBehindTheLast
  BY DEF Evens!WriterInit, Evens!EndsBehindTheLast
<1> QED BY <1>1, <1>3, <1>4, <1>5, <1>6 DEF EvensWriterInv, Evens!IInv

\* The call is opened, or fails at once; no number is anywhere.
LEMMA EvensGetEvens ==
  ASSUME Evens!IInv, Evens!GetEvens
  PROVE  Evens!IInv'
<1> USE DEF Evens!GetEvens, Evens!StartCall, Evens!Open, Evens!server, Evens!messages
<1>1. EvensWriterInv'
  BY EvensParts, EvensStartCall
<1>2. Evens!TypeOK'
  BY <1>1 DEF EvensWriterInv, Evens!IInv, Evens!TypeOK
<1>3. Evens!OneAtATime'
  BY DEF Evens!IInv, Evens!OneAtATime, Evens!OneOperation, Evens!EndsBehindTheLast
<1>4. Evens!EndsBehindTheLast'
  BY DEF Evens!IInv, Evens!EndsBehindTheLast
<1>5. Evens!NothingLost'
  <2>1. /\ sent = <<>> /\ up = <<>> /\ buffer = <<>> /\ read = "none" /\ write = "none"
        /\ UNCHANGED <<sent, up, down, evens, buffer, read, write>>
    BY DEF Evens!IInv, Evens!OneAtATime, Evens!EndsBehindTheLast,
           Evens!CursorFollowsWrites
  <2>2. Evens!IsPrefix(evens \o down, <<>>)
    BY <2>1, EvensOfNothing DEF Evens!IInv, Evens!NothingLost
  <2>3. evens \o down = <<>>
    <3>1. evens \o down \in Seq(Nat) /\ <<>> \in Seq(Nat)
      BY EvensListsOfTheCall, ConcatProperties
    <3>2. PICK u \in Seq(Nat) : <<>> = (evens \o down) \o u
      BY <2>2, <3>1, PrefixIs
    <3>3. \A a \in Seq(Nat) : a \o u = <<>> => a = <<>>
      BY ConcatEqualIffEmpty
    <3> QED BY <3>1, <3>2, <3>3
  <2>4. Evens!Owed' = <<>> /\ Evens!Unread' = <<>>
    <3>1. <<>> \o <<>> = <<>>
      BY ConcatEmptySeq
    <3> QED BY <2>1, <3>1 DEF Evens!Owed, Evens!Unread
  <2>5. evens' \o down' \o Evens!Owed' \o Evens!EvensOf(Evens!Unread')
          = Evens!EvensOf(sent')
    <3>1. <<>> \o <<>> = <<>>
      BY ConcatEmptySeq
    <3> HIDE DEF Evens!GetEvens
    <3> QED BY <2>1, <2>3, <2>4, <3>1, EvensOfNothing
  <2> QED BY <1>4, <2>1, <2>2, <2>5, EvensOfNothing
             DEF Evens!NothingLost, Evens!EndsBehindTheLast
<1> QED BY <1>1, <1>2, <1>3, <1>4, <1>5, EvensParts

\* The constructor and the callbacks of the client's writes, but for what the transport
\* takes.
LEMMA EvensWrite ==
  ASSUME Evens!IInv, UNCHANGED <<reading, evens, Evens!server>>,
         \/ main = "calling" /\ status = "none" /\ reading # "no" /\ Evens!FirstWrite
         \/ Evens!StartsTooLate \/ Evens!Advance \/ Evens!OnWriteDone
              \/ Evens!WriteNext \/ Evens!OnWriteFailed \/ Evens!WriteRefused
         \/ reading # "yes" /\ Evens!OnCallDone(trailer)
         \/ Evens!Await
  PROVE  Evens!IInv'
<1> USE DEF Evens!FirstWrite, Evens!StartsTooLate, Evens!Advance, Evens!OnWriteDone,
            Evens!WriteNext, Evens!OnWriteFailed, Evens!OnCallDone, Evens!Await,
            Evens!WriteRefused, Evens!PutFails, Evens!AtEnd, Evens!Alive, Evens!server, Evens!transport,
            Evens!messages, Evens!cursor
<1>1. EvensWriterInv'
  <2> HIDE DEF Evens!FirstWrite, Evens!StartsTooLate, Evens!Advance, Evens!OnWriteDone,
               Evens!WriteNext, Evens!OnWriteFailed, Evens!OnCallDone,
               Evens!WriteRefused, Evens!Await
  <2> QED BY EvensParts, EvensFirstWrite, EvensStartsTooLate, EvensAdvance,
             EvensOnWriteDone, EvensWriteNext, EvensEnds, EvensWriteEnds
<1>2. UNCHANGED <<sent, up, closed, down, trailer, link, reading, evens, Evens!server>>
  OBVIOUS
<1>3. Evens!TypeOK'
  BY <1>1, <1>2 DEF EvensWriterInv, Evens!IInv, Evens!TypeOK
<1>4. Evens!OneAtATime'
  BY <1>2, EvensReactorStays DEF Evens!IInv
<1>5. Evens!EndsBehindTheLast'
  <2>1. evens \o <<>> = evens
    BY EvensListsOfTheCall, ConcatEmptySeq
  <2>2. sending' = "closed" <=> sending = "closed"
    BY DEF Evens!IInv, Evens!CursorFollowsWrites
  <2>3. (main' = "idle" <=> main = "idle") /\ (sending' # "none" => reading # "no")
    BY DEF Evens!IInv, Evens!EndsBehindTheLast
  <2>4. status' = "OK" => reading = "ended" /\ closed /\ evens = Evens!EvensOf(sent)
    <3> SUFFICES ASSUME status' = "OK", status # "OK"
                 PROVE  reading = "ended" /\ closed /\ evens = Evens!EvensOf(sent)
      BY DEF Evens!IInv, Evens!EndsBehindTheLast
    <3>1. trailer = "OK" /\ reading # "yes"
      BY DEF Evens!cursor
    <3>2. closed /\ evens \o down = Evens!EvensOf(sent) /\ sending = "closed"
      BY <3>1 DEF Evens!IInv, Evens!EndsBehindTheLast
    <3>3. reading = "ended"
      BY <3>1, <3>2 DEF Evens!IInv, Evens!EndsBehindTheLast, Evens!TypeOK
    <3>4. down = <<>>
      BY <3>3 DEF Evens!IInv, Evens!EndsBehindTheLast
    <3> HIDE DEF Evens!OnCallDone, Evens!OnWriteDone, Evens!WriteNext, Evens!FirstWrite
    <3> QED BY <2>1, <3>2, <3>3, <3>4
  <2>5. main' = "returned" => status' = "OK"
    BY DEF Evens!IInv, Evens!EndsBehindTheLast, Evens!cursor
  <2> QED BY <1>2, <2>2, <2>3, <2>4, <2>5 DEF Evens!IInv, Evens!EndsBehindTheLast
<1>6. Evens!NothingLost'
  BY <1>2, <1>5, EvensNumbersStay DEF Evens!IInv, Evens!Owed, Evens!Unread
<1> QED BY <1>1, <1>3, <1>4, <1>5, <1>6, EvensParts

\* A number goes on its way: it is the last of what was sent and of what is unread.
LEMMA EvensWriteAcceptedKeeps ==
  ASSUME Evens!IInv, Evens!WriteAccepted, UNCHANGED <<reading, evens, Evens!server>>
  PROVE  Evens!IInv'
<1> USE DEF Evens!WriteAccepted, Evens!Put, Evens!Alive, Evens!server
<1>1. EvensWriterInv'
  BY EvensParts, EvensWriteAccepted
<1>2. Evens!TypeOK'
  <2>1. up' \in Seq(Nat)
    BY EvensListsOfTheCall, AppendProperties
  <2> QED BY <1>1, <2>1 DEF EvensWriterInv, Evens!IInv, Evens!TypeOK
<1>3. Evens!OneAtATime'
  BY EvensReactorStays DEF Evens!IInv
<1>4. Evens!EndsBehindTheLast'
  BY DEF Evens!IInv, Evens!EndsBehindTheLast
<1>5. Evens!NothingLost'
  <2> DEFINE e == Evens!EvensOf(<<request>>)
             p == evens \o down
             x == p \o Evens!Owed
             y == Evens!EvensOf(Evens!Unread)
  <2>1. /\ request \in Nat /\ sent \in Seq(Nat) /\ up \in Seq(Nat)
        /\ p \in Seq(Nat) /\ Evens!Owed \in Seq(Nat) /\ Evens!Unread \in Seq(Nat)
             /\ x \in Seq(Nat)
        /\ Evens!EvensOf(sent) \in Seq(Nat) /\ y \in Seq(Nat)
    BY EvensListsOfTheCall, EvensOwedAndUnread, ConcatProperties, EvensOfIs
  <2>2. <<request>> \in Seq(Nat) /\ e \in Seq(Nat)
    BY SMTT(30), <2>1, QueueTakes
  <2>3. sent' = sent \o <<request>> /\ up' = up \o <<request>>
    BY <2>1, AppendIsConcat
  <2>4. UNCHANGED <<p, Evens!Owed, link, read, incoming>>
    BY DEF Evens!Owed
  <2>5. Evens!IsPrefix(p, Evens!EvensOf(sent))
          /\ (link = "up" => x \o y = Evens!EvensOf(sent))
    BY DEF Evens!IInv, Evens!NothingLost
  <2>6. Evens!EvensOf(sent') = Evens!EvensOf(sent) \o e
    BY ZenonT(30), <2>1, <2>2, <2>3, EvensOfConcat
  <2>7. Evens!Unread' = Evens!Unread \o <<request>>
    <3>1. \A a \in {<<>>, <<incoming>>} : a \o (up \o <<request>>)
            = (a \o up) \o <<request>>
      <4>1. <<>> \in Seq(Nat) /\ <<incoming>> \in Seq(Nat)
        BY EvensListsOfTheCall
      <4>2. \A a \in Seq(Nat) : a \o (up \o <<request>>) = (a \o up) \o <<request>>
        <5> DEFINE r == <<request>>
        <5>1. r \in Seq(Nat) /\ up \in Seq(Nat)
          BY <2>1, <2>2
        <5> HIDE DEF r
        <5>2. \A a \in Seq(Nat) : a \o (up \o r) = (a \o up) \o r
          BY <5>1, Lists3
        <5> QED BY <5>2 DEF r
      <4> QED BY <4>1, <4>2
    <3> QED BY <2>3, <2>4, <3>1 DEF Evens!Unread
  <2>8. Evens!EvensOf(Evens!Unread') = y \o e
    BY <2>1, <2>2, <2>7, EvensOfConcat
  <2>9. Evens!IsPrefix(p, Evens!EvensOf(sent) \o e)
    BY <2>1, <2>2, <2>5, PrefixGrows
  <2>10. x \o (y \o e) = (x \o y) \o e
    <3>1. x \in Seq(Nat) /\ y \in Seq(Nat) /\ e \in Seq(Nat)
      BY <2>1, <2>2
    <3> HIDE DEF x, y, e
    <3> QED BY <3>1, Lists3
  <2>11. main' = "returned" => evens' = Evens!EvensOf(sent') /\ closed'
    BY <1>4 DEF Evens!EndsBehindTheLast
  <2> HIDE DEF Evens!WriteAccepted
  <2> QED BY <2>4, <2>5, <2>6, <2>8, <2>9, <2>10, <2>11 DEF Evens!NothingLost
<1> QED BY <1>1, <1>2, <1>3, <1>4, <1>5, EvensParts

\* The client's direction is closed, or the client is gone and its connection with it.
LEMMA EvensClientEnds ==
  ASSUME Evens!IInv, Evens!CloseCompletes
           \/ Evens!WriterFaults, UNCHANGED <<reading, evens, Evens!server>>
  PROVE  Evens!IInv'
<1> USE DEF Evens!CloseCompletes, Evens!Close, Evens!WriterFaults, Evens!ClientEnds,
            Evens!ClientGone, Evens!Hangup, Evens!server, Evens!messages, Evens!writer,
            Evens!cursor
<1>1. EvensWriterInv'
  <2> HIDE DEF Evens!CloseCompletes, Evens!ClientEnds, Evens!ClientGone
  <2> QED BY EvensParts, EvensEnds, EvensWriteEnds
<1>2. Evens!TypeOK'
  BY <1>1 DEF EvensWriterInv, Evens!IInv, Evens!TypeOK
<1>3. Evens!OneAtATime'
  BY EvensReactorStays DEF Evens!IInv
<1>4. Evens!EndsBehindTheLast'
  BY SMTT(30) DEF Evens!IInv, Evens!EndsBehindTheLast
<1>5. Evens!NothingLost'
  BY <1>4, EvensNumbersStay DEF Evens!IInv, Evens!Owed, Evens!Unread
<1> QED BY <1>1, <1>2, <1>3, <1>4, <1>5, EvensParts

\* The connection is lost, and the last of the numbers on their way back.
LEMMA EvensLose ==
  ASSUME Evens!IInv, Evens!Lose, UNCHANGED <<Evens!writer, reading, evens, Evens!server>>
  PROVE  Evens!IInv'
<1> USE DEF Evens!Lose, Evens!server
<1>1. EvensWriterInv'
  BY EvensParts, EvensOthers
<1>2. PICK n \in 0..Len(down) : down' = SubSeq(down, 1, n)
  OBVIOUS
<1>3. PICK v \in Seq(Nat) : down = down' \o v /\ down' \in Seq(Nat)
  BY <1>2, EvensListsOfTheCall, FirstPart
<1>4. Evens!TypeOK'
  BY <1>1, <1>3 DEF EvensWriterInv, Evens!IInv, Evens!TypeOK
<1>5. Evens!OneAtATime'
  BY EvensReactorStays DEF Evens!IInv
<1>6. down = <<>> => down' = <<>>
  <2>1. \A a \in Seq(Nat) : a \o v = <<>> => a = <<>>
    BY ConcatEqualIffEmpty
  <2> QED BY <1>3, <2>1
<1>7. Evens!EndsBehindTheLast'
  BY <1>6 DEF Evens!IInv, Evens!EndsBehindTheLast, Evens!writer, Evens!cursor
<1>8. Evens!NothingLost'
  <2>1. evens \o down = (evens \o down') \o v
    <3>1. evens \in Seq(Nat)
      BY EvensListsOfTheCall
    <3>2. \A a, b \in Seq(Nat) : (evens \o a) \o b = evens \o (a \o b)
      BY <3>1, Lists3
    <3> QED BY <1>3, <3>2
  <2>2. PICK u \in Seq(Nat) : Evens!EvensOf(sent) = (evens \o down) \o u
    BY ZenonT(30), EvensListsOfTheCall, ConcatProperties, PrefixIs DEF Evens!IInv, Evens!NothingLost
  <2>3. /\ evens \o down' \in Seq(Nat) /\ v \o u \in Seq(Nat)
        /\ Evens!EvensOf(sent) = (evens \o down') \o (v \o u)
    <3>1. evens \o down' \in Seq(Nat) /\ v \o u \in Seq(Nat)
      BY <1>3, EvensListsOfTheCall, ConcatProperties
    <3> DEFINE x == evens \o down'
    <3>2. x \in Seq(Nat) /\ Evens!EvensOf(sent) = (x \o v) \o u
      BY <2>1, <2>2, <3>1
    <3> HIDE DEF x
    <3>3. (x \o v) \o u = x \o (v \o u)
      BY <3>2, Lists3
    <3> QED BY <3>1, <3>2, <3>3 DEF x
  <2>4. Evens!IsPrefix(evens \o down', Evens!EvensOf(sent))
    BY <2>3, EvensListsOfTheCall, PrefixIs
  <2>5. evens' = evens /\ sent' = sent /\ link' # "up"
    BY DEF Evens!writer
  <2>6. main' = "returned" => evens' = Evens!EvensOf(sent') /\ closed'
    BY <1>7 DEF Evens!EndsBehindTheLast
  <2> QED BY <2>4, <2>5, <2>6 DEF Evens!NothingLost
<1> QED BY <1>1, <1>4, <1>5, <1>7, <1>8, EvensParts

\* The server comes and goes, or nothing happens.
LEMMA EvensProcess ==
  ASSUME Evens!IInv, UNCHANGED <<Evens!client, Evens!server, Evens!transport>>
  PROVE  Evens!IInv'
<1> USE DEF Evens!client, Evens!server, Evens!writer, Evens!cursor, Evens!transport,
            Evens!messages
<1>1. EvensWriterInv'
  BY EvensParts, EvensOthers
<1>2. Evens!TypeOK' /\ Evens!OneAtATime' /\ Evens!EndsBehindTheLast'
  BY <1>1
     DEF EvensWriterInv, Evens!IInv, Evens!TypeOK, Evens!OneAtATime, Evens!OneOperation,
         Evens!EndsBehindTheLast
<1>3. Evens!NothingLost'
  BY <1>2, EvensNumbersStay DEF Evens!IInv, Evens!Owed, Evens!Unread
<1> QED BY <1>1, <1>2, <1>3, EvensParts

\* The client's reads: the first even number on its way is the next that it has.
LEMMA EvensReadStep ==
  ASSUME Evens!IInv, Evens!ReadStep
  PROVE  Evens!IInv'
<1> USE DEF Evens!ReadStep, Evens!FirstRead, Evens!OnEven, Evens!OnEvensEnd, Evens!Get,
            Evens!GetEnds, Evens!server, Evens!transport, Evens!messages
<1>1. UNCHANGED <<Evens!writer, Evens!server, up, closed, trailer, link>>
  OBVIOUS
<1>2. EvensWriterInv'
  BY <1>1, EvensParts, EvensOthers
<1>3. Evens!OneAtATime'
  BY <1>1, EvensReactorStays DEF Evens!IInv
<1>4. CASE Evens!OnEven
  <2>1. /\ evens \in Seq(Nat) /\ down \in Seq(Nat) /\ down # <<>> /\ reading = "yes"
        /\ evens' = Append(evens, Head(down)) /\ down' = Tail(down) /\ reading' = reading
    BY <1>4, EvensListsOfTheCall
  <2> HIDE DEF Evens!ReadStep
  <2>2. evens' \o down' = evens \o down /\ evens' \in Seq(Nat) /\ down' \in Seq(Nat)
    BY <2>1, MoveFirst, FirstAndRest, AppendProperties
  <2>3. Evens!TypeOK'
    BY <1>1, <1>2, <2>1, <2>2 DEF EvensWriterInv, Evens!IInv, Evens!TypeOK
  <2>4. Evens!EndsBehindTheLast'
    BY <1>1, <2>1, <2>2
       DEF Evens!IInv, Evens!EndsBehindTheLast, Evens!writer, Evens!cursor
  <2>5. Evens!NothingLost'
    <3>1. UNCHANGED <<sent, main, Evens!Owed, Evens!Unread>>
      BY <1>1 DEF Evens!writer, Evens!Owed, Evens!Unread
    <3>2. main' = "returned" => evens' = Evens!EvensOf(sent') /\ closed'
      BY <2>4 DEF Evens!EndsBehindTheLast
    <3> QED BY <1>1, <2>2, <3>1, <3>2 DEF Evens!IInv, Evens!NothingLost
  <2> QED BY <1>2, <1>3, <2>3, <2>4, <2>5, EvensParts
<1>5. CASE Evens!FirstRead \/ Evens!OnEvensEnd
  <2>1. UNCHANGED <<evens, down>>
    BY <1>5
  <2>2. Evens!TypeOK'
    BY <1>1, <1>2, <1>5, <2>1 DEF EvensWriterInv, Evens!IInv, Evens!TypeOK
  <2>3. Evens!EndsBehindTheLast'
    BY <1>1, <1>5, <2>1
       DEF Evens!IInv, Evens!EndsBehindTheLast, Evens!writer, Evens!cursor
  <2>4. Evens!NothingLost'
    BY <1>1, <2>1, <2>3, EvensNumbersStay
       DEF Evens!IInv, Evens!Owed, Evens!Unread, Evens!writer
  <2> QED BY <1>2, <1>3, <2>2, <2>3, <2>4, EvensParts
<1> QED BY <1>4, <1>5

\* The server's callbacks that examine no number.
LEMMA EvensServer ==
  ASSUME Evens!IInv,
         Evens!FindEvens \/ Evens!OnReadEnd \/ Evens!OnWritten \/ Evens!OnWriteLost
           \/ Evens!OnDone
  PROVE  Evens!IInv'
<1> USE DEF Evens!FindEvens, Evens!OnReadEnd, Evens!Ended, Evens!OnWritten, Evens!Pop,
            Evens!OnWriteLost, Evens!Stop, Evens!OnDone, Evens!NextCicle, Evens!client,
            Evens!transport, Evens!messages
<1>1. UNCHANGED <<Evens!writer, reading, evens, incoming, up, closed, down, trailer, link>>
  OBVIOUS
<1>2. EvensWriterInv'
  BY <1>1, EvensParts, EvensOthers
<1>3. buffer # <<>> => Tail(buffer) \in Seq(Nat)
  BY EvensListsOfTheCall, FirstAndRest
<1>4. write = "ok" => Tail(buffer) \in Seq(Nat)
  BY <1>3 DEF Evens!IInv, Evens!OneAtATime
<1>5. Evens!TypeOK'
  <2>1. buffer' = <<>> \/ buffer' = buffer \/ (write = "ok" /\ buffer' = Tail(buffer))
    OBVIOUS
  <2>2. <<>> \in Seq(Nat) /\ buffer \in Seq(Nat)
    BY EvensListsOfTheCall
  <2>3. buffer' \in Seq(Nat)
    BY ONLY <1>4, <2>1, <2>2
  <2> QED BY <1>1, <1>2, <2>3 DEF EvensWriterInv, Evens!IInv, Evens!TypeOK
<1>6. Evens!OneAtATime'
  BY <1>1 DEF Evens!IInv, Evens!TypeOK, Evens!OneAtATime, Evens!OneOperation
<1>7. Evens!EndsBehindTheLast'
  BY <1>1
     DEF Evens!IInv, Evens!OneAtATime, Evens!OneOperation, Evens!EndsBehindTheLast,
         Evens!writer, Evens!cursor
<1>8. link' = "up" => Evens!Owed' = Evens!Owed /\ Evens!Unread' = Evens!Unread
  BY <1>1 DEF Evens!IInv, Evens!OneAtATime, Evens!OneOperation, Evens!Owed, Evens!Unread
<1>9. Evens!NothingLost'
  BY <1>1, <1>7, <1>8, EvensNumbersStay DEF Evens!IInv, Evens!writer
<1> QED BY <1>2, <1>5, <1>6, <1>7, <1>9, EvensParts

\* A number is examined: the queue, which is empty, takes it if it is even.
LEMMA EvensOnReadDone ==
  ASSUME Evens!IInv, Evens!OnReadDone
  PROVE  Evens!IInv'
<1> USE DEF Evens!OnReadDone, Evens!NextCicle, Evens!client, Evens!transport,
            Evens!messages
<1>1. UNCHANGED <<Evens!writer, reading, evens, incoming, up, closed, down, trailer, link>>
  OBVIOUS
<1>2. EvensWriterInv'
  BY <1>1, EvensParts, EvensOthers
<1> DEFINE e == Evens!EvensOf(<<incoming>>)
<1>3. buffer = <<>> /\ write = "none" /\ reactor = "live" /\ finish = "none"
  BY DEF Evens!IInv, Evens!OneAtATime, Evens!OneOperation
<1>4. /\ buffer' = e /\ e \in Seq(Nat) /\ <<incoming>> \in Seq(Nat) /\ up \in Seq(Nat)
  <2>1. incoming \in Nat /\ <<>> \in Seq(Nat) /\ up \in Seq(Nat)
    BY EvensListsOfTheCall
  <2>2. Evens!Queue(<<>>, incoming) = <<>> \o e /\ e \in Seq(Nat)
    BY <2>1, QueueTakes
  <2>3. <<>> \o e = e
    BY <2>2, ConcatEmptySeq
  <2> HIDE DEF e
  <2> QED BY <1>3, <2>1, <2>2, <2>3
<1> HIDE DEF e
<1>5. Evens!TypeOK'
  BY <1>1, <1>2, <1>4 DEF EvensWriterInv, Evens!IInv, Evens!TypeOK
<1>6. Evens!OneAtATime'
  BY <1>1, <1>3 DEF Evens!IInv, Evens!OneAtATime, Evens!OneOperation
<1>7. Evens!EndsBehindTheLast'
  BY <1>1, <1>3 DEF Evens!IInv, Evens!EndsBehindTheLast, Evens!writer, Evens!cursor
<1>8. Evens!NothingLost'
  <2> DEFINE p == evens \o down
             y == Evens!EvensOf(up)
  <2>1. p \in Seq(Nat) /\ y \in Seq(Nat) /\ e \in Seq(Nat)
    BY <1>4, EvensListsOfTheCall, ConcatProperties, EvensOfIs
  <2>2. Evens!Owed = <<>> /\ Evens!Owed' = e /\ Evens!Unread = <<incoming>> \o up
          /\ Evens!Unread' = <<>> \o up
    BY <1>1, <1>3, <1>4 DEF Evens!Owed, Evens!Unread
  <2>3. Evens!EvensOf(Evens!Unread) = e \o y /\ Evens!EvensOf(Evens!Unread') = y
    <3>1. Evens!EvensOf(<<incoming>> \o up)
            = Evens!EvensOf(<<incoming>>) \o Evens!EvensOf(up)
      BY <1>4, EvensOfConcat
    <3>2. <<>> \o up = up
      BY <1>4, ConcatEmptySeq
    <3> QED BY <2>2, <3>1, <3>2 DEF e
  <2>4. (p \o <<>>) \o (e \o y) = (p \o e) \o y
    <3>1. p \o <<>> = p
      BY <2>1, ConcatEmptySeq
    <3> HIDE DEF p, y
    <3> QED BY SMTT(30), <2>1, <3>1, Lists3
  <2>5. /\ Evens!IsPrefix(p, Evens!EvensOf(sent))
        /\ link = "up"
             => p \o Evens!Owed \o Evens!EvensOf(Evens!Unread) = Evens!EvensOf(sent)
    BY DEF Evens!IInv, Evens!NothingLost
  <2>6. UNCHANGED <<p, link, Evens!EvensOf(sent)>>
    BY <1>1 DEF Evens!writer
  <2>7. main' = "returned" => evens' = Evens!EvensOf(sent') /\ closed'
    BY <1>7 DEF Evens!EndsBehindTheLast
  <2> HIDE DEF Evens!OnReadDone
  <2>8. link' = "up"
          => p' \o Evens!Owed' \o Evens!EvensOf(Evens!Unread') = Evens!EvensOf(sent')
    <3> HIDE DEF p, y
    <3> QED BY <2>2, <2>3, <2>4, <2>5, <2>6
  <2> QED BY <2>5, <2>6, <2>7, <2>8 DEF Evens!NothingLost
<1> QED BY <1>2, <1>5, <1>6, <1>7, <1>8, EvensParts

\* A read brings the next number that is unread, or the end.
LEMMA EvensReadCompletes ==
  ASSUME Evens!IInv, Evens!ReadCompletes
  PROVE  Evens!IInv'
<1> USE DEF Evens!ReadCompletes, Evens!Take, Evens!TakeEnds, Evens!client,
            Evens!transport, Evens!messages
<1>1. /\ UNCHANGED <<Evens!writer, reading, evens, closed, down, trailer, link>>
      /\ UNCHANGED <<reactor, buffer, write, finish>>
  OBVIOUS
<1>2. EvensWriterInv'
  BY <1>1, EvensParts, EvensOthers
<1>3. UNCHANGED up \/ (up # <<>> /\ up' \in Seq(Nat) /\ incoming' \in Nat)
  BY EvensListsOfTheCall, FirstAndRest
<1>4. Evens!TypeOK'
  BY <1>1, <1>2, <1>3 DEF EvensWriterInv, Evens!IInv, Evens!TypeOK
<1>5. Evens!OneAtATime'
  BY <1>1 DEF Evens!IInv, Evens!OneAtATime, Evens!OneOperation
<1>6. Evens!EndsBehindTheLast'
  BY <1>1, <1>3
     DEF Evens!IInv, Evens!OneAtATime, Evens!OneOperation, Evens!EndsBehindTheLast,
         Evens!writer, Evens!cursor
<1>7. Evens!Owed' = Evens!Owed /\ Evens!Unread' = Evens!Unread
  <2>1. Evens!Owed' = Evens!Owed
    BY <1>1 DEF Evens!Owed
  <2>2. <<>> \o up = up
    BY EvensListsOfTheCall, ConcatEmptySeq
  <2>3. CASE up # <<>> /\ up' = Tail(up) /\ read' = "ok" /\ incoming' = Head(up)
    <3>1. up = <<Head(up)>> \o Tail(up)
      BY <2>3, EvensListsOfTheCall, FirstAndRest
    <3> QED BY <2>1, <2>2, <2>3, <3>1 DEF Evens!Unread
  <2>4. CASE UNCHANGED up /\ read' = "end"
    BY <2>1, <2>4 DEF Evens!Unread
  <2> QED BY <2>3, <2>4
<1>8. Evens!NothingLost'
  BY <1>1, <1>6, <1>7, EvensNumbersStay DEF Evens!IInv, Evens!writer
<1> QED BY <1>2, <1>4, <1>5, <1>6, <1>8, EvensParts

\* The first of the queue goes on its way to the client, or nowhere.
LEMMA EvensWriteCompletes ==
  ASSUME Evens!IInv, Evens!WriteCompletes
  PROVE  Evens!IInv'
<1> USE DEF Evens!WriteCompletes, Evens!Reply, Evens!ReplyFails, Evens!client,
            Evens!transport, Evens!messages
<1>1. /\ UNCHANGED <<Evens!writer, reading, evens, up, closed, trailer, link>>
      /\ UNCHANGED <<reactor, incoming, buffer, read, finish>>
  OBVIOUS
<1>2. EvensWriterInv'
  BY <1>1, EvensParts, EvensOthers
<1>3. buffer # <<>> /\ reactor = "live" /\ link # "none"
  BY DEF Evens!IInv, Evens!OneAtATime, Evens!EndsBehindTheLast
<1>4. Head(buffer) \in Nat /\ Tail(buffer) \in Seq(Nat) /\ down \in Seq(Nat)
  BY <1>3, EvensListsOfTheCall, FirstAndRest
<1>5. down' = IF link = "up" THEN Append(down, Head(buffer)) ELSE down
  OBVIOUS
<1>6. Evens!TypeOK'
  <2>1. down' \in Seq(Nat)
    BY <1>4, <1>5, AppendProperties
  <2> QED BY <1>1, <1>2, <2>1 DEF EvensWriterInv, Evens!IInv, Evens!TypeOK
<1>7. Evens!OneAtATime'
  BY <1>1 DEF Evens!IInv, Evens!OneAtATime, Evens!OneOperation
<1>8. Evens!EndsBehindTheLast'
  BY <1>1, <1>3, <1>5
     DEF Evens!IInv, Evens!EndsBehindTheLast, Evens!writer, Evens!cursor
<1>9. CASE link # "up"
  <2>1. Evens!NothingLost'
    BY <1>1, <1>5, <1>8, <1>9, EvensNumbersStay DEF Evens!IInv, Evens!writer
  <2> QED BY <1>2, <1>6, <1>7, <1>8, <2>1, EvensParts
<1>10. CASE link = "up"
  <2> DEFINE p == evens \o down
             q == evens \o Append(down, Head(buffer))
             t == Tail(buffer)
             y == Evens!EvensOf(Evens!Unread)
  <2>1. /\ p \in Seq(Nat) /\ q \in Seq(Nat) /\ t \in Seq(Nat) /\ y \in Seq(Nat)
        /\ t \o y \in Seq(Nat) /\ Evens!EvensOf(sent) \in Seq(Nat)
    BY <1>4, EvensListsOfTheCall, EvensOwedAndUnread, AppendProperties,
       ConcatProperties, EvensOfIs
  <2>2. q \o t = p \o buffer
    <3>1. q = Append(p, Head(buffer))
      BY ZenonT(30), <1>4, EvensListsOfTheCall, AppendBehind
    <3>2. Append(p, Head(buffer)) \o t = p \o buffer
      <4>1. p \in Seq(Nat) /\ buffer \in Seq(Nat)
        BY <2>1, EvensListsOfTheCall
      <4> HIDE DEF p
      <4> QED BY <1>3, <4>1, MoveFirst
    <3> HIDE DEF p, q, t
    <3> QED BY <3>1, <3>2
  <2>3. write' = "ok" /\ write = "started"
    BY <1>10 DEF Evens!IInv, Evens!OneAtATime
  <2>4. Evens!Owed = buffer /\ Evens!Owed' = t /\ Evens!Unread' = Evens!Unread
    BY <1>1, <2>3 DEF Evens!Owed, Evens!Unread
  <2>5. p \o Evens!Owed \o y = Evens!EvensOf(sent)
    BY <1>10 DEF Evens!IInv, Evens!NothingLost
  <2>6. q \o t \o y = Evens!EvensOf(sent)
    <3> HIDE DEF p, q, t, y
    <3> QED BY <2>2, <2>4, <2>5
  <2>7. Evens!IsPrefix(q, Evens!EvensOf(sent))
    <3> HIDE DEF p, q, t, y
    <3>1. (q \o t) \o y = q \o (t \o y)
      BY SMTT(30), <2>1, Lists3
    <3> QED BY <2>1, <2>6, <3>1, PrefixIs
  <2>8. (evens \o down)' = q /\ UNCHANGED <<link, sent>> /\ y' = y
    BY <1>1, <1>5, <1>10, <2>4 DEF Evens!writer
  <2>9. main' = "returned" => evens' = Evens!EvensOf(sent') /\ closed'
    BY <1>8 DEF Evens!EndsBehindTheLast
  <2> HIDE DEF Evens!WriteCompletes, q, t
  <2>10. Evens!NothingLost'
    BY <2>4, <2>6, <2>7, <2>8, <2>9 DEF Evens!NothingLost
  <2> QED BY <1>2, <1>6, <1>7, <1>8, <2>10, EvensParts
<1> QED BY <1>9, <1>10

\* The status follows the numbers: an OK only when none is left.
LEMMA EvensFinishCompletes ==
  ASSUME Evens!IInv, Evens!FinishCompletes
  PROVE  Evens!IInv'
<1> USE DEF Evens!FinishCompletes, Evens!Conclude, Evens!client, Evens!messages
<1>1. /\ UNCHANGED <<Evens!writer, reading, evens, up, closed, down, link>>
      /\ UNCHANGED <<incoming, buffer, read, write, finish>>
  OBVIOUS
<1>2. trailer' = trailer \/ (link = "up" /\ trailer' = "OK" /\ finish = "OK")
  BY DEF Evens!IInv, Evens!TypeOK, Evens!OneAtATime
<1>3. EvensWriterInv'
  BY <1>1, <1>2, EvensParts, EvensOthers
<1>4. Evens!TypeOK'
  BY <1>1, <1>3 DEF EvensWriterInv, Evens!IInv, Evens!TypeOK
<1>5. read = "none" /\ write = "none" /\ reactor' = "finished" /\ reactor = "live"
  BY DEF Evens!IInv, Evens!OneAtATime, Evens!OneOperation
<1>6. Evens!OneAtATime'
  BY <1>1, <1>5 DEF Evens!IInv, Evens!OneAtATime, Evens!OneOperation
<1>7. link = "up" /\ finish = "OK" => closed /\ evens \o down = Evens!EvensOf(sent)
  <2> SUFFICES ASSUME link = "up", finish = "OK"
               PROVE  closed /\ evens \o down = Evens!EvensOf(sent)
    OBVIOUS
  <2>1. buffer = <<>> /\ up = <<>> /\ closed
    BY DEF Evens!IInv, Evens!OneAtATime, Evens!EndsBehindTheLast
  <2>2. Evens!Owed = <<>> /\ Evens!Unread = <<>> \o <<>>
    BY <1>5, <2>1 DEF Evens!Owed, Evens!Unread
  <2>3. evens \o down \o Evens!Owed \o Evens!EvensOf(Evens!Unread) = Evens!EvensOf(sent)
    BY DEF Evens!IInv, Evens!NothingLost
  <2>4. \A a \in Seq(Nat) : a \o <<>> = a
    BY ConcatEmptySeq
  <2>5. evens \o down \in Seq(Nat) /\ <<>> \in Seq(Nat)
    BY EvensListsOfTheCall, ConcatProperties
  <2> HIDE DEF Evens!FinishCompletes
  <2> QED BY <2>1, <2>2, <2>3, <2>4, <2>5, EvensOfNothing
<1>8. Evens!EndsBehindTheLast'
  BY <1>1, <1>2, <1>5, <1>7
     DEF Evens!IInv, Evens!EndsBehindTheLast, Evens!writer, Evens!cursor
<1>9. Evens!NothingLost'
  BY <1>1, <1>8, EvensNumbersStay DEF Evens!IInv, Evens!Owed, Evens!Unread, Evens!writer
<1> QED BY <1>3, <1>4, <1>6, <1>8, <1>9, EvensParts

\* The server learns that the connection is lost.
LEMMA EvensOnCancel ==
  ASSUME Evens!IInv, Evens!OnCancel
  PROVE  Evens!IInv'
<1> USE DEF Evens!OnCancel, Evens!Learn, Evens!client, Evens!server, Evens!messages
<1>1. EvensWriterInv'
  BY EvensParts, EvensOthers
<1>2. Evens!TypeOK'
  BY <1>1 DEF EvensWriterInv, Evens!IInv, Evens!TypeOK
<1>3. Evens!OneAtATime'
  BY EvensReactorStays DEF Evens!IInv
<1>4. Evens!EndsBehindTheLast'
  BY DEF Evens!IInv, Evens!EndsBehindTheLast, Evens!writer, Evens!cursor
<1>5. Evens!NothingLost'
  BY <1>4, EvensNumbersStay DEF Evens!IInv, Evens!Owed, Evens!Unread, Evens!writer
<1> QED BY <1>1, <1>2, <1>3, <1>4, <1>5, EvensParts

\* Every step keeps the invariant.
LEMMA EvensStep ==
  ASSUME Evens!IInv, [Evens!Next]_Evens!vars
  PROVE  Evens!IInv'
<1>1. CASE Evens!Write
  BY <1>1, EvensWrite, EvensWriteAcceptedKeeps, EvensClientEnds DEF Evens!Write
<1>2. CASE Evens!GetEvens \/ Evens!ReadStep
  BY <1>2, EvensGetEvens, EvensReadStep
<1>3. CASE Evens!Disturb
  BY <1>3, EvensLose, EvensProcess, EvensClientEnds
     DEF Evens!Disturb, Evens!Kill, Evens!client
<1>4. CASE Evens!ServerStep \/ Evens!RuntimeStep
  BY <1>4, EvensServer, EvensOnReadDone, EvensReadCompletes, EvensWriteCompletes,
     EvensFinishCompletes, EvensOnCancel
     DEF Evens!ServerStep, Evens!RuntimeStep
<1>5. CASE Evens!Run \/ UNCHANGED Evens!vars
  BY <1>5, EvensProcess DEF Evens!Run, Evens!Listen, Evens!vars
<1> QED BY <1>1, <1>2, <1>3, <1>4, <1>5 DEF Evens!Next

-----------------------------------------------------------------------------
(* The programs together.                                                  *)

\* A step of the programs is one of 09, or changes nothing of it.
LEMMA StepOf09 ==
  ASSUME [StreamsNext]_all, example = "evens_callback"
  PROVE  [Evens!Next]_Evens!vars
<1>1. CASE In09(Evens!Next)
  BY <1>1 DEF In09
<1>2. CASE UNCHANGED all
  BY <1>2
     DEF all, vars, caller, transport, messages, writing, serving, filtering,
         Evens!vars, Evens!writer, Evens!cursor, Evens!client, Evens!server,
         Evens!transport, Evens!messages
<1> QED BY <1>1, <1>2 DEF StreamsNext, Sync, In08, Examples

\* Where every number is, what the reactor has under way and how the two directions of a
\* call end, for any lists, any window and any loss of the connection or of a process.
THEOREM EvensInvariance == StreamsSpec => [](example = "evens_callback" => Evens!IInv)
<1>1. StreamsInit => (example = "evens_callback" => Evens!IInv)
  BY EvensInit DEF StreamsInit, Init, Examples
<1>2. (example = "evens_callback" => Evens!IInv) /\ [StreamsNext]_all
        => (example = "evens_callback" => Evens!IInv)'
  <2> SUFFICES ASSUME example = "evens_callback" => Evens!IInv, [StreamsNext]_all,
                      example' = "evens_callback"
               PROVE  Evens!IInv'
    OBVIOUS
  <2> QED BY SameProgram, StepOf09, EvensStep
<1> QED BY <1>1, <1>2, PTL DEF StreamsSpec

\* No even number of 09 is lost, repeated or overtaken, a list that GetEvens returns is
\* the whole one, and the reactor never has two operations under way, nor any behind
\* Finish.
THEOREM NoNumberIsLost == StreamsSpec => []NothingLost
<1>1. Evens!IInv => Evens!NothingLost /\ Evens!OneOperation
  BY DEF Evens!IInv, Evens!OneAtATime
<1>2. (example = "evens_callback" => Evens!IInv) => NothingLost
  BY <1>1 DEF NothingLost
<1> QED BY <1>2, EvensInvariance, PTL

\* A client of 08 or 09 crashes only of a call that ended before its first operation,
\* or of the race of its constructor.
THEOREM OnlyTheRaceCrashes == StreamsSpec => []CrashesOfItsConstructor
<1>1. Average!IInv => Average!CrashesOfItsConstructor
  BY AverageParts, AverageOnlyTheRace
<1>2. Evens!IInv => Evens!CrashesOfItsConstructor
  BY EvensParts, EvensOnlyTheRace
<1>3. (example = "average_callback" => Average!IInv)
        /\ (example = "evens_callback" => Evens!IInv)
        => CrashesOfItsConstructor
  BY <1>1, <1>2 DEF CrashesOfItsConstructor
<1> QED BY <1>3, AverageInvariance, EvensInvariance, PTL
=============================================================================
