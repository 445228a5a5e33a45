------------------------- MODULE SyncStreams_proofs -------------------------
(***************************************************************************)
(* What a call of 02, 03 or 04 returns is the whole answer to all that was *)
(* sent, or nothing: for any lists, any window, and any loss of the        *)
(* connection or of a process.                                             *)
(*                                                                         *)
(* First what FlattenSeq does with one list more, by the least length for  *)
(* which it would fail; then that every step of the call keeps IInv, and   *)
(* is a step of ResponseStream or none; last the five programs together.   *)
(***************************************************************************)
EXTENDS Streams_proofs

-----------------------------------------------------------------------------
(* The answer to a list.                                                   *)

\* The function that FlattenSeq chooses, for the first n lists of s.
IsFlatten(s, n, f) == f = [i \in 1..n |-> IF i = 1 THEN s[i] ELSE f[i - 1] \o s[i]]

Agree(s, t, n) == \A i \in 1..n : s[i] = t[i]

\* There is one ...
LEMMA FlattenExists ==
  ASSUME NEW s \in Seq(Seq(Nat))
  PROVE  \A n \in 1..Len(s) : \E f \in [1..n -> Seq(Nat)] : IsFlatten(s, n, f)
<1> DEFINE Bad == {n \in 1..Len(s) : ~ \E f \in [1..n -> Seq(Nat)] : IsFlatten(s, n, f)}
<1>1. Len(s) \in Nat /\ \A k \in 1..Len(s) : s[k] \in Seq(Nat)
  BY LenProperties, ElementOfSeq
<1>2. SUFFICES ASSUME Bad # {} PROVE FALSE
  OBVIOUS
<1>3. Bad \subseteq Nat
  BY <1>1
<1>4. PICK m \in Bad : \A n \in Bad : m <= n
  <2> HIDE DEF Bad
  <2> QED BY <1>2, <1>3, LeastNumber
<1>5. m \in Nat /\ 1 <= m /\ m <= Len(s) /\ s[m] \in Seq(Nat)
  BY <1>1
<1>6. CASE m = 1
  <2> DEFINE f == [k \in 1..1 |-> s[1]]
  <2>1. f \in [1..1 -> Seq(Nat)]
    BY <1>5, <1>6
  <2>2. IsFlatten(s, 1, f)
    BY DEF IsFlatten
  <2> QED BY <1>6, <2>1, <2>2
<1>7. CASE m # 1
  <2>1. m - 1 \in 1..Len(s) /\ ~(m <= m - 1)
    BY <1>1, <1>5, <1>7
  <2>2. m - 1 \notin Bad
    <3> HIDE DEF Bad
    <3> QED BY <1>4, <2>1
  <2>3. PICK f \in [1..m - 1 -> Seq(Nat)] : IsFlatten(s, m - 1, f)
    BY <2>1, <2>2
  <2> DEFINE g == [k \in 1..m |-> IF k = m THEN f[m - 1] \o s[m] ELSE f[k]]
  <2>4. f[m - 1] \in Seq(Nat) /\ \A k \in 1..m : k # m => k \in 1..m - 1
    BY <1>5, <1>7
  <2>5. f[m - 1] \o s[m] \in Seq(Nat)
    BY <1>5, <2>4, ConcatProperties
  <2>6. g \in [1..m -> Seq(Nat)]
    BY <2>4, <2>5
  <2>7. ASSUME NEW k \in 1..m
        PROVE  g[k] = IF k = 1 THEN s[k] ELSE g[k - 1] \o s[k]
    <3>1. CASE k = m
      <4>1. m - 1 \in 1..m /\ m - 1 # m /\ m \in 1..m
        BY <1>5, <1>7
      <4>2. g[m] = f[m - 1] \o s[m] /\ g[m - 1] = f[m - 1]
        BY <4>1
      <4> QED BY <1>7, <3>1, <4>2
    <3>2. CASE k # m
      <4>1. k \in 1..m - 1 /\ f[k] = IF k = 1 THEN s[k] ELSE f[k - 1] \o s[k]
        BY <2>3, <2>4, <3>2 DEF IsFlatten
      <4>2. k # 1 => k - 1 \in 1..m /\ k - 1 # m
        BY <1>5, <4>1
      <4> QED BY <3>2, <4>1, <4>2
    <3> QED BY <3>1, <3>2
  <2>8. IsFlatten(s, m, g)
    <3> HIDE DEF g
    <3> QED BY <2>6, <2>7 DEF IsFlatten
  <2> QED BY <2>6, <2>8
<1> QED BY <1>6, <1>7

\* ... and those of two lists agree as far as the lists do.
LEMMA FlattenUnique ==
  ASSUME NEW s, NEW t, NEW n \in Nat, NEW m \in Nat, n <= m, NEW f, NEW g,
         IsFlatten(s, n, f), IsFlatten(t, m, g), Agree(s, t, n)
  PROVE  \A k \in 1..n : f[k] = g[k]
<1> DEFINE Bad == {k \in 1..n : f[k] # g[k]}
<1>1. SUFFICES ASSUME Bad # {} PROVE FALSE
  OBVIOUS
<1>2. Bad \subseteq Nat
  OBVIOUS
<1>3. PICK k \in Bad : \A j \in Bad : k <= j
  <2> HIDE DEF Bad
  <2> QED BY <1>1, <1>2, LeastNumber
<1>4. k \in 1..n /\ k \in 1..m
  OBVIOUS
<1>5. /\ f[k] = IF k = 1 THEN s[k] ELSE f[k - 1] \o s[k]
      /\ g[k] = IF k = 1 THEN t[k] ELSE g[k - 1] \o t[k]
  BY <1>4 DEF IsFlatten
<1>6. k # 1 => k - 1 \in 1..n /\ k - 1 \notin Bad
  BY <1>3, <1>4
<1> QED BY <1>4, <1>5, <1>6 DEF Agree

\* FlattenSeq is the last value of that function.
LEMMA FlattenIs ==
  ASSUME NEW s \in Seq(Seq(Nat)), Len(s) # 0
  PROVE  \E f : IsFlatten(s, Len(s), f) /\ FlattenSeq(s) = f[Len(s)]
           /\ FlattenSeq(s) \in Seq(Nat)
<1> DEFINE flatten == CHOOSE f : IsFlatten(s, Len(s), f)
<1>1. Len(s) \in Nat /\ Len(s) \in 1..Len(s)
  BY LenProperties
<1>2. PICK f \in [1..Len(s) -> Seq(Nat)] : IsFlatten(s, Len(s), f)
  BY <1>1, FlattenExists
<1>3. IsFlatten(s, Len(s), flatten)
  BY <1>2
<1>4. FlattenSeq(s) = flatten[Len(s)]
  BY DEF FlattenSeq, IsFlatten
<1>5. Agree(s, s, Len(s)) /\ Len(s) <= Len(s)
  BY <1>1 DEF Agree
<1>6. flatten[Len(s)] = f[Len(s)]
  <2> HIDE DEF flatten
  <2> QED BY <1>1, <1>2, <1>3, <1>5, FlattenUnique
<1>7. f[Len(s)] \in Seq(Nat)
  BY <1>1
<1> QED BY <1>2, <1>4, <1>6, <1>7

\* One list more is joined on at the end.
LEMMA FlattenMore ==
  ASSUME NEW s \in Seq(Seq(Nat)), NEW t \in Seq(Seq(Nat)), Len(t) = Len(s) + 1,
         \A i \in 1..Len(s) : t[i] = s[i], Len(s) # 0
  PROVE  FlattenSeq(t) = FlattenSeq(s) \o t[Len(t)]
<1>1. Len(s) \in Nat /\ Len(t) \in Nat
  BY LenProperties
<1>2. PICK f : IsFlatten(s, Len(s), f) /\ FlattenSeq(s) = f[Len(s)]
  BY FlattenIs
<1>3. PICK g : IsFlatten(t, Len(t), g) /\ FlattenSeq(t) = g[Len(t)]
  <2>1. Len(t) # 0
    BY <1>1
  <2> QED BY ZenonT(30), <2>1, FlattenIs
<1>4. f[Len(s)] = g[Len(s)]
  <2>1. \A k \in 1..Len(s) : f[k] = g[k]
    <3> DEFINE a == Len(s)
               b == Len(t)
    <3>1. a \in Nat /\ b \in Nat /\ a <= b /\ Agree(s, t, a)
      BY <1>1 DEF Agree
    <3>2. IsFlatten(s, a, f) /\ IsFlatten(t, b, g)
      BY <1>2, <1>3
    <3>3. \A k \in 1..a : f[k] = g[k]
      <4> HIDE DEF a, b
      <4> QED BY SMTT(30), <3>1, <3>2, FlattenUnique
    <3> QED BY <3>3
  <2> QED BY <1>1, <2>1
<1>5. Len(t) \in 1..Len(t) /\ Len(t) # 1 /\ Len(t) - 1 = Len(s)
  BY <1>1
<1>6. g[Len(t)] = g[Len(t) - 1] \o t[Len(t)]
  BY <1>3, <1>5 DEF IsFlatten
<1> QED BY <1>2, <1>3, <1>4, <1>5, <1>6

\* A list of one list is that list.
LEMMA FlattenOne ==
  ASSUME NEW s \in Seq(Seq(Nat)), Len(s) = 1
  PROVE  FlattenSeq(s) = s[1]
<1>1. PICK f : IsFlatten(s, Len(s), f) /\ FlattenSeq(s) = f[Len(s)]
  <2>1. Len(s) # 0
    BY 1 # 0
  <2> QED BY ZenonT(30), <2>1, FlattenIs
<1>2. Len(s) \in 1..Len(s)
  OBVIOUS
<1> QED BY <1>1, <1>2 DEF IsFlatten

\* A function on the first numbers is a list.
LEMMA FunctionIsList ==
  ASSUME NEW S, NEW n \in Nat, NEW f \in [1..n -> S]
  PROVE  f \in Seq(S) /\ Len(f) = n
OBVIOUS

\* A message is answered with a list.
LEMMA AnswersAreLists ==
  ASSUME NEW e, NEW m \in Nat
  PROVE  Answers(e, m) \in Seq(Nat)
<1>1. [k \in 1..m |-> k] \in Seq(Nat)
  <2>1. [k \in 1..m |-> k] \in [1..m -> Nat]
    OBVIOUS
  <2> QED BY <2>1, FunctionIsList
<1>2. <<m>> \in Seq(Nat) /\ <<>> \in Seq(Nat)
  OBVIOUS
<1> QED BY <1>1, <1>2 DEF Answers

\* The answers to the messages of a list, one by one.
AnswerLists(e, s) == [k \in DOMAIN s |-> Answers(e, s[k])]

LEMMA AnswerListsOf ==
  ASSUME NEW e, NEW s \in Seq(Nat)
  PROVE  /\ AnswerLists(e, s) \in Seq(Seq(Nat)) /\ Len(AnswerLists(e, s)) = Len(s)
         /\ \A k \in 1..Len(s) : AnswerLists(e, s)[k] = Answers(e, s[k])
<1>1. Len(s) \in Nat /\ DOMAIN s = 1..Len(s) /\ \A k \in 1..Len(s) : s[k] \in Nat
  BY LenProperties, ElementOfSeq
<1>2. AnswerLists(e, s) \in [1..Len(s) -> Seq(Nat)]
  BY <1>1, AnswersAreLists DEF AnswerLists
<1>3. AnswerLists(e, s) \in Seq(Seq(Nat)) /\ Len(AnswerLists(e, s)) = Len(s)
  BY <1>1, <1>2, FunctionIsList
<1> QED BY <1>1, <1>3 DEF AnswerLists

\* Nothing is answered with nothing.
LEMMA AnswerToNothing == \A e : AnswersIn(e, <<>>) = <<>>
BY DEF AnswersIn, FlattenSeq

\* One message more has its answer behind those of the others.
LEMMA AnswersOfNext ==
  ASSUME NEW e, NEW s \in Seq(Nat), NEW m \in Nat
  PROVE  /\ AnswersIn(e, s) \in Seq(Nat)
         /\ AnswersIn(e, Append(s, m)) = AnswersIn(e, s) \o Answers(e, m)
<1> DEFINE t == Append(s, m)
           u == AnswerLists(e, s)
           v == AnswerLists(e, t)
<1>1. /\ t \in Seq(Nat) /\ Len(s) \in Nat /\ Len(t) = Len(s) + 1 /\ t[Len(s) + 1] = m
      /\ \A i \in 1..Len(s) : t[i] = s[i]
  BY AppendProperties, LenProperties
<1> HIDE DEF t
<1>2. /\ u \in Seq(Seq(Nat)) /\ Len(u) = Len(s)
      /\ v \in Seq(Seq(Nat)) /\ Len(v) = Len(s) + 1
  BY <1>1, AnswerListsOf
<1>3. v[Len(v)] = Answers(e, m) /\ Answers(e, m) \in Seq(Nat)
  <2>1. Len(s) + 1 \in 1..Len(t)
    BY <1>1
  <2> QED BY ZenonT(60), <1>1, <1>2, <2>1, AnswerListsOf, AnswersAreLists
<1>4. \A i \in 1..Len(s) : v[i] = u[i]
  <2> SUFFICES ASSUME NEW i \in 1..Len(s) PROVE v[i] = u[i]
    OBVIOUS
  <2>1. i \in 1..Len(t)
    BY <1>1
  <2> QED BY <1>1, <2>1, AnswerListsOf
<1>5. AnswersIn(e, s) = FlattenSeq(u) /\ AnswersIn(e, t) = FlattenSeq(v)
  BY DEF AnswersIn, AnswerLists
<1> HIDE DEF u, v
<1>6. CASE Len(s) = 0
  <2>1. FlattenSeq(v) = v[1]
    BY <1>2, <1>6, FlattenOne
  <2>2. s = <<>> /\ <<>> \o Answers(e, m) = Answers(e, m)
    BY <1>3, <1>6, EmptySeq, ConcatEmptySeq
  <2>3. AnswersIn(e, s) = <<>> /\ <<>> \in Seq(Nat)
    BY <2>2, AnswerToNothing
  <2>4. Len(v) = 1
    BY <1>2, <1>6
  <2>5. AnswersIn(e, t) = Answers(e, m)
    BY <1>3, <1>5, <2>1, <2>4
  <2> QED BY <2>2, <2>3, <2>5 DEF t
<1>7. CASE Len(s) # 0
  <2>1. FlattenSeq(u) \in Seq(Nat)
    BY <1>2, <1>7, FlattenIs
  <2>2. FlattenSeq(v) = FlattenSeq(u) \o v[Len(v)]
    BY <1>2, <1>4, <1>7, FlattenMore
  <2> QED BY <1>3, <1>5, <2>1, <2>2 DEF t
<1> QED BY <1>6, <1>7

\* What is answered grows with the list.
LEMMA AnswersGrow ==
  ASSUME NEW e, NEW s \in Seq(Nat), NEW t \in Seq(Nat)
  PROVE  Len(AnswersIn(e, s)) <= Len(AnswersIn(e, s \o t))
<1> DEFINE Ok(u) == Len(AnswersIn(e, s)) <= Len(AnswersIn(e, s \o u))
           Bad == {n \in Nat : \E u \in Seq(Nat) : Len(u) = n /\ ~Ok(u)}
<1>1. SUFFICES ASSUME ~Ok(t) PROVE FALSE
  OBVIOUS
<1>2. Len(t) \in Bad
  BY <1>1, LenProperties
<1>3. PICK m \in Bad : \A n \in Bad : m <= n
  <2>1. Bad \subseteq Nat
    OBVIOUS
  <2> HIDE DEF Bad
  <2> QED BY <1>2, <2>1, LeastNumber
<1>4. PICK u \in Seq(Nat) : Len(u) = m /\ ~Ok(u)
  BY <1>3
<1>5. AnswersIn(e, s) \in Seq(Nat) /\ Len(AnswersIn(e, s)) \in Nat
  <2>1. AnswersIn(e, s) \in Seq(Nat)
    BY AnswersOfNext, 0 \in Nat
  <2> QED BY <2>1, LenProperties
<1>6. u # <<>>
  <2>1. s \o <<>> = s
    BY ConcatEmptySeq
  <2>2. Ok(<<>>)
    BY <1>5, <2>1
  <2> HIDE DEF Ok
  <2> QED BY <1>4, <2>2
<1>7. PICK v \in Seq(Nat), x \in Nat : u = Append(v, x)
  BY <1>6, SequenceEmptyOrAppend
<1>8. Ok(v)
  <2>1. Len(v) \in Nat /\ m = Len(v) + 1
    BY <1>4, <1>7, AppendProperties, LenProperties
  <2>2. Len(v) \notin Bad
    <3>1. ~(m <= Len(v))
      BY <2>1
    <3> HIDE DEF Bad
    <3> QED BY <1>3, <3>1
  <2> HIDE DEF Ok
  <2> QED BY <2>1, <2>2
<1>9. s \o v \in Seq(Nat) /\ s \o u = Append(s \o v, x)
  <2>1. s \o v \in Seq(Nat)
    BY ConcatProperties
  <2> QED BY ZenonT(60), <1>7, <2>1, AppendBehind
<1> DEFINE a == AnswersIn(e, s \o v)
           b == Answers(e, x)
<1>10. a \in Seq(Nat) /\ b \in Seq(Nat) /\ AnswersIn(e, s \o u) = a \o b
  <2>1. a \in Seq(Nat) /\ AnswersIn(e, Append(s \o v, x)) = a \o b
    BY <1>9, AnswersOfNext
  <2>2. b \in Seq(Nat)
    BY AnswersAreLists
  <2> HIDE DEF a, b
  <2> QED BY <1>9, <2>1, <2>2
<1>11. Len(a \o b) = Len(a) + Len(b) /\ Len(a) \in Nat /\ Len(b) \in Nat
  <2> HIDE DEF a, b
  <2> QED BY <1>10, ConcatProperties, LenProperties
<1> QED BY <1>4, <1>5, <1>8, <1>10, <1>11

-----------------------------------------------------------------------------
(* The steps of a call.                                                    *)

\* The lists of a call, what their messages are answered with, and their lengths.
LEMMA ListsOfTheCall ==
  ASSUME TypeOK
  PROVE  /\ input \in Seq(Nat) /\ received \in Seq(Nat) /\ queue \in Seq(Nat)
         /\ seen \in Seq(Nat) /\ up \in Seq(Nat) /\ down \in Seq(Nat)
         /\ AnswersTo(seen) \in Seq(Nat) /\ AnswersTo(input) \in Seq(Nat)
         /\ Len(input) \in Nat /\ position \in Nat /\ position <= Len(input)
         /\ Len(received) \in Nat /\ Len(down) \in Nat
         /\ Len(AnswersTo(input)) \in Nat
<1>1. /\ input \in Seq(Nat) /\ received \in Seq(Nat) /\ queue \in Seq(Nat)
      /\ seen \in Seq(Nat) /\ up \in Seq(Nat) /\ down \in Seq(Nat)
  BY InputsAssumption DEF TypeOK
<1>2. AnswersTo(seen) \in Seq(Nat) /\ AnswersTo(input) \in Seq(Nat)
  BY <1>1, AnswersOfNext, 0 \in Nat DEF AnswersTo
<1>3. /\ Len(input) \in Nat /\ Len(received) \in Nat /\ Len(down) \in Nat
      /\ Len(AnswersTo(input)) \in Nat
  BY <1>1, <1>2, LenProperties
<1> QED BY <1>1, <1>2, <1>3 DEF TypeOK

\* What a step leaves alone stays where it is.
LEMMA MessagesStay ==
  ASSUME EveryMessageAnswered,
         UNCHANGED <<example, input, position, seen, up, received, down, queue>>,
         link' \in {"none", "up"} => link \in {"none", "up"},
         trailer' = "OK" => trailer = "OK"
  PROVE  EveryMessageAnswered'
BY DEF EveryMessageAnswered, AnswersTo

LEMMA ResultStays ==
  ASSUME WholeOrNothing, UNCHANGED <<example, input, result>>,
         client' = "returned" => client = "returned"
  PROVE  WholeOrNothing'
BY DEF WholeOrNothing, AnswersTo

\* There are not more responses than the answer to all has, as what the handler has
\* read is a part of what the client has written.
LEMMA ResponsesFit ==
  ASSUME NEW e, NEW r \in Seq(Nat), NEW d \in Seq(Nat), NEW q \in Seq(Nat),
         NEW s \in Seq(Nat), NEW u \in Seq(Nat), NEW t \in Seq(Nat),
         NEW n \in 0..Len(t),
         s \o u = SubSeq(t, 1, n), (r \o d) \o q = AnswersIn(e, s)
  PROVE  Len(r) + Len(d) <= Len(AnswersIn(e, t))
<1>1. PICK v \in Seq(Nat) : t = SubSeq(t, 1, n) \o v
  BY FirstPart
<1>2. u \o v \in Seq(Nat)
  BY ConcatProperties
<1>3. t = s \o (u \o v)
  <2>1. (s \o u) \o v = s \o (u \o v)
    BY ZenonT(60), Lists3
  <2> QED BY <1>1, <2>1
<1>4. Len(AnswersIn(e, s)) <= Len(AnswersIn(e, s \o (u \o v)))
  BY <1>2, AnswersGrow
<1>5. /\ Len((r \o d) \o q) = (Len(r) + Len(d)) + Len(q)
      /\ Len(r) \in Nat /\ Len(d) \in Nat /\ Len(q) \in Nat
  <2>1. r \o d \in Seq(Nat) /\ Len(r \o d) = Len(r) + Len(d)
    BY ConcatProperties
  <2>2. Len((r \o d) \o q) = Len(r \o d) + Len(q)
    BY <2>1, ConcatProperties
  <2> QED BY <2>1, <2>2, LenProperties
<1>6. AnswersIn(e, t) \in Seq(Nat) /\ AnswersIn(e, s) \in Seq(Nat)
  BY AnswersOfNext, 0 \in Nat
<1>7. Len(AnswersIn(e, t)) \in Nat /\ Len(AnswersIn(e, s)) \in Nat
  BY <1>6, LenProperties
<1>8. Len(AnswersIn(e, s)) = (Len(r) + Len(d)) + Len(q)
  BY <1>5
<1>9. Len(AnswersIn(e, s)) <= Len(AnswersIn(e, t))
  BY <1>3, <1>4
<1> QED BY <1>5, <1>7, <1>8, <1>9

\* At the start nothing is on its way.
LEMMA SyncInit == ASSUME Init PROVE IInv
<1>1. input \in Seq(Nat) /\ Len(input) \in Nat
  BY InputsAssumption, LenProperties DEF Init
<1>2. TypeOK
  <2>1. 0 \in 0..Len(input) /\ <<>> \in Seq(Nat)
    BY <1>1
  <2> QED BY <2>1 DEF Init, TransportInit, TypeOK, Statuses
<1>3. StagesInOrder
  BY DEF Init, TransportInit, StagesInOrder
<1>4. EveryMessageAnswered
  <2>1. SubSeq(input, 1, 0) = <<>>
    BY SubSeqEmpty
  <2>2. AnswersTo(<<>>) = <<>> /\ <<>> \o <<>> = <<>> /\ Len(<<>>) = 0
    BY AnswerToNothing, ConcatEmptySeq DEF AnswersTo
  <2>3. Len(AnswersTo(input)) \in Nat
    BY <1>2, ListsOfTheCall
  <2> QED BY <2>1, <2>2, <2>3 DEF Init, TransportInit, EveryMessageAnswered
<1>5. WholeOrNothing
  BY DEF Init, WholeOrNothing
<1> QED BY <1>2, <1>3, <1>4, <1>5 DEF IInv

\* A call is opened, or fails at once.
LEMMA SyncCall == ASSUME IInv, Call PROVE IInv'
<1> USE DEF Call, Open, callee, messages
<1>1. TypeOK'
  BY DEF IInv, TypeOK, Statuses
<1>2. StagesInOrder'
  BY DEF IInv, StagesInOrder
<1>3. EveryMessageAnswered'
  BY MessagesStay DEF IInv, StagesInOrder
<1>4. WholeOrNothing'
  BY ResultStays DEF IInv
<1> QED BY <1>1, <1>2, <1>3, <1>4 DEF IInv

\* A message is put on its way, or the call is over.
LEMMA SyncWrite == ASSUME IInv, Write PROVE IInv'
<1> USE DEF Write, callee
<1>1. TypeOK /\ StagesInOrder /\ EveryMessageAnswered /\ WholeOrNothing
  BY DEF IInv
<1>2. client = "write" /\ client' = "write" /\ ~closed /\ link # "none"
  BY <1>1 DEF StagesInOrder
<1>3. /\ input \in Seq(Nat) /\ Len(input) \in Nat /\ position \in Nat
      /\ position < Len(input) /\ seen \in Seq(Nat) /\ up \in Seq(Nat)
  BY <1>1, ListsOfTheCall
<1>4. CASE Put(input[position + 1]) /\ position' = position + 1
  <2> DEFINE x == input[position + 1]
  <2>1. position + 1 \in 1..Len(input) /\ x \in Nat
    BY <1>3, ElementOfSeq
  <2>2. up' = Append(up, x) /\ UNCHANGED <<closed, down, trailer, link, process>>
        /\ trailer = "none"
    BY <1>4 DEF Put
  <2>3. up' \in Seq(Nat)
    BY <1>3, <2>1, <2>2, AppendProperties
  <2> HIDE DEF x
  <2>4. TypeOK'
    BY <1>1, <1>3, <1>4, <2>1, <2>2, <2>3 DEF TypeOK
  <2>5. StagesInOrder'
    BY <1>1, <1>2, <2>2 DEF StagesInOrder
  <2>6. EveryMessageAnswered'
    <3>1. link = "up" => seen' \o up' = SubSeq(input, 1, position + 1)
      <4>1. SubSeq(input, 1, position + 1) = Append(SubSeq(input, 1, position), x)
        <5>1. 1 \in 1..Len(input) + 1 /\ position + 1 \in 1..Len(input)
          BY <1>3, <2>1
        <5> QED BY <1>3, <5>1, SubSeqRecursiveSecond DEF x
      <4>2. seen \o Append(up, x) = Append(seen \o up, x)
        BY <1>3, <2>1, AppendBehind
      <4> QED BY <1>1, <2>2, <4>1, <4>2 DEF EveryMessageAnswered
    <3> QED BY <1>1, <1>2, <1>4, <2>2, <3>1 DEF EveryMessageAnswered, AnswersTo
  <2> QED BY <1>1, <1>2, <2>4, <2>5, <2>6, ResultStays DEF IInv
<1>5. CASE PutFails /\ position' = Refused(position)
  <2>1. UNCHANGED <<up, closed, down, trailer, link, process>> /\ trailer # "none"
    BY <1>5 DEF PutFails, transport, messages
  <2>2. link \notin {"none", "up"} /\ trailer # "OK"
    BY <1>1, <1>2, <2>1 DEF StagesInOrder, TypeOK, Statuses
  <2>3. position' \in 0..Len(input)
    BY <1>3, <1>5 DEF Refused
  <2>4. TypeOK'
    BY <1>1, <2>1, <2>3 DEF TypeOK
  <2>5. StagesInOrder'
    BY <1>1, <1>2, <2>1 DEF StagesInOrder
  <2>6. EveryMessageAnswered'
    BY <1>1, <2>1, <2>2 DEF EveryMessageAnswered, AnswersTo
  <2> QED BY <1>1, <1>2, <2>4, <2>5, <2>6, ResultStays DEF IInv
<1> QED BY <1>4, <1>5

\* The client's direction is closed.
LEMMA SyncWritesDone == ASSUME IInv, WritesDone PROVE IInv'
<1> USE DEF WritesDone, HalfClose, Close, callee
<1>1. TypeOK'
  BY DEF IInv, TypeOK
<1>2. StagesInOrder'
  BY DEF IInv, StagesInOrder
<1>3. EveryMessageAnswered'
  BY MessagesStay DEF IInv
<1>4. WholeOrNothing'
  BY ResultStays DEF IInv
<1> QED BY <1>1, <1>2, <1>3, <1>4 DEF IInv

\* A response is received, or there are no more.
LEMMA SyncRead == ASSUME IInv, Read PROVE IInv'
<1> USE DEF Read, callee
<1>1. TypeOK /\ StagesInOrder /\ EveryMessageAnswered /\ WholeOrNothing
  BY DEF IInv
<1>2. WholeOrNothing'
  BY <1>1, ResultStays
<1>3. CASE Get /\ received' = Append(received, Head(down)) /\ UNCHANGED client
  <2>1. down # <<>> /\ down' = Tail(down) /\ UNCHANGED <<up, closed, trailer, link, process>>
    BY <1>3 DEF Get
  <2>2. received \in Seq(Nat) /\ down \in Seq(Nat)
    BY <1>1, ListsOfTheCall
  <2>3. Head(down) \in Nat /\ Tail(down) \in Seq(Nat)
    BY <2>1, <2>2, FirstAndRest
  <2>4. received' \in Seq(Nat) /\ Len(received') = Len(received) + 1
    BY <1>3, <2>2, <2>3, AppendProperties
  <2>5. Len(down') = Len(down) - 1 /\ Len(down) \in Nat /\ Len(received) \in Nat
    BY <2>1, <2>2, HeadTailProperties, LenProperties
  <2>6. received' \o down' = received \o down
    BY <1>3, <2>1, <2>2, MoveFirst
  <2>7. TypeOK'
    BY <1>1, <1>3, <2>1, <2>3, <2>4 DEF TypeOK
  <2>8. StagesInOrder'
    BY <1>1, <1>3, <2>1 DEF StagesInOrder
  <2>9. EveryMessageAnswered'
    <3>1. Len(received') + Len(down') = Len(received) + Len(down)
      BY <2>4, <2>5
    <3> HIDE DEF Read
    <3>2. UNCHANGED <<example, input, position, seen, up, queue, trailer, link>>
      BY <2>1 DEF Read
    <3> QED BY <1>1, <2>6, <3>1, <3>2 DEF EveryMessageAnswered, AnswersTo
  <2> QED BY <1>2, <2>7, <2>8, <2>9 DEF IInv
<1>4. CASE GetEnds /\ client' = "finish" /\ UNCHANGED received
  <2>1. /\ down = <<>> /\ trailer # "none"
        /\ UNCHANGED <<up, closed, down, trailer, link, process>>
    BY <1>4 DEF GetEnds, transport, messages
  <2>2. TypeOK'
    BY <1>1, <1>4, <2>1 DEF TypeOK
  <2>3. StagesInOrder'
    BY <1>1, <1>4, <2>1 DEF StagesInOrder
  <2>4. EveryMessageAnswered'
    BY <1>1, <1>4, <2>1, MessagesStay
  <2> QED BY <1>2, <2>2, <2>3, <2>4 DEF IInv
<1> QED BY <1>3, <1>4 DEF Keep

\* What an OK stands for when the client gets it.
LEMMA OkIsWhole ==
  ASSUME IInv, client = "finish", trailer = "OK"
  PROVE  seen = input /\ received = AnswersTo(input)
<1>1. down = <<>> /\ seen = input /\ received \o down = AnswersTo(input)
  BY DEF IInv, StagesInOrder, EveryMessageAnswered
<1>2. received \o <<>> = received
  BY ListsOfTheCall, ConcatEmptySeq DEF IInv
<1> QED BY <1>1, <1>2

\* The stub call returns.
LEMMA SyncFinish == ASSUME IInv, Finish PROVE IInv'
<1> USE DEF Finish, callee, transport, messages
<1>1. TypeOK'
  BY DEF IInv, TypeOK
<1>2. StagesInOrder'
  BY DEF IInv, StagesInOrder
<1>3. EveryMessageAnswered'
  BY MessagesStay DEF IInv
<1>4. WholeOrNothing'
  <2>1. result' = Result /\ client = "finish" /\ UNCHANGED <<example, input>>
    OBVIOUS
  <2>2. Result \in {<<>>, IF example = "average" THEN input ELSE AnswersTo(input)}
    BY <2>1, OkIsWhole DEF Result
  <2> HIDE DEF Finish
  <2> QED BY <2>1, <2>2 DEF WholeOrNothing, AnswersTo
<1> QED BY <1>1, <1>2, <1>3, <1>4 DEF IInv

\* The handler is called; its half of the call ends; the server's process starts or dies;
\* the server learns that the connection is lost.
LEMMA SyncOthers ==
  ASSUME IInv, \/ Handle \/ HandlerReturns \/ Run
               \/ /\ Learn \/ Kill
                  /\ UNCHANGED <<caller, callee>>
  PROVE  IInv'
<1> USE DEF caller, callee, transport, messages
<1>1. TypeOK'
  BY DEF IInv, TypeOK, Handle, HandlerReturns, TakeEnds, Run, Listen, Learn, Kill
<1>2. StagesInOrder'
  <2>1. CASE Handle
    BY <2>1 DEF IInv, StagesInOrder, Handle
  <2>2. CASE HandlerReturns
    BY <2>2 DEF IInv, StagesInOrder, HandlerReturns, TakeEnds
  <2>3. CASE Run
    BY <2>3 DEF IInv, StagesInOrder, Run, Listen
  <2>4. CASE (Learn \/ Kill) /\ UNCHANGED <<caller, callee>>
    BY <2>4 DEF IInv, StagesInOrder, Learn, Kill
  <2> QED BY <2>1, <2>2, <2>3, <2>4
<1>3. UNCHANGED <<caller, queue, seen, up, down, trailer>>
  BY DEF Handle, HandlerReturns, TakeEnds, Run, Listen, Learn, Kill
<1>4. link' \in {"none", "up"} => link \in {"none", "up"}
  BY DEF Handle, HandlerReturns, TakeEnds, Run, Listen, Learn, Kill
<1>5. EveryMessageAnswered'
  BY <1>3, <1>4, MessagesStay DEF IInv
<1>6. WholeOrNothing'
  BY <1>3, ResultStays DEF IInv
<1> QED BY <1>1, <1>2, <1>5, <1>6 DEF IInv

\* The handler reads a message: it has its answer to write.
LEMMA SyncHandlerReads == ASSUME IInv, HandlerReads PROVE IInv'
<1>1. TypeOK /\ StagesInOrder /\ EveryMessageAnswered /\ WholeOrNothing
  BY DEF IInv
<1> DEFINE m == Head(up)
           b == Answers(example, m)
<1>2. /\ handler = "read" /\ queue = <<>> /\ up # <<>> /\ up' = Tail(up)
      /\ queue' = b /\ seen' = Append(seen, m)
      /\ UNCHANGED <<closed, down, trailer, link, process, handler, caller>>
  BY DEF HandlerReads, Take
<1>3. /\ seen \in Seq(Nat) /\ up \in Seq(Nat) /\ received \in Seq(Nat)
      /\ down \in Seq(Nat)
  BY <1>1, ListsOfTheCall
<1>4. m \in Nat /\ up' \in Seq(Nat) /\ seen' \o up' = seen \o up
  BY <1>2, <1>3, FirstAndRest, MoveFirst
<1>5. b \in Seq(Nat) /\ seen' \in Seq(Nat)
  BY <1>2, <1>3, <1>4, AnswersAreLists, AppendProperties
<1> HIDE DEF m, b
<1>6. TypeOK'
  BY <1>1, <1>2, <1>4, <1>5 DEF TypeOK, caller
<1>7. StagesInOrder'
  BY <1>1, <1>2 DEF StagesInOrder, caller
<1>8. EveryMessageAnswered'
  <2>1. link # "none" /\ trailer # "OK"
    BY <1>1, <1>2 DEF StagesInOrder
  <2>2. received \o down \in Seq(Nat)
    BY <1>3, ConcatProperties
  <2>3. (received \o down) \o <<>> = received \o down
    BY <2>2, ConcatEmptySeq
  <2>4. AnswersIn(example, Append(seen, m)) = AnswersIn(example, seen) \o b
    BY <1>3, <1>4, AnswersOfNext DEF b
  <2>5. link = "up" => (received \o down) \o b = AnswersIn(example, Append(seen, m))
    BY <1>1, <1>2, <2>3, <2>4 DEF EveryMessageAnswered, AnswersTo
  <2> QED BY <1>1, <1>2, <1>4, <2>1, <2>5 DEF EveryMessageAnswered, AnswersTo, caller
<1>9. WholeOrNothing'
  BY <1>1, <1>2, ResultStays DEF caller
<1> QED BY <1>6, <1>7, <1>8, <1>9 DEF IInv

\* A response goes on its way, or nowhere once the connection is lost.
LEMMA SyncHandlerWrites == ASSUME IInv, HandlerWrites PROVE IInv'
<1>1. TypeOK /\ StagesInOrder /\ EveryMessageAnswered /\ WholeOrNothing
  BY DEF IInv
<1> DEFINE m == Head(queue)
<1>2. /\ handler = "read" /\ queue # <<>> /\ queue' = Tail(queue)
      /\ down' = IF link = "up" THEN Append(down, m) ELSE down
      /\ UNCHANGED <<up, closed, trailer, link, process, handler, seen, caller>>
  BY DEF HandlerWrites, Respond, Reply, ReplyFails, transport, messages
<1>3. /\ seen \in Seq(Nat) /\ up \in Seq(Nat) /\ received \in Seq(Nat)
      /\ down \in Seq(Nat) /\ queue \in Seq(Nat) /\ input \in Seq(Nat)
      /\ position \in 0..Len(input)
  BY <1>1, ListsOfTheCall DEF TypeOK
<1>4. m \in Nat /\ queue' \in Seq(Nat)
  BY <1>2, <1>3, FirstAndRest
<1>5. Append(down, m) \in Seq(Nat)
  BY <1>3, <1>4, AppendProperties
<1>6. received \o Append(down, m) \o queue' = received \o down \o queue
  <2>1. received \o down \in Seq(Nat)
    BY <1>3, ConcatProperties
  <2>2. Append(received \o down, m) \o Tail(queue) = (received \o down) \o queue
    BY <1>2, <1>3, <2>1, MoveFirst
  <2>3. Append(received \o down, m) = received \o Append(down, m)
    BY ZenonT(60), <1>3, <1>4, AppendBehind
  <2> QED BY <1>2, <2>2, <2>3
<1> HIDE DEF m
<1>7. TypeOK'
  BY <1>1, <1>2, <1>4, <1>5 DEF TypeOK, caller
<1>8. link # "none" /\ trailer # "OK" /\ (link = "up" => trailer = "none")
  BY <1>1, <1>2 DEF StagesInOrder, TypeOK, Statuses
<1>9. StagesInOrder'
  BY <1>1, <1>2, <1>8 DEF StagesInOrder, caller
<1>10. EveryMessageAnswered'
  <2>1. CASE link = "up"
    <3>1. down' = Append(down, m)
      BY <1>2, <2>1
    <3>2. received \o down' \o queue' = AnswersIn(example, seen)
      BY <1>1, <1>6, <2>1, <3>1 DEF EveryMessageAnswered, AnswersTo
    <3>3. seen \o up = SubSeq(input, 1, position)
      BY <1>1, <2>1 DEF EveryMessageAnswered
    <3>4. Len(received) + Len(down') <= Len(AnswersIn(example, input))
      <4> DEFINE d == down'
                 q == queue'
      <4>1. d \in Seq(Nat) /\ q \in Seq(Nat) /\ (received \o d) \o q = AnswersIn(example, seen)
        BY <1>4, <1>5, <3>1, <3>2
      <4> HIDE DEF d, q
      <4>2. Len(received) + Len(d) <= Len(AnswersIn(example, input))
        BY <1>3, <3>3, <4>1, ResponsesFit
      <4> QED BY <4>2 DEF d
    <3> QED BY <1>2, <1>8, <3>2, <3>3, <3>4 DEF EveryMessageAnswered, AnswersTo, caller
  <2>2. CASE link # "up"
    BY <1>1, <1>2, <1>8, <2>2 DEF EveryMessageAnswered, AnswersTo, caller
  <2> QED BY <2>1, <2>2
<1>11. WholeOrNothing'
  BY <1>1, <1>2, ResultStays DEF caller
<1> QED BY <1>7, <1>9, <1>10, <1>11 DEF IInv

\* The status follows the last response.
LEMMA SyncSendsStatus == ASSUME IInv, SendsStatus PROVE IInv'
<1>1. TypeOK /\ StagesInOrder /\ EveryMessageAnswered /\ WholeOrNothing
  BY DEF IInv
<1>2. /\ handler = "answered" /\ handler' = "returned"
      /\ trailer' = IF link = "up" THEN "OK" ELSE trailer
      /\ UNCHANGED <<up, closed, down, link, process, queue, seen, caller>>
  BY DEF SendsStatus, Conclude, messages
<1>3. queue = <<>> /\ trailer # "OK" /\ link # "none"
      /\ (link = "up" => up = <<>> /\ closed /\ position = Len(input))
  BY <1>1, <1>2 DEF StagesInOrder
<1>4. TypeOK'
  BY <1>1, <1>2 DEF TypeOK, caller, Statuses
<1>5. StagesInOrder'
  BY <1>1, <1>2, <1>3 DEF StagesInOrder, caller
<1>6. EveryMessageAnswered'
  <2>1. link = "up" => seen = input /\ received \o down = AnswersTo(input)
    <3> SUFFICES ASSUME link = "up"
                 PROVE  seen = input /\ received \o down = AnswersTo(input)
      OBVIOUS
    <3>1. /\ seen \in Seq(Nat) /\ received \in Seq(Nat) /\ down \in Seq(Nat)
          /\ input \in Seq(Nat)
      BY <1>1, ListsOfTheCall
    <3>2. seen \o <<>> = seen
      BY <3>1, ConcatEmptySeq
    <3>3. SubSeq(input, 1, Len(input)) = input
      BY <3>1, SubSeqFull
    <3>4. (received \o down) \o <<>> = received \o down
      <4>1. received \o down \in Seq(Nat)
        BY <3>1, ConcatProperties
      <4> QED BY <4>1, ConcatEmptySeq
    <3> QED BY <1>1, <1>3, <3>2, <3>3, <3>4 DEF EveryMessageAnswered
  <2> QED BY <1>1, <1>2, <1>3, <2>1 DEF EveryMessageAnswered, AnswersTo, caller
<1>7. WholeOrNothing'
  BY <1>1, <1>2, ResultStays DEF caller
<1> QED BY <1>4, <1>5, <1>6, <1>7 DEF IInv

\* The connection is lost, and with it some of the responses; the client dies.
LEMMA SyncFaults ==
  ASSUME IInv, \/ Lose /\ UNCHANGED <<caller, callee>>
               \/ ClientDies
  PROVE  IInv'
<1>1. TypeOK /\ StagesInOrder /\ EveryMessageAnswered /\ WholeOrNothing
  BY DEF IInv
<1>2. CASE Lose /\ UNCHANGED <<caller, callee>>
  <2>1. PICK n \in 0..Len(down) : down' = SubSeq(down, 1, n)
    BY <1>2 DEF Lose
  <2>2. down \in Seq(Nat) /\ Len(down) \in Nat
    BY <1>1, ListsOfTheCall
  <2>3. down' \in Seq(Nat)
    BY <2>1, <2>2, FirstPart
  <2>4. Len(down') <= Len(down)
    <3>1. \A i \in 1..n : down[i] \in Nat
      BY <2>1, <2>2, ElementOfSeq
    <3>2. Len(SubSeq(down, 1, n)) = IF 1 <= n THEN n - 1 + 1 ELSE 0
      BY <3>1, SubSeqProperties
    <3> QED BY <2>1, <2>2, <3>2
  <2>5. down = <<>> => down' = <<>>
    <3>1. Len(down') \in Nat
      BY <2>3, LenProperties
    <3> QED BY <2>3, <2>4, <3>1, EmptySeq
  <2>6. /\ link = "up" /\ link' = "cut" /\ trailer' = "UNAVAILABLE"
        /\ UNCHANGED <<up, closed, process, caller, callee>>
    BY <1>2 DEF Lose
  <2>7. TypeOK'
    BY <1>1, <2>3, <2>6 DEF TypeOK, caller, callee, Statuses
  <2>8. StagesInOrder'
    BY <1>1, <2>5, <2>6 DEF StagesInOrder, caller, callee
  <2>9. EveryMessageAnswered'
    <3>1. /\ Len(received) \in Nat /\ Len(down') \in Nat
          /\ Len(AnswersTo(input)) \in Nat
      BY <1>1, <2>3, ListsOfTheCall, LenProperties
    <3>2. Len(received) + Len(down') <= Len(AnswersTo(input))
      BY <1>1, <2>2, <2>4, <3>1 DEF EveryMessageAnswered
    <3> QED BY <2>6, <3>2 DEF EveryMessageAnswered, AnswersTo, caller, callee
  <2>10. WholeOrNothing'
    BY <1>1, <2>6, ResultStays DEF caller
  <2> QED BY <2>7, <2>8, <2>9, <2>10 DEF IInv
<1>3. CASE ClientDies
  <2>1. /\ client \in {"write", "read", "finish"} /\ client' = "died"
        /\ link' = (IF link = "up" THEN "cut" ELSE link)
        /\ UNCHANGED <<up, closed, down, trailer, process, example, input, position,
                       received, status, result, callee>>
    BY <1>3 DEF ClientDies, Hangup, messages
  <2>2. TypeOK'
    BY <1>1, <2>1 DEF TypeOK, callee
  <2>3. StagesInOrder'
    BY <1>1, <2>1 DEF StagesInOrder, callee
  <2>4. EveryMessageAnswered'
    BY <1>1, <2>1, MessagesStay DEF callee
  <2>5. WholeOrNothing'
    BY <1>1, <2>1, ResultStays
  <2> QED BY <2>2, <2>3, <2>4, <2>5 DEF IInv
<1> QED BY <1>2, <1>3

\* Every step keeps the invariant.
LEMMA SyncStep == ASSUME IInv, [Next]_vars PROVE IInv'
<1>1. CASE UNCHANGED vars
  <2>1. UNCHANGED <<example, input, position, client, received, status, result, handler,
                    queue, seen, up, closed, down, trailer, link, process>>
    BY <1>1 DEF vars, caller, callee, transport, messages
  <2>2. TypeOK' /\ StagesInOrder'
    BY <2>1 DEF IInv, TypeOK, StagesInOrder
  <2>3. EveryMessageAnswered' /\ WholeOrNothing'
    BY <2>1, MessagesStay, ResultStays DEF IInv
  <2> QED BY <2>2, <2>3 DEF IInv
<1>2. CASE Run \/ Call \/ CallerStep
  <2>1. CASE Run \/ Call
    BY <2>1, SyncOthers, SyncCall
  <2>2. CASE CallerStep
    BY <2>2, SyncWrite, SyncWritesDone, SyncRead, SyncFinish DEF CallerStep
  <2> QED BY <1>2, <2>1, <2>2
<1>3. CASE CalleeStep
  <2>1. CASE Handle \/ HandlerReturns
    BY <2>1, SyncOthers
  <2>2. CASE HandlerReads \/ HandlerWrites \/ SendsStatus
    BY <2>2, SyncHandlerReads, SyncHandlerWrites, SyncSendsStatus
  <2> QED BY <1>3, <2>1, <2>2 DEF CalleeStep
<1>4. CASE NetworkOrServer \/ ClientDies
  BY <1>4, SyncOthers, SyncFaults DEF NetworkOrServer
<1> QED BY <1>1, <1>2, <1>3, <1>4 DEF Next

\* Every message of a call of 02, 03 or 04 is read once and in its place, every answer
\* is received or under way, and the stages follow each other, for any lists, any window
\* and any loss of the connection or of a process.
THEOREM SyncInvariance == Spec => []IInv
BY SyncInit, SyncStep, PTL DEF Spec

\* A list that a call returns is the whole answer to all that was written, or empty
\* (02 client.cpp:23-34, 03 server.cpp:41, 04 client.cpp:32-41).
THEOREM NoPartOfAnAnswer == Spec => []WholeOrNothing
<1>1. IInv => WholeOrNothing
  BY DEF IInv
<1> QED BY <1>1, SyncInvariance, PTL

-----------------------------------------------------------------------------
(* Refinement: the call keeps the contract of a stream.                    *)

\* A step that the client does not see is none of the stream.
LEMMA UnseenSteps ==
  ASSUME UNCHANGED <<example, input, client, status, received>>
  PROVE  UNCHANGED Stream!vars
BY DEF Stream!vars, Outcome, AnswersTo

\* The call is opened.
LEMMA CallOpens == ASSUME Call PROVE Stream!Open("call")
<1>1. Outcome = "idle" /\ Outcome' = "open"
  BY DEF Call, Outcome
<1> QED BY <1>1 DEF Call, Stream!Open, AnswersTo

\* A response is received while there are some to come; the end of the responses is none.
LEMMA ReadReceives ==
  ASSUME IInv, Read
  PROVE  Stream!Receive("call") \/ UNCHANGED Stream!vars
<1>1. Outcome = "open" /\ Outcome' = "open" /\ UNCHANGED <<example, input>>
  BY DEF Read, Outcome
<1>2. CASE Get /\ received' = Append(received, Head(down))
  <2>1. received \in Seq(Nat) /\ down \in Seq(Nat) /\ down # <<>>
    BY <1>2, ListsOfTheCall DEF IInv, Get
  <2>2. Head(down) \in Nat
    BY <2>1, FirstAndRest
  <2>3. Len(received') = Len(received) + 1
    BY <1>2, <2>1, <2>2, AppendProperties
  <2>4. Len(down) \in Nat \ {0} /\ Len(received) \in Nat /\ Len(AnswersTo(input)) \in Nat
    BY <2>1, EmptySeq, ListsOfTheCall DEF IInv
  <2>5. Len(received) < Len(AnswersTo(input))
    BY <2>4 DEF IInv, EveryMessageAnswered
  <2> QED BY <1>1, <2>3, <2>5 DEF Stream!Receive, AnswersTo
<1>3. CASE UNCHANGED received
  BY <1>1, <1>3 DEF Stream!vars, AnswersTo
<1> QED BY <1>2, <1>3 DEF Read, Keep

\* The call succeeds behind the last response, or fails.
LEMMA FinishEnds ==
  ASSUME IInv, Finish
  PROVE  Stream!Succeed("call") \/ Stream!Fail("call")
<1>1. /\ Outcome = "open" /\ Outcome' = IF trailer = "OK" THEN "ok" ELSE "error"
      /\ UNCHANGED <<example, input, received>>
  BY DEF Finish, Outcome
<1>2. trailer = "OK" => Len(received) = Len(AnswersTo(input))
  BY OkIsWhole DEF Finish
<1> QED BY <1>1, <1>2 DEF Stream!Succeed, Stream!Fail, AnswersTo

\* A client that dies has no success.
LEMMA DeathFails == ASSUME IInv, ClientDies PROVE Stream!Fail("call")
<1>1. status # "OK"
  BY DEF IInv, StagesInOrder, ClientDies
<1>2. Outcome = "open" /\ Outcome' = "error" /\ UNCHANGED <<example, input, received>>
  BY <1>1 DEF ClientDies, Outcome
<1> QED BY <1>2 DEF Stream!Fail, AnswersTo

\* Every step of a call is one of the stream, or none.
LEMMA StepRefines ==
  ASSUME IInv, [Next]_vars
  PROVE  [Stream!Next]_(Stream!vars)
<1>1. CASE Call
  BY <1>1, CallOpens DEF Stream!Next
<1>2. CASE Read
  BY <1>2, ReadReceives DEF Stream!Next
<1>3. CASE Finish
  BY <1>3, FinishEnds DEF Stream!Next
<1>4. CASE ClientDies
  BY <1>4, DeathFails DEF Stream!Next
<1>5. CASE WritesDone
  BY <1>5 DEF WritesDone, Stream!vars, Outcome, AnswersTo
<1>6. CASE Write \/ Run \/ CalleeStep \/ NetworkOrServer \/ UNCHANGED vars
  <2>1. UNCHANGED <<example, input, client, status, received>>
    BY <1>6
       DEF Write, Run, CalleeStep, NetworkOrServer, vars, caller, Handle, HandlerReads,
           HandlerWrites, HandlerReturns, SendsStatus
  <2> QED BY <2>1, UnseenSteps
<1> QED BY <1>1, <1>2, <1>3, <1>4, <1>5, <1>6 DEF Next, CallerStep

\* The initial state is one of the stream.
LEMMA InitRefines == ASSUME Init PROVE Stream!Init
<1>1. Len(AnswersTo(input)) \in Nat
  BY SyncInit, ListsOfTheCall DEF IInv
<1>2. Outcome = "idle" /\ Len(received) = 0
  BY DEF Init, Outcome
<1> QED BY <1>1, <1>2 DEF Stream!Init

\* The responses of 02, 03 and 04 come in their order, and success behind the last of
\* them, whatever is lost and whoever dies.
THEOREM RefinesResponseStream == Spec => ImplementsResponseStream
BY SyncInvariance, InitRefines, StepRefines, PTL
   DEF Spec, ImplementsResponseStream, Stream!Spec

-----------------------------------------------------------------------------
(* The programs together.                                                  *)

\* A step of the programs is one of 02, 03 or 04, or changes nothing of it.
LEMMA StepOfSync ==
  ASSUME [StreamsNext]_all, example \in Examples
  PROVE  [Next]_vars
<1>1. CASE Sync(Next)
  BY <1>1 DEF Sync
<1>2. CASE UNCHANGED all
  BY <1>2 DEF all
<1> QED BY <1>1, <1>2 DEF StreamsNext, In08, In09, Examples

LEMMA ExamplesApart ==
  "average_callback" \notin Examples /\ "evens_callback" \notin Examples
BY DEF Examples

\* A client of 02, 03 or 04 that rests does nothing.
LEMMA RestingClient ==
  ASSUME [StreamsNext]_all, example \notin Examples
  PROVE  UNCHANGED <<example, input, client, received>>
BY SameProgram DEF StreamsNext, Sync, In08, In09, blocking, all, vars, caller

\* What is known of 02, 03 and 04 whatever program runs.
SyncInv == /\ example \in Examples => IInv
           /\ example \notin Examples =>
                client = "idle" /\ received = <<>> /\ input = <<>>

LEMMA SyncRests == StreamsInit => SyncInv
BY SyncInit, ExamplesApart DEF StreamsInit, BlockingRests, Init, SyncInv

LEMMA SyncSteps ==
  ASSUME SyncInv, [StreamsNext]_all
  PROVE  SyncInv'
<1>1. example' = example
  BY SameProgram
<1>2. CASE example \in Examples
  BY <1>1, <1>2, StepOfSync, SyncStep DEF SyncInv
<1>3. CASE example \notin Examples
  BY <1>1, <1>3, RestingClient DEF SyncInv
<1> QED BY <1>2, <1>3

\* No client of 02, 03, 04 or 08 is given a part of an answer, or an answer to a part of
\* what it sent, for any lists, any window and any loss of the connection or of a process.
THEOREM AnswersAreWhole == StreamsSpec => []WholeAnswers
<1>1. SyncInv => (example \in Examples => IInv) /\ WholeOrNothing
  BY DEF SyncInv, IInv, WholeOrNothing
<1>2. SyncInv /\ (example = "average_callback" => Average!WholeAnswers) => WholeAnswers
  BY <1>1 DEF WholeAnswers
<1> QED BY SyncRests, SyncSteps, <1>2, NoPartialAverage, PTL DEF StreamsSpec

\* The contract of a stream is kept, whatever program runs: 08 and 09 add no step to it.
THEOREM ProgramsRefineResponseStream == StreamsSpec => ImplementsResponseStream
<1>1. StreamsInit => Stream!Init
  <2> SUFFICES ASSUME StreamsInit PROVE Stream!Init
    OBVIOUS
  <2>1. CASE Init
    BY <2>1, InitRefines
  <2>2. CASE ~Init
    <3>1. input = <<>> /\ received = <<>> /\ client = "idle"
      BY <2>2 DEF StreamsInit, BlockingRests
    <3>2. Len(AnswersTo(input)) \in Nat
      <4>1. input \in Seq(Nat)
        BY <3>1
      <4>2. AnswersTo(input) \in Seq(Nat)
        BY <4>1, AnswersOfNext, 0 \in Nat DEF AnswersTo
      <4> QED BY <4>2, LenProperties
    <3>3. Outcome = "idle" /\ Len(received) = 0
      BY <3>1 DEF Outcome
    <3> QED BY <3>2, <3>3 DEF Stream!Init
  <2> QED BY <2>1, <2>2
<1>2. SyncInv /\ [StreamsNext]_all => [Stream!Next]_(Stream!vars)
  <2> SUFFICES ASSUME SyncInv, [StreamsNext]_all PROVE [Stream!Next]_(Stream!vars)
    OBVIOUS
  <2>1. CASE example \in Examples
    BY <2>1, StepOfSync, StepRefines DEF SyncInv
  <2>2. CASE example \notin Examples
    <3>1. UNCHANGED <<example, input, client, received>> /\ client = "idle"
      BY <2>2, RestingClient DEF SyncInv
    <3> QED BY <3>1 DEF Stream!vars, Outcome, AnswersTo
  <2> QED BY <2>1, <2>2
<1> QED BY <1>1, <1>2, SyncRests, SyncSteps, PTL
        DEF StreamsSpec, ImplementsResponseStream, Stream!Spec
=============================================================================
