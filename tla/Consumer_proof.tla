--------------------------- MODULE Consumer_proof ---------------------------
(***************************************************************************)
(* Theorems about Consumer, for contents of every size, every order in     *)
(* which the pipeline hands over the segments, and every choice of         *)
(* application level Nacks. Inductive and what follows from it need a      *)
(* pipeline that hands no segment over twice: with AtMostOnce = FALSE they *)
(* do not hold. OutputInOrder, at the end, needs nothing of the pipeline.  *)
(***************************************************************************)
EXTENDS Consumer, SequenceTheorems, FiniteSetTheorems, TLAPS

(* The inductive invariant: the segments handed over are those written and
   those buffered, all the buffered ones lie beyond the first missing one, and
   the pipeline is complete only when it has handed over everything. *)
SplitIn(n) == /\ nextToPrint \in 0 .. n + 1
              /\ buffered \subseteq {s \in 0 .. n : s > nextToPrint}
              /\ delivered = buffered \cup (0 .. nextToPrint - 1)
Split    == SplitIn(content.last)
Sized    == content.last \in Nat
Promised == /\ outcome = "complete" => delivered = Segments
            /\ outcome = "idle" => delivered = {}
IInv     == Sized /\ Promised /\ (result = "running" => Split) /\ SuccessMeansWritten

\* writeInOrderData() after a new segment s splits the segments held anew
LEMMA WriteSplits ==
  ASSUME NEW n \in Nat, SplitIn(n), NEW s \in 0 .. n, s \notin delivered,
         WriteInOrderData(Buffer(s)), delivered' = delivered \cup {s}
  PROVE  SplitIn(n)'
<1> DEFINE buf == buffered \cup {s}
<1>1. nextToPrint \in 0 .. n + 1 /\ s >= nextToPrint
  <2>1. nextToPrint \in 0 .. n + 1
    BY DEF SplitIn
  <2>2. s \notin 0 .. nextToPrint - 1
    BY DEF SplitIn
  <2> QED
    BY <2>1, <2>2
<1>2. buf \subseteq {t \in 0 .. n : t >= nextToPrint} /\ Buffer(s) = buf
  BY <1>1 DEF SplitIn, Buffer
<1>3. PICK m \in {nextToPrint} \cup {t + 1 : t \in buf} :
        /\ Contiguous(buf, m) /\ ~Contiguous(buf, m + 1)
        /\ nextToPrint' = m
        /\ buffered' = {t \in buf : t >= m}
  <2>1. WriteInOrderData(buf)
    BY <1>2
  <2>2. ~ \E t \in buf : t < nextToPrint
    BY <1>1, <1>2
  <2> QED
    BY <2>1, <2>2, Zenon DEF WriteInOrderData
<1>4. m \in nextToPrint .. n + 1 /\ m \in Int /\ nextToPrint \in Int
  BY <1>1, <1>2, <1>3
<1>5. \A t \in nextToPrint .. m - 1 : t \in buf
  BY <1>3 DEF Contiguous
<1>6. m \notin buf
  <2>1. PICK t \in nextToPrint .. m : t \notin buf
    BY <1>3, <1>4 DEF Contiguous
  <2>2. t = m
    BY <1>4, <1>5, <2>1
  <2> QED
    BY <2>1, <2>2
<1>7. buffered' \subseteq {t \in 0 .. n : t > m}
  BY <1>1, <1>2, <1>3, <1>4, <1>6
<1>8. delivered' = buf \cup (0 .. nextToPrint - 1)
  BY DEF SplitIn
<1>9. delivered' = buffered' \cup (0 .. m - 1)
  BY <1>1, <1>2, <1>3, <1>4, <1>5, <1>8
<1> QED
  BY <1>1, <1>3, <1>4, <1>7, <1>9 DEF SplitIn

\* onDataValidated() of a new segment: the program ends, or the split holds again
LEMMA ValidatedSplits ==
  ASSUME NEW n \in Nat, SplitIn(n), NEW s \in 0 .. n, s \notin delivered, NEW isNack,
         OnDataValidated(s, isNack), delivered' = delivered \cup {s}
  PROVE  result' = "appNack" \/ (UNCHANGED result /\ SplitIn(n)')
  BY WriteSplits DEF OnDataValidated

\* nothing is written or buffered before the first segment, so the split holds initially
LEMMA InitSplit == ConsumerInit => IInv
<1> SUFFICES ASSUME ConsumerInit PROVE IInv
  OBVIOUS
<1>1. content.last = 0
  BY DEF ConsumerInit, NoContent
<1>2. Sized /\ Promised /\ SuccessMeansWritten
  BY <1>1 DEF ConsumerInit, Init, Sized, Promised, SuccessMeansWritten
<1>3. nextToPrint = 0 /\ buffered = {} /\ delivered = {}
  BY DEF ConsumerInit, Init
<1>4. 0 .. nextToPrint - 1 = {}
  BY <1>3
<1>5. Split
  BY <1>1, <1>3, <1>4 DEF Split, SplitIn
<1> QED
  BY <1>2, <1>5 DEF IInv

\* when the pipeline is complete no segment is missing, so none waits in the buffer
LEMMA CompleteIsWritten ==
  ASSUME Sized, Split, delivered = Segments
  PROVE  nextToPrint = content.last + 1
<1>1. content.last \in Nat /\ nextToPrint \in 0 .. content.last + 1
  BY DEF Sized, Split, SplitIn
<1>2. ~(nextToPrint \in Segments)
  BY <1>1 DEF Split, SplitIn, Segments
<1> QED
  BY <1>1, <1>2 DEF Segments

\* no step of the consumer or of the pipeline breaks the invariant
LEMMA StepSplit ==
  ASSUME AtMostOnce, IInv, [ConsumerNext]_allVars
  PROVE  IInv'
<1> USE DEF IInv
<1>1. ASSUME NEW c \in Contents, StartPipeline(c)
      PROVE  IInv'
  <2> DEFINE n == c.last
  <2>1. /\ result = "running" /\ outcome = "idle" /\ content' = c
        /\ c.excluded \in 0 .. n /\ delivered' = {c.excluded} /\ Ends
        /\ OnDataValidated(c.excluded, c.excluded \in c.nacks)
    BY <1>1 DEF StartPipeline, Start, Segments
  <2>2. n \in Nat
    BY ConsumerAssumption DEF Contents, ContentsTo
  <2>3. delivered = {} /\ delivered' = delivered \cup {c.excluded} /\ c.excluded \notin delivered
    BY <2>1 DEF Promised
  <2>4. SplitIn(n)
    BY <2>1, <2>2, <2>3 DEF Split, SplitIn, Sized
  <2>5. result' = "appNack" \/ (UNCHANGED result /\ SplitIn(n)')
    BY <2>1, <2>2, <2>3, <2>4, ValidatedSplits
  <2>6. Sized' /\ Promised'
    BY <2>1, <2>2 DEF Sized, Promised, Ends
  <2>7. result' = "running" => Split'
    BY <2>1, <2>5 DEF Split, SplitIn
  <2> QED
    BY <2>1, <2>5, <2>6, <2>7 DEF SuccessMeansWritten
<1>2. ASSUME NEW s \in Segments, OnData(s)
      PROVE  IInv'
  <2>1. /\ result = "running" /\ s \notin delivered /\ content' = content
        /\ delivered' = delivered \cup {s} /\ Ends /\ outcome = "running"
        /\ OnDataValidated(s, s \in content.nacks)
    BY <1>2 DEF OnData, Deliver
  <2>2. PICK n \in Nat : n = content.last /\ SplitIn(n) /\ s \in 0 .. n
    BY <2>1 DEF Sized, Split, Segments
  <2>3. result' = "appNack" \/ (UNCHANGED result /\ SplitIn(n)')
    BY <2>1, <2>2, ValidatedSplits
  <2>4. Sized' /\ Promised'
    BY <2>1 DEF Sized, Promised, Ends
  <2>5. result' = "running" => Split'
    BY <2>1, <2>2, <2>3 DEF Split, SplitIn
  <2> QED
    BY <2>1, <2>3, <2>4, <2>5 DEF SuccessMeansWritten
<1>3. CASE PipelineEnds
  BY <1>3
     DEF PipelineEnds, End, Ends, consumerVars, Sized, Split, SplitIn, Promised, SuccessMeansWritten, Segments
<1>4. CASE DiscoveryFails \/ OnFailure
  BY <1>4
     DEF DiscoveryFails, OnFailure, vars, Sized, Promised, SuccessMeansWritten, Segments
<1>5. CASE Return
  <2>1. nextToPrint = content.last + 1
    BY <1>5, CompleteIsWritten DEF Return, Promised
  <2> QED
    BY <1>5, <2>1 DEF Return, vars, Sized, Promised, SuccessMeansWritten, Segments
<1>6. CASE UNCHANGED allVars
  BY <1>6
     DEF allVars, vars, consumerVars, Sized, Split, SplitIn, Promised, SuccessMeansWritten, Segments
<1> QED
  BY <1>1, <1>2, <1>3, <1>4, <1>5, <1>6 DEF ConsumerNext

\* with a pipeline that hands no segment over twice the invariant always holds
THEOREM Inductive == AtMostOnce /\ ConsumerSpec => []IInv
<1>1. ConsumerInit => IInv
  BY InitSplit
<1>2. AtMostOnce /\ IInv /\ [ConsumerNext]_allVars => IInv'
  BY StepSplit
<1>3. CASE AtMostOnce
  BY <1>1, <1>2, <1>3, PTL DEF ConsumerSpec
<1> QED
  BY <1>3

(* Every segment that arrived is written or buffered, and none that could be
   written is withheld, for contents of every size. *)
THEOREM HeldSegments == AtMostOnce /\ ConsumerSpec => []NoneLostNorWithheld
<1>1. IInv => NoneLostNorWithheld
  BY DEF IInv, Split, SplitIn, Sized, NoneLostNorWithheld
<1> QED
  BY <1>1, Inductive, PTL

(* A program that ends with exit code 0 has written the whole content. *)
THEOREM SuccessIsComplete == AtMostOnce /\ ConsumerSpec => []SuccessMeansWritten
<1>1. IInv => SuccessMeansWritten
  BY DEF IInv
<1> QED
  BY <1>1, Inductive, PTL

-----------------------------------------------------------------------------
(* Induction over Nat for a set given by its members: were k missing, the numbers 0..k could be mapped into 0..k-1 without a collision. *)
LEMMA NatSetInduction ==
  ASSUME NEW S, 0 \in S, \A n \in Nat : n \in S => n + 1 \in S
  PROVE  Nat \subseteq S
<1> SUFFICES ASSUME NEW k \in Nat, k \notin S PROVE FALSE
  OBVIOUS
<1> DEFINE f == [i \in 0 .. k |-> IF i \in S THEN i ELSE i - 1]
<1>1. k # 0
  OBVIOUS
<1>2. f \in [0 .. k -> 0 .. k - 1]
  <2>1. ASSUME NEW i \in 0 .. k PROVE f[i] \in 0 .. k - 1
    <3>1. CASE i \in S
      BY <1>1, <3>1
    <3>2. CASE i \notin S
      BY <1>1, <3>2
    <3> QED
      BY <3>1, <3>2
  <2> QED
    BY <2>1
<1>3. IsFiniteSet(0 .. k) /\ IsFiniteSet(0 .. k - 1) /\ Cardinality(0 .. k - 1) < Cardinality(0 .. k)
  BY <1>1, FS_Interval
<1>4. PICK i \in 0 .. k, j \in 0 .. k : i # j /\ f[i] = f[j]
  <2> HIDE DEF f
  <2> QED
    BY <1>2, <1>3, FS_PigeonHole
<1>5. \A n \in Nat : n \in S => n + 1 \in S
  OBVIOUS
<1>6. CASE i \in S /\ j \notin S
  BY <1>4, <1>5, <1>6
<1>7. CASE i \notin S /\ j \in S
  BY <1>4, <1>5, <1>7
<1> QED
  BY <1>4, <1>6, <1>7

\* a function over 1..n is a sequence of length n
LEMMA SequenceOfLength ==
  ASSUME NEW S, NEW n \in Nat, NEW f \in [1 .. n -> S]
  PROVE  f \in Seq(S) /\ Len(f) = n
<1>1. f \in Seq(S)
  BY SeqDef
<1>2. Len(f) \in Nat /\ DOMAIN f = 1 .. Len(f)
  BY <1>1, LenProperties
<1>3. 1 .. Len(f) = 1 .. n
  BY <1>2
<1> QED
  BY <1>1, <1>2, <1>3

(* InMapOrder lists an interval in its order, and there is nothing else it could list. *)
LEMMA IntervalInMapOrder ==
  ASSUME NEW a \in Nat, NEW k \in Nat
  PROVE  InMapOrder(a .. a + k - 1) = [i \in 1 .. k |-> a + i - 1]
<1> DEFINE T == a .. a + k - 1
           w == [i \in 1 .. k |-> a + i - 1]
           Increasing(q) == \A i, j \in DOMAIN q : i < j => q[i] < q[j]
<1>1. IsFiniteSet(T) /\ Cardinality(T) = k
  BY FS_Interval
<1>2. SetToSeqs(T) = {q \in [1 .. k -> T] : \A i, j \in 1 .. k : i # j => q[i] # q[j]}
  BY <1>1 DEF SetToSeqs
<1>3. w \in SetToSeqs(T) /\ Increasing(w)
  <2>1. w \in [1 .. k -> T]
    OBVIOUS
  <2>2. \A i, j \in 1 .. k : i # j => w[i] # w[j]
    OBVIOUS
  <2>3. Increasing(w)
    OBVIOUS
  <2> HIDE DEF w, T
  <2> QED
    BY <1>2, <2>1, <2>2, <2>3
<1>4. ASSUME NEW q \in SetToSeqs(T), Increasing(q) PROVE q = w
  <2>1. q \in [1 .. k -> T] /\ \A i, j \in 1 .. k : i < j => q[i] < q[j]
    BY <1>2, <1>4
  <2>2. \A n \in Nat : n + 1 \in 1 .. k => q[n + 1] >= a + n
    <3> DEFINE S == {n \in Nat : n + 1 \in 1 .. k => q[n + 1] >= a + n}
    <3>1. 0 \in S
      BY <2>1
    <3>2. ASSUME NEW n \in Nat, n \in S PROVE n + 1 \in S
      <4> SUFFICES ASSUME n + 2 \in 1 .. k PROVE q[n + 2] >= a + n + 1
        OBVIOUS
      <4>1. n + 1 \in 1 .. k /\ n + 1 < n + 2
        OBVIOUS
      <4>2. q[n + 1] >= a + n
        BY <3>2, <4>1
      <4> QED
        BY <2>1, <4>1, <4>2
    <3> HIDE DEF S
    <3>3. Nat \subseteq S
      BY <3>1, <3>2, NatSetInduction
    <3> QED
      BY <3>3 DEF S
  <2>3. \A n \in Nat : k - n \in 1 .. k => q[k - n] <= a + k - 1 - n
    <3> DEFINE S == {n \in Nat : k - n \in 1 .. k => q[k - n] <= a + k - 1 - n}
    <3>1. 0 \in S
      BY <2>1
    <3>2. ASSUME NEW n \in Nat, n \in S PROVE n + 1 \in S
      <4> SUFFICES ASSUME k - (n + 1) \in 1 .. k PROVE q[k - (n + 1)] <= a + k - 1 - (n + 1)
        OBVIOUS
      <4>1. k - n \in 1 .. k /\ k - (n + 1) < k - n
        OBVIOUS
      <4>2. q[k - n] <= a + k - 1 - n
        BY <3>2, <4>1
      <4> QED
        BY <2>1, <4>1, <4>2
    <3> HIDE DEF S
    <3>3. Nat \subseteq S
      BY <3>1, <3>2, NatSetInduction
    <3> QED
      BY <3>3 DEF S
  <2>4. ASSUME NEW i \in 1 .. k PROVE q[i] = a + i - 1
    <3>1. q[i] >= a + i - 1
      <4>1. i - 1 \in Nat /\ (i - 1) + 1 = i
        OBVIOUS
      <4> QED
        BY <2>2, <4>1
    <3>2. q[i] <= a + i - 1
      <4>1. PICK n \in Nat : k - n = i /\ a + k - 1 - n = a + i - 1
        <5> WITNESS k - i \in Nat
        <5> QED
          OBVIOUS
      <4>2. k - n \in 1 .. k => q[k - n] <= a + k - 1 - n
        BY <2>3
      <4> QED
        BY <4>1, <4>2
    <3> QED
      BY <2>1, <3>1, <3>2
  <2> QED
    BY <2>1, <2>4
<1> HIDE DEF T, w
<1>5. InMapOrder(T) = w
  <2>1. InMapOrder(T) \in SetToSeqs(T) /\ Increasing(InMapOrder(T))
    BY <1>3 DEF InMapOrder
  <2> QED
    BY <1>4, <2>1
<1> QED
  BY <1>5 DEF T, w

(* The invariant behind WrittenInOrder, which needs nothing of the pipeline. *)
Listed == /\ content.last \in Nat
          /\ nextToPrint \in Nat
          /\ buffered \subseteq Nat
          /\ output = [i \in 1 .. nextToPrint |-> i - 1]

\* writeInOrderData() appends the segments up to the first gap, whatever buf holds
LEMMA WriteLists ==
  ASSUME nextToPrint \in Nat, output = [i \in 1 .. nextToPrint |-> i - 1],
         NEW buf \in SUBSET Nat, WriteInOrderData(buf)
  PROVE  /\ nextToPrint' \in Nat /\ buffered' \subseteq Nat
         /\ output' = [i \in 1 .. nextToPrint' |-> i - 1]
<1>1. CASE /\ buffered' = buf
           /\ UNCHANGED <<nextToPrint, output>>
  BY <1>1
<1>2. CASE /\ \A s \in buf : s >= nextToPrint
           /\ \E m \in {nextToPrint} \cup {s + 1 : s \in buf} :
                /\ Contiguous(buf, m) /\ ~Contiguous(buf, m + 1)
                /\ nextToPrint' = m
                /\ buffered' = {s \in buf : s >= m}
                /\ output' = output \o InMapOrder({s \in buf : s < m})
  <2>1. PICK m \in {nextToPrint} \cup {s + 1 : s \in buf} :
          /\ \A s \in nextToPrint .. m - 1 : s \in buf
          /\ nextToPrint' = m
          /\ buffered' = {s \in buf : s >= m}
          /\ output' = output \o InMapOrder({s \in buf : s < m})
    BY <1>2 DEF Contiguous
  <2>2. m \in Nat /\ m >= nextToPrint
    BY <1>2, <2>1
  <2>3. PICK k \in Nat : m = nextToPrint + k /\ nextToPrint + k - 1 = m - 1
    BY <2>2, m - nextToPrint \in Nat
  <2>4. {s \in buf : s < m} = nextToPrint .. nextToPrint + k - 1
    <3>1. \A s \in buf : s \in Nat /\ s >= nextToPrint
      BY <1>2
    <3>2. \A s \in nextToPrint .. m - 1 : s \in buf
      BY <2>1
    <3>3. \A s : s \in buf /\ s < m <=> s \in nextToPrint .. m - 1
      <4>1. \A s \in buf : s < m => s \in nextToPrint .. m - 1
        BY <2>2, <3>1
      <4>2. \A s \in nextToPrint .. m - 1 : s < m
        BY <2>2
      <4> QED
        BY <3>2, <4>1, <4>2
    <3>4. nextToPrint .. m - 1 = nextToPrint .. nextToPrint + k - 1
      BY <2>3
    <3> QED
      BY <3>3, <3>4, Zenon
  <2> DEFINE new == [i \in 1 .. k |-> nextToPrint + i - 1]
  <2>5. InMapOrder({s \in buf : s < m}) = new
    BY <2>4, IntervalInMapOrder
  <2>6. output' = output \o new
    BY <2>1, <2>5
  <2>7. output \in Seq(Nat) /\ Len(output) = nextToPrint /\ new \in Seq(Nat) /\ Len(new) = k
    <3>1. output \in [1 .. nextToPrint -> Nat] /\ new \in [1 .. k -> Nat]
      OBVIOUS
    <3> HIDE DEF new
    <3> QED
      BY <3>1, SequenceOfLength
  <2>8. output \o new = [i \in 1 .. m |-> i - 1]
    <3>1. output \o new \in Seq(Nat) /\ Len(output \o new) = m
      BY <2>3, <2>7
    <3>2. ASSUME NEW i \in 1 .. m PROVE (output \o new)[i] = i - 1
      <4>1. CASE i <= nextToPrint
        BY <2>2, <2>7, <4>1
      <4>2. CASE i > nextToPrint
        <5>1. i - nextToPrint \in 1 .. k
          BY <2>2, <2>3, <4>2
        <5>2. (output \o new)[i] = new[i - nextToPrint]
          <6> HIDE DEF new
          <6> QED
            BY <2>2, <2>3, <2>7, <4>2
        <5> QED
          BY <2>2, <2>3, <5>1, <5>2
      <4>3. i <= nextToPrint \/ i > nextToPrint
        BY <2>2
      <4> QED
        BY <4>1, <4>2, <4>3
    <3> HIDE DEF new
    <3>3. DOMAIN (output \o new) = 1 .. m /\ output \o new = [i \in DOMAIN (output \o new) |-> (output \o new)[i]]
      BY <3>1, LenProperties
    <3> QED
      BY <3>2, <3>3, Zenon
  <2> QED
    BY <2>1, <2>2, <2>6, <2>8
<1> QED
  BY <1>1, <1>2 DEF WriteInOrderData

\* so does onDataValidated(), unless it ends the program
LEMMA ValidatedLists ==
  ASSUME nextToPrint \in Nat, buffered \subseteq Nat, output = [i \in 1 .. nextToPrint |-> i - 1],
         NEW s \in Nat, NEW isNack, OnDataValidated(s, isNack)
  PROVE  /\ nextToPrint' \in Nat /\ buffered' \subseteq Nat
         /\ output' = [i \in 1 .. nextToPrint' |-> i - 1]
<1>1. CASE isNack
  BY <1>1 DEF OnDataValidated
<1>2. CASE ~isNack
  <2>1. Buffer(s) \in SUBSET Nat
    BY DEF Buffer
  <2>2. WriteInOrderData(Buffer(s))
    BY <1>2 DEF OnDataValidated
  <2> QED
    BY <2>1, <2>2, WriteLists
<1> QED
  BY <1>1, <1>2

\* no step of the consumer or of the pipeline breaks it
LEMMA StepLists == Listed /\ [ConsumerNext]_allVars => Listed'
<1> SUFFICES ASSUME Listed, [ConsumerNext]_allVars PROVE Listed'
  OBVIOUS
<1>1. ASSUME NEW c \in Contents, StartPipeline(c)
      PROVE  Listed'
  <2>1. c.last \in Nat /\ content' = c /\ c.excluded \in 0 .. c.last
    BY <1>1, ConsumerAssumption DEF Contents, ContentsTo, StartPipeline
  <2> QED
    BY <1>1, <2>1, ValidatedLists DEF Listed, StartPipeline
<1>2. ASSUME NEW s \in Segments, OnData(s)
      PROVE  Listed'
  <2>1. s \in Nat /\ content' = content
    BY <1>2 DEF Listed, Segments, OnData, Deliver
  <2> QED
    BY <1>2, <2>1, ValidatedLists DEF Listed, OnData
<1>3. CASE \/ PipelineEnds \/ OnFailure \/ Return \/ DiscoveryFails \/ UNCHANGED allVars
  <2>1. UNCHANGED <<content, nextToPrint, buffered, output>>
    BY <1>3 DEF PipelineEnds, End, OnFailure, Return, DiscoveryFails, allVars, vars, consumerVars
  <2> QED
    BY <2>1 DEF Listed
<1> QED
  BY <1>1, <1>2, <1>3 DEF ConsumerNext

\* it holds initially: nothing is written
LEMMA InitLists == ConsumerInit => Listed
  BY DEF ConsumerInit, NoContent, Listed

\* it says what WrittenInOrder says
LEMMA ListedInOrder == Listed => WrittenInOrder
  BY DEF Listed, WrittenInOrder

(* What writeInOrderData() wrote is exactly the segments below m_nextToPrint, each
   once and in order, for contents of every size, in whatever order and however
   often the pipeline hands them over. *)
THEOREM OutputInOrder == ConsumerSpec => []WrittenInOrder
  BY InitLists, StepLists, ListedInOrder, PTL DEF ConsumerSpec
=============================================================================
