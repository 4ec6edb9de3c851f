-------------------- MODULE PipelineInterestsAimd_proof --------------------
(***************************************************************************)
(* Theorems about PipelineInterestsAimd, for every set of contents, every  *)
(* window, every number of retries and every kind of network events.       *)
(***************************************************************************)
EXTENDS PipelineInterestsAimd, TLAPS, FiniteSetTheorems

\* the parts of m_segmentInfo that handlers count are finite
LEMMA CountableParts ==
  ASSUME NEW T \in SUBSET Segs
  PROVE  IsFiniteSet(T) /\ Cardinality(T) \in Nat
<1>1. MaxSegmentNo \in Nat
  BY PipelineAssumption
<1>2. IsFiniteSet(Segs)
  BY <1>1, FS_Interval DEF Segs
<1> QED
  BY <1>2, FS_Subset, FS_CardinalityType

\* a content is within the bound, and its last segment and the excluded one are segments
LEMMA ContentInSegs ==
  ASSUME content \in Contents
  PROVE  /\ content.last \in Segs /\ content.excluded \in Segs
         /\ Segments \subseteq Segs /\ Segs \subseteq Nat
  BY PipelineAssumption DEF Segs, Segments

\* the guarded decrement of m_nInFlight never makes it negative, nor raises
\* it
LEMMA MonusNat ==
  ASSUME NEW a \in Nat, NEW b \in Nat
  PROVE  Monus(a, b) \in Nat /\ Monus(a, b) <= a
  BY DEF Monus

\* the queue order checkRto() produces is a sequence of segments
LEMMA QueueOrder ==
  ASSUME NEW T \in SUBSET Segs, NEW q \in SetToSeqs(T)
  PROVE  q \in Seq(Segs) /\ \A t \in T : \E i \in 1 .. Len(q) : q[i] = t
<1> DEFINE n == Cardinality(T)
<1>1. n \in Nat /\ IsFiniteSet(T)
  BY CountableParts
<1>2. q \in [1 .. n -> T] /\ \A i, j \in 1 .. n : i # j => q[i] # q[j]
  BY DEF SetToSeqs
<1>3. q \in Injection(1 .. n, T)
  BY <1>2 DEF Injection, IsInjective
<1>4. IsFiniteSet(1 .. n) /\ Cardinality(1 .. n) = n
  BY <1>1, FS_Interval
<1>5. q \in Surjection(1 .. n, T)
  BY <1>1, <1>3, <1>4, FS_Injection
<1>6. \A t \in T : \E i \in 1 .. n : q[i] = t
  BY <1>5 DEF Surjection
<1>7. q \in Seq(T) /\ Len(q) = n
  BY <1>1, <1>2
<1>8. q \in Seq(Segs)
  BY <1>1, <1>2
<1> QED
  BY <1>6, <1>7, <1>8

-----------------------------------------------------------------------------
(* Type correctness, operator by operator *)

\* what the bounds and getNextSegmentNo() yield are natural numbers, and a
\* next segment is never below m_nextSegmentNo
LEMMA PlainNat ==
  ASSUME TypeOK
  PROVE  /\ Segs \subseteq Nat
         /\ MaxSegmentNo \in Nat
         /\ NextSegmentNo \in Nat /\ AfterSegment(NextSegmentNo) \in Nat
         /\ NextSegmentNo >= nextSegmentNo
         /\ AfterSegment(NextSegmentNo) >= nextSegmentNo
         /\ NextSegmentNo \in Segs => AfterSegment(NextSegmentNo) = NextSegmentNo + 1
  BY PipelineAssumption, ContentInSegs DEF TypeOK, NextSegmentNo, AfterSegment, Segs

\* cancel() leaves the map and the Face's table well typed
LEMMA CancelType ==
  ASSUME TypeOK, Cancel
  PROVE  /\ isStopping' \in BOOLEAN /\ info' \in [Segs -> States]
         /\ first' \in SUBSET Segs /\ resent' \in [Segs -> Nat]
         /\ avail' \in Nat /\ arriving' \in Segs \cup {None}
  BY DEF Cancel, States

\* sendInterest() for a new segment keeps the types of what it assigns
LEMMA SendFirstType ==
  ASSUME TypeOK, NEW s \in Segs, SendFirst(s)
  PROVE  /\ info' \in [Segs -> States] /\ first' \in SUBSET Segs
         /\ highInterest' \in Nat /\ nInFlight' \in Nat
<1>1. s \in Nat
  BY PlainNat
<1> QED
  BY <1>1 DEF TypeOK, SendFirst, States

\* handleFail() keeps the types, never raises m_nInFlight, and ends the loop
\* if it stops the pipeline
LEMMA HandleFailType ==
  ASSUME TypeOK, NEW s \in Segs, NEW f \in SUBSET Segs, NEW r \in [Segs -> Nat],
         HandleFail(s, f, r)
  PROVE  /\ isStopping' \in BOOLEAN /\ failure' \in {"no", "posted", "called"}
         /\ info' \in [Segs -> States]
         /\ first' \in SUBSET Segs /\ resent' \in [Segs -> Nat]
         /\ nInFlight' \in Nat /\ nInFlight' <= nInFlight
         /\ hasFailure' \in BOOLEAN /\ failedSegNo' \in Nat
         /\ isStopping' = isStopping \/ (avail' = 0 /\ arriving' = None)
<1> DEFINE above == InMapAbove(s)
<1>1. s \in Nat
  BY PlainNat
<1>2. 1 + Cardinality(above) \in Nat
  BY CountableParts DEF InMapAbove
<1>3. /\ Monus(nInFlight, 1 + Cardinality(above)) \in Nat
      /\ Monus(nInFlight, 1 + Cardinality(above)) <= nInFlight
  BY <1>2, MonusNat DEF TypeOK
<1>4. CASE OnFailure /\ UNCHANGED <<nInFlight, failVars>>
  BY <1>4, CancelType DEF TypeOK, OnFailure, Cancel, failVars
<1>5. CASE /\ first' = f /\ resent' = r
           /\ UNCHANGED <<info, nInFlight, failVars, endVars>>
  BY <1>5 DEF TypeOK, failVars, endVars
<1>6. CASE /\ info' = [t \in Segs |-> IF t >= s THEN "Absent" ELSE info[t]]
           /\ first' = f \ above /\ resent' = r
           /\ nInFlight' = Monus(nInFlight, 1 + Cardinality(above))
           /\ hasFailure' = TRUE /\ failedSegNo' = s
           /\ UNCHANGED endVars
  <2>1. info' \in [Segs -> States]
    BY <1>6 DEF TypeOK, States
  <2> QED
    BY <1>1, <1>3, <1>6, <2>1 DEF TypeOK, endVars
<1> QED
  BY <1>4, <1>5, <1>6 DEF HandleFail

\* decreaseWindow() leaves a window
LEMMA DecreaseWindowType ==
  ASSUME TypeOK, DecreaseWindow
  PROVE  window' \in Windows
  BY WindowAssumption DEF TypeOK, DecreaseWindow

\* increaseWindow() leaves a window
LEMMA IncreaseWindowType ==
  ASSUME TypeOK, IncreaseWindow
  PROVE  window' \in Windows /\ recPoint' \in Nat
  BY WindowAssumption DEF TypeOK, IncreaseWindow

\* what schedulePackets() sends and what is in flight fit in the window
\* together
LEMMA SchedulePacketsType ==
  ASSUME NEW w \in Nat, NEW n \in Nat, SchedulePackets(w, n)
  PROVE  avail' \in Nat /\ (avail' > 0 => avail' + n <= w)
  BY DEF SchedulePackets, Monus

\* handleTimeout() keeps the types, never raises m_nInFlight, and starts a
\* loop that fits in the window
LEMMA HandleTimeoutType ==
  ASSUME TypeOK, NEW count \in Nat, HandleTimeout(count)
  PROVE  /\ window' \in Windows /\ recPoint' \in Nat
         /\ nInFlight' \in Nat /\ nInFlight' <= nInFlight
         /\ avail' \in Nat /\ (avail' > 0 => avail' + nInFlight' <= Cwnd(window'))
<1>1. window' \in Windows /\ recPoint' \in Nat
  BY DecreaseWindowType DEF TypeOK, HandleTimeout, windVars
<1>2. nInFlight' \in Nat /\ nInFlight' <= nInFlight
  BY MonusNat DEF TypeOK, HandleTimeout
<1>3. SchedulePackets(Cwnd(window'), nInFlight')
  BY DEF HandleTimeout
<1>4. Cwnd(window') \in Nat
  BY <1>1, WindowAssumption
<1> QED
  BY <1>1, <1>2, <1>3, <1>4, SchedulePacketsType

\* an Interest leaving the Face keeps its table well typed
LEMMA TakeOneType ==
  ASSUME TypeOK, NEW s \in Segs, Pending(s)
  PROVE  FirstWithout(s) \in SUBSET Segs /\ ResentWithout(s) \in [Segs -> Nat]
  BY DEF TypeOK, Pending, FirstWithout, ResentWithout

-----------------------------------------------------------------------------
(* Type correctness: one lemma per action. The loop of schedulePackets() runs
   only in a running pipeline: an exhausted retransmission cancels either the
   pipeline, and the loop with it, or neither. *)

LoopRunning == avail > 0 => started /\ ~isStopping

\* a segment that passes the early returns of sendInterest() is within the
\* bound
LEMMA MaySendFirstSeg ==
  ASSUME TypeOK, NEW known, NEW last, MaySendFirst(NextSegmentNo, known, last)
  PROVE  NextSegmentNo \in Segs
  BY PlainNat DEF MaySendFirst, Segs

\* run() keeps the types
LEMMA RunType ==
  ASSUME TypeOK, Run
  PROVE  TypeOK'
<1> DEFINE known == content.excluded \in content.final
           last  == IF known THEN content.last ELSE 0
           s     == NextSegmentNo
<1>1. content.last \in Nat /\ content.excluded \in Segs
  BY ContentInSegs DEF TypeOK
<1>2. /\ started' = TRUE /\ hasFinalBlockId' = known /\ lastSegmentNo' = last
      /\ nReceived' = 1 /\ delivered' = {content.excluded} /\ nextSegmentNo' = AfterSegment(s)
      /\ UNCHANGED <<content, endVars, retxQueue, retxCount, failVars, windVars, highData,
                     avail, resent, arriving>>
  BY DEF Run
<1>3. /\ info' \in [Segs -> States] /\ first' \in SUBSET Segs
      /\ highInterest' \in Nat /\ nInFlight' \in Nat
  <2>1. CASE MaySendFirst(s, known, last) /\ SendFirst(s)
    BY <2>1, MaySendFirstSeg, SendFirstType
  <2>2. CASE UNCHANGED <<info, first, highInterest, nInFlight>>
    BY <2>2 DEF TypeOK
  <2> QED
    BY <2>1, <2>2 DEF Run
<1>4. nextSegmentNo' \in Nat
  BY <1>2, PlainNat
<1> QED
  BY <1>1, <1>2, <1>3, <1>4 DEF TypeOK, endVars, failVars, windVars

\* requesting the next segment keeps the types
LEMMA SendNextType ==
  ASSUME TypeOK, SendNext
  PROVE  TypeOK'
<1> DEFINE s == NextSegmentNo
<1>1. /\ info' \in [Segs -> States] /\ first' \in SUBSET Segs
      /\ highInterest' \in Nat /\ nInFlight' \in Nat
  <2>1. CASE MaySendFirst(s, hasFinalBlockId, lastSegmentNo) /\ SendFirst(s)
    BY <2>1, MaySendFirstSeg, SendFirstType
  <2>2. CASE UNCHANGED <<info, first, highInterest, nInFlight>>
    BY <2>2 DEF TypeOK
  <2> QED
    BY <2>1, <2>2 DEF SendNext
<1>2. nextSegmentNo' \in Nat
  BY PlainNat DEF SendNext
<1>3. avail' \in Nat
  BY DEF TypeOK, SendNext
<1> QED
  BY <1>1, <1>2, <1>3 DEF TypeOK, SendNext, finalVars, endVars, failVars, windVars

\* dropping a queued segment that is no longer in the map keeps the types
LEMMA SkipRetxType ==
  ASSUME TypeOK, SkipRetx
  PROVE  TypeOK'
<1>1. retxQueue' \in Seq(Segs)
  BY DEF TypeOK, SkipRetx
<1> QED
  BY <1>1 DEF TypeOK, SkipRetx, finalVars, endVars, failVars, windVars, highVars, netVars

\* a retransmission, or the failure it ends in, keeps the types
LEMMA RetransmitType ==
  ASSUME TypeOK, LoopRunning, Retransmit
  PROVE  TypeOK'
<1> DEFINE s == Head(retxQueue)
           n == retxCount[s] + 1
           exhausted == n > 1 /\ n > MaxRetries
<1>1. s \in Segs /\ retxQueue' \in Seq(Segs)
  BY DEF TypeOK, Retransmit
<1>2. retxCount' \in [Segs -> Nat]
  BY <1>1 DEF TypeOK, Retransmit
<1>3. /\ isStopping' \in BOOLEAN /\ failure' \in {"no", "posted", "called"}
      /\ info' \in [Segs -> States]
      /\ first' \in SUBSET Segs /\ resent' \in [Segs -> Nat]
      /\ nInFlight' \in Nat
      /\ hasFailure' \in BOOLEAN /\ failedSegNo' \in Nat
      /\ avail' \in Nat /\ arriving' \in Segs \cup {None}
  <2>1. CASE ~exhausted
    <3>1. /\ info' = [info EXCEPT ![s] = "Retransmitted"]
          /\ first' = first \ {s}
          /\ resent' = [resent EXCEPT ![s] = @ + 1]
          /\ nInFlight' = nInFlight + 1
          /\ avail' = avail - 1 /\ avail > 0
          /\ UNCHANGED <<endVars, failVars, arriving>>
      BY <2>1 DEF Retransmit, Withdraw
    <3> QED
      BY <1>1, <3>1 DEF TypeOK, States, endVars, failVars
  <2>2. CASE exhausted
    <3>1. /\ HandleFail(s, first, resent) /\ avail > 0
          /\ isStopping' \/ (avail' = avail - 1 /\ UNCHANGED arriving)
      BY <2>2 DEF Retransmit
    <3> ~isStopping
      BY <3>1 DEF LoopRunning, TypeOK
    <3>2. /\ isStopping' \in BOOLEAN /\ failure' \in {"no", "posted", "called"}
          /\ info' \in [Segs -> States]
          /\ first' \in SUBSET Segs /\ resent' \in [Segs -> Nat]
          /\ nInFlight' \in Nat
          /\ hasFailure' \in BOOLEAN /\ failedSegNo' \in Nat
          /\ isStopping' = isStopping \/ (avail' = 0 /\ arriving' = None)
      BY <1>1, <3>1, HandleFailType DEF TypeOK
    <3> QED
      BY <3>1, <3>2 DEF TypeOK
  <2> QED
    BY <2>1, <2>2
<1> QED
  BY <1>1, <1>2, <1>3 DEF TypeOK, Retransmit, finalVars, windVars, highVars

\* checkRto() keeps the types
LEMMA CheckRtoType ==
  ASSUME TypeOK, NEW s \in Segs, CheckRto(s)
  PROVE  TypeOK'
<1>1. PICK T \in SUBSET Timed :
        /\ \E q \in SetToSeqs(T) : retxQueue' = retxQueue \o q
        /\ info' = [t \in Segs |-> IF t \in T THEN "InRetxQueue" ELSE info[t]]
        /\ HandleTimeout(Cardinality(T))
  BY DEF CheckRto
<1>2. T \in SUBSET Segs
  BY DEF Timed
<1>3. PICK q \in SetToSeqs(T) : retxQueue' = retxQueue \o q
  BY <1>1
<1>4. retxQueue' \in Seq(Segs)
  <2>1. retxQueue \in Seq(Segs)
    BY DEF TypeOK
  <2>2. q \in Seq(Segs)
    BY <1>2, QueueOrder
  <2> QED
    BY <1>3, <2>1, <2>2
<1>5. info' \in [Segs -> States]
  BY <1>1 DEF TypeOK, States
<1>6. /\ window' \in Windows /\ recPoint' \in Nat
      /\ nInFlight' \in Nat /\ avail' \in Nat
  BY <1>1, <1>2, CountableParts, HandleTimeoutType
<1> QED
  BY <1>4, <1>5, <1>6 DEF TypeOK, CheckRto, finalVars, endVars, failVars, highVars, netVars

\* putting a segment in the retransmission queue keeps the types
LEMMA RequeueType ==
  ASSUME TypeOK, NEW s \in Segs, Pending(s), TakeOne(s), Requeue(s), Unanswered(s)
  PROVE  TypeOK'
<1>1. first' \in SUBSET Segs /\ resent' \in [Segs -> Nat]
  BY TakeOneType DEF TakeOne
<1>2. retxQueue' \in Seq(Segs) /\ info' \in [Segs -> States]
  BY DEF TypeOK, Requeue, States
<1>3. /\ window' \in Windows /\ recPoint' \in Nat
      /\ nInFlight' \in Nat /\ avail' \in Nat
  BY HandleTimeoutType DEF Requeue
<1> QED
  BY <1>1, <1>2, <1>3 DEF TypeOK, Requeue, Unanswered, endVars, failVars, finalVars, highVars

\* handleLifetimeExpiration() keeps the types
LEMMA HandleLifetimeExpirationType ==
  ASSUME TypeOK, NEW s \in Segs, HandleLifetimeExpiration(s)
  PROVE  TypeOK'
  BY RequeueType DEF HandleLifetimeExpiration, TakeOne

\* handleNack() keeps the types
LEMMA HandleNackType ==
  ASSUME TypeOK, NEW s \in Segs, HandleNack(s)
  PROVE  TypeOK'
<1>1. Unanswered(s)
  BY DEF HandleNack
<1>2. CASE /\ TakeOne(s)
           /\ UNCHANGED <<endVars, failVars, windVars, retxQueue, info, nInFlight, avail>>
  <2>1. first' \in SUBSET Segs /\ resent' \in [Segs -> Nat]
    BY <1>2, TakeOneType DEF TakeOne
  <2> QED
    BY <1>1, <1>2, <2>1 DEF TypeOK, Unanswered, endVars, failVars, windVars, finalVars, highVars
<1>3. CASE TakeOne(s) /\ Requeue(s)
  BY <1>1, <1>3, RequeueType DEF TakeOne
<1>4. CASE /\ Pending(s) /\ HandleFail(s, FirstWithout(s), ResentWithout(s))
           /\ avail' = 0
           /\ UNCHANGED <<windVars, retxQueue>>
  <2>1. FirstWithout(s) \in SUBSET Segs /\ ResentWithout(s) \in [Segs -> Nat]
    BY <1>4, TakeOneType
  <2>2. /\ isStopping' \in BOOLEAN /\ failure' \in {"no", "posted", "called"}
        /\ info' \in [Segs -> States]
        /\ first' \in SUBSET Segs /\ resent' \in [Segs -> Nat]
        /\ nInFlight' \in Nat
        /\ hasFailure' \in BOOLEAN /\ failedSegNo' \in Nat
    BY <1>4, <2>1, HandleFailType
  <2> QED
    BY <1>1, <1>4, <2>2 DEF TypeOK, Unanswered, windVars, finalVars, highVars
<1> QED
  BY <1>2, <1>3, <1>4 DEF HandleNack

-----------------------------------------------------------------------------
(* handleData() of segment s, case by case *)

Learn(s) == ~hasFinalBlockId /\ s \in content.final
EndOf(s) == IF Learn(s) THEN content.last ELSE lastSegmentNo
Above(s) == IF Learn(s) THEN InMapAbove(EndOf(s)) ELSE {}
Base(s)  == Monus(nInFlight, Cardinality(Above(s)))
Kept(s)  == [t \in Segs |-> IF t \in Above(s) THEN "Absent" ELSE info[t]]
StateOf(s) == IF InMap(s) \/ IgnoresUnknown THEN info[s] ELSE "FirstTimeSent"

GoesOn(s) ==
  /\ first' = FirstWithout(s) \ Above(s) /\ resent' = ResentWithout(s)
  /\ arriving' = s
  /\ UNCHANGED <<isStopping, failure>>

EndDisproved(s) ==
  OnFailure /\ UNCHANGED <<nInFlight, nReceived, failVars, windVars, highData, delivered>>

Accepted(s) ==
  /\ hasFailure' = (hasFailure /\ ~Learn(s))
  /\ highData' = AtLeast(highData, s)
  /\ UNCHANGED <<failedSegNo, failure>>

SecondCopy(s) ==
  /\ Accepted(s) /\ GoesOn(s)
  /\ info' = [Kept(s) EXCEPT ![s] = "Absent"]
  /\ nInFlight' = Base(s)
  /\ UNCHANGED <<nReceived, windVars, avail, delivered>>

FirstCopy(s) ==
  /\ Accepted(s)
  /\ nReceived' = nReceived + 1
  /\ nInFlight' = IF StateOf(s) = "InRetxQueue" THEN Base(s) ELSE Monus(Base(s), 1)
  /\ delivered' = delivered \cup {s}
  /\ IncreaseWindow

NotLast(s) ==
  /\ info' = [Kept(s) EXCEPT ![s] = StateAfterData(StateOf(s))]
  /\ SchedulePackets(Cwnd(window'), nInFlight')
  /\ GoesOn(s)

\* handleData() either reports a failure, ignores a second copy, ends the
\* pipeline or goes on
LEMMA HandleDataCases ==
  ASSUME NEW s \in Segs, HandleData(s)
  PROVE  /\ started /\ ~isStopping /\ avail = 0
         /\ s \in Segments /\ Pending(s)
         /\ hasFinalBlockId' = (hasFinalBlockId \/ Learn(s)) /\ lastSegmentNo' = EndOf(s)
         /\ \/ EndDisproved(s)
            \/ SecondCopy(s)
            \/ FirstCopy(s) /\ Cancel
            \/ FirstCopy(s) /\ NotLast(s)
         /\ UNCHANGED <<content, started, retxQueue, retxCount, nextSegmentNo, highInterest>>
  BY DEF HandleData, Calm, EndDisproved, SecondCopy, FirstCopy, NotLast, Accepted, GoesOn,
         Learn, EndOf, Above, Base, Kept, StateOf

\* the counts and the map left by cancelInFlightSegmentsGreaterThan() are
\* well typed
LEMMA BaseType ==
  ASSUME TypeOK, NEW s \in Segs
  PROVE  /\ EndOf(s) \in Nat
         /\ Base(s) \in Nat /\ Base(s) <= nInFlight
         /\ Monus(Base(s), 1) \in Nat /\ Monus(Base(s), 1) <= nInFlight
         /\ Kept(s) \in [Segs -> States]
<1>1. Cardinality(Above(s)) \in Nat
  BY CountableParts DEF Above, InMapAbove
<1>2. Base(s) \in Nat /\ Base(s) <= nInFlight
  BY <1>1, MonusNat DEF TypeOK, Base
<1>3. Monus(Base(s), 1) \in Nat /\ Monus(Base(s), 1) <= Base(s)
  BY <1>2, MonusNat
<1>4. EndOf(s) \in Nat
  BY ContentInSegs DEF TypeOK, EndOf
<1>5. Kept(s) \in [Segs -> States]
  BY DEF TypeOK, Kept, States
<1> QED
  BY <1>2, <1>3, <1>4, <1>5 DEF TypeOK

\* handleData() keeps the types
LEMMA HandleDataType ==
  ASSUME TypeOK, NEW s \in Segs, HandleData(s)
  PROVE  TypeOK'
<1>1. /\ Pending(s)
      /\ hasFinalBlockId' = (hasFinalBlockId \/ Learn(s)) /\ lastSegmentNo' = EndOf(s)
      /\ UNCHANGED <<content, started, retxQueue, retxCount, nextSegmentNo, highInterest>>
  BY HandleDataCases
<1>2. hasFinalBlockId' \in BOOLEAN /\ lastSegmentNo' \in Nat
  BY <1>1, BaseType DEF TypeOK, Learn
<1>3. FirstWithout(s) \ Above(s) \in SUBSET Segs /\ ResentWithout(s) \in [Segs -> Nat]
  BY <1>1, TakeOneType
<1>4. Accepted(s) => /\ hasFailure' \in BOOLEAN /\ highData' \in Nat
                     /\ failedSegNo' \in Nat /\ UNCHANGED failure
  BY PlainNat DEF TypeOK, Accepted, AtLeast
<1>5. FirstCopy(s) => /\ nReceived' \in Nat /\ nInFlight' \in Nat
                      /\ delivered' \in SUBSET Segs
                      /\ window' \in Windows /\ recPoint' \in Nat
  BY BaseType, IncreaseWindowType DEF TypeOK, FirstCopy
<1>6. CASE EndDisproved(s)
  BY <1>1, <1>2, <1>6, CancelType DEF TypeOK, EndDisproved, OnFailure, failVars, windVars
<1>7. CASE SecondCopy(s)
  <2>1. info' \in [Segs -> States]
    BY <1>7, BaseType DEF SecondCopy, States
  <2> QED
    BY <1>1, <1>2, <1>3, <1>4, <1>7, <2>1, BaseType DEF TypeOK, SecondCopy, GoesOn, windVars
<1>8. CASE FirstCopy(s) /\ Cancel
  BY <1>1, <1>2, <1>4, <1>5, <1>8, CancelType DEF TypeOK, FirstCopy
<1>9. CASE FirstCopy(s) /\ NotLast(s)
  <2>1. info' \in [Segs -> States]
    BY <1>9, BaseType DEF NotLast, StateAfterData, States
  <2>2. Cwnd(window') \in Nat
    BY <1>5, <1>9, WindowAssumption
  <2>3. avail' \in Nat
    BY <1>5, <1>9, <2>2, SchedulePacketsType DEF NotLast
  <2> QED
    BY <1>1, <1>2, <1>3, <1>4, <1>5, <1>9, <2>1, <2>3 DEF TypeOK, FirstCopy, NotLast, GoesOn
<1> QED
  BY <1>6, <1>7, <1>8, <1>9, HandleDataCases

\* the initial state is well typed
LEMMA InitType == Init => TypeOK /\ LoopRunning
<1> SUFFICES ASSUME Init PROVE TypeOK /\ LoopRunning
  OBVIOUS
<1>1. /\ info \in [Segs -> States] /\ retxCount \in [Segs -> Nat] /\ resent \in [Segs -> Nat]
  BY DEF Init, States
<1>2. retxQueue \in Seq(Segs)
  BY DEF Init
<1>3. window \in Windows
  BY WindowAssumption DEF Init
<1>4. first \in SUBSET Segs /\ delivered \in SUBSET Segs /\ arriving \in Segs \cup {None}
  BY DEF Init
<1>5. /\ content \in Contents /\ started \in BOOLEAN /\ hasFinalBlockId \in BOOLEAN
      /\ isStopping \in BOOLEAN /\ failure \in {"no", "posted", "called"}
      /\ hasFailure \in BOOLEAN
  BY DEF Init
<1>6. /\ lastSegmentNo \in Nat /\ nextSegmentNo \in Nat /\ nInFlight \in Nat /\ nReceived \in Nat
      /\ failedSegNo \in Nat /\ highData \in Nat /\ highInterest \in Nat /\ recPoint \in Nat
      /\ avail \in Nat
  BY DEF Init
<1>7. LoopRunning
  BY DEF Init, LoopRunning
<1> QED
  BY <1>1, <1>2, <1>3, <1>4, <1>5, <1>6, <1>7 DEF TypeOK

\* no step breaks the types
LEMMA StepType ==
  ASSUME TypeOK, LoopRunning, [Next]_vars
  PROVE  TypeOK'
<1>1. CASE Run
  BY <1>1, RunType
<1>2. CASE SendNext
  BY <1>2, SendNextType
<1>3. CASE SkipRetx
  BY <1>3, SkipRetxType
<1>4. CASE Retransmit
  BY <1>4, RetransmitType
<1>5. ASSUME NEW s \in Segs,
             CheckRto(s) \/ HandleLifetimeExpiration(s) \/ HandleNack(s) \/ HandleData(s)
      PROVE  TypeOK'
  BY <1>5, CheckRtoType, HandleLifetimeExpirationType, HandleNackType, HandleDataType
<1>6. CASE CallOnFailure
  BY <1>6 DEF CallOnFailure, TypeOK, finalVars, failVars, windVars, highVars, netVars
<1>7. CASE UNCHANGED vars
  BY <1>7 DEF vars, TypeOK, finalVars, endVars, failVars, windVars, highVars, netVars
<1> QED
  BY <1>1, <1>2, <1>3, <1>4, <1>5, <1>6, <1>7 DEF Next

-----------------------------------------------------------------------------
(* The running loop and the window *)

WindowInv == LoopRunning /\ LoopInWindow

\* after handleTimeout() the loop fits in the window
LEMMA RequeueWindow ==
  ASSUME TypeOK, NEW count \in Nat, HandleTimeout(count)
  PROVE  LoopInWindow' /\ nInFlight' <= nInFlight
  BY HandleTimeoutType DEF LoopInWindow

\* no step lets the running loop exceed the window, or raises m_nInFlight
\* above it
LEMMA StepWindow ==
  ASSUME TypeOK, WindowInv, [Next]_vars
  PROVE  /\ WindowInv'
         /\ started /\ nInFlight' > nInFlight => nInFlight' <= Cwnd(window)
<1> USE DEF WindowInv
<1>1. CASE Run
  BY <1>1 DEF Run, LoopRunning, LoopInWindow, TypeOK
<1>2. CASE SendNext
  <2>1. nInFlight' \in {nInFlight, nInFlight + 1} /\ avail' = avail - 1 /\ window' = window /\ avail > 0
    BY <1>2 DEF SendNext, SendFirst, windVars
  <2>2. Cwnd(window) \in Nat
    BY WindowAssumption DEF TypeOK
  <2>3. UNCHANGED <<started, isStopping>>
    BY <1>2 DEF SendNext, endVars
  <2>4. LoopRunning'
    BY <2>1, <2>3 DEF LoopRunning
  <2>5. avail \in Nat /\ nInFlight \in Nat
    BY DEF TypeOK
  <2>6. avail + nInFlight <= Cwnd(window)
    BY <2>1 DEF LoopInWindow
  <2>7. nInFlight' = nInFlight \/ nInFlight' = nInFlight + 1
    BY <2>1
  <2>8. avail' + nInFlight' <= Cwnd(window') /\ (nInFlight' > nInFlight => nInFlight' <= Cwnd(window))
    <3>1. CASE nInFlight' = nInFlight
      BY <2>1, <2>2, <2>5, <2>6, <3>1
    <3>2. CASE nInFlight' = nInFlight + 1
      BY <2>1, <2>2, <2>5, <2>6, <3>2
    <3> QED
      BY <2>7, <3>1, <3>2
  <2> QED
    BY <2>4, <2>8 DEF LoopInWindow
<1>3. CASE SkipRetx
  BY <1>3 DEF SkipRetx, endVars, windVars, LoopRunning, LoopInWindow, TypeOK
<1>4. CASE Retransmit
  <2> DEFINE s == Head(retxQueue)
  <2>1. avail > 0 /\ UNCHANGED <<started, window>> /\ Cwnd(window) \in Nat
    BY <1>4, WindowAssumption DEF Retransmit, windVars, TypeOK
  <2>2. CASE nInFlight' = nInFlight + 1 /\ avail' = avail - 1 /\ UNCHANGED isStopping
    BY <2>1, <2>2 DEF LoopRunning, LoopInWindow, TypeOK
  <2>3. CASE /\ HandleFail(s, first, resent)
             /\ isStopping' \/ avail' = avail - 1
    <3>1. s \in Segs
      BY <1>4 DEF Retransmit, TypeOK
    <3>2. /\ nInFlight' \in Nat /\ nInFlight' <= nInFlight
          /\ isStopping' = isStopping \/ avail' = 0
      BY <2>3, <3>1, HandleFailType DEF TypeOK
    <3>3. isStopping = FALSE
      BY <2>1 DEF LoopRunning, TypeOK
    <3>4. avail' = 0 \/ (avail' = avail - 1 /\ isStopping' = FALSE)
      BY <2>3, <3>2, <3>3
    <3> QED
      BY <2>1, <3>2, <3>3, <3>4 DEF LoopRunning, LoopInWindow, TypeOK
  <2> QED
    BY <1>4, <2>2, <2>3 DEF Retransmit, endVars
<1>5. ASSUME NEW s \in Segs, CheckRto(s)
      PROVE  WindowInv' /\ nInFlight' <= nInFlight
  <2>1. PICK T \in SUBSET Timed : HandleTimeout(Cardinality(T))
    BY <1>5 DEF CheckRto
  <2>2. Cardinality(T) \in Nat
    BY CountableParts DEF Timed
  <2>3. LoopInWindow' /\ nInFlight' <= nInFlight
    BY <2>1, <2>2, RequeueWindow
  <2> QED
    BY <1>5, <2>3 DEF CheckRto, Calm, endVars, LoopRunning
<1>6. ASSUME NEW s \in Segs, HandleLifetimeExpiration(s)
      PROVE  WindowInv' /\ nInFlight' <= nInFlight
  BY <1>6, RequeueWindow
     DEF HandleLifetimeExpiration, Requeue, Unanswered, Calm, endVars, LoopRunning
<1>7. ASSUME NEW s \in Segs, HandleNack(s)
      PROVE  WindowInv' /\ nInFlight' <= nInFlight
  <2>1. Calm /\ UNCHANGED started
    BY <1>7 DEF HandleNack, Unanswered
  <2>2. CASE UNCHANGED <<endVars, failVars, windVars, retxQueue, info, nInFlight, avail>>
    BY <2>1, <2>2 DEF Calm, endVars, windVars, LoopRunning, LoopInWindow, TypeOK
  <2>3. CASE Requeue(s)
    BY <2>1, <2>3, RequeueWindow DEF Requeue, Calm, endVars, LoopRunning
  <2>4. CASE /\ Pending(s) /\ HandleFail(s, FirstWithout(s), ResentWithout(s))
             /\ avail' = 0
    <3>1. FirstWithout(s) \in SUBSET Segs /\ ResentWithout(s) \in [Segs -> Nat]
      BY <2>4, TakeOneType
    <3>2. nInFlight' <= nInFlight
      BY <2>4, <3>1, HandleFailType
    <3> QED
      BY <2>4, <3>2 DEF LoopRunning, LoopInWindow
  <2> QED
    BY <1>7, <2>2, <2>3, <2>4 DEF HandleNack
<1>8. ASSUME NEW s \in Segs, HandleData(s)
      PROVE  WindowInv' /\ nInFlight' <= nInFlight
  <2>1. started /\ ~isStopping /\ avail = 0 /\ UNCHANGED started
    BY <1>8, HandleDataCases
  <2>2. CASE EndDisproved(s)
    BY <2>2 DEF EndDisproved, OnFailure, Cancel, LoopRunning, LoopInWindow, TypeOK
  <2>3. CASE SecondCopy(s)
    BY <2>1, <2>3, BaseType DEF SecondCopy, GoesOn, LoopRunning, LoopInWindow
  <2>4. CASE FirstCopy(s) /\ Cancel
    BY <2>4, BaseType DEF FirstCopy, Cancel, LoopRunning, LoopInWindow
  <2>5. CASE FirstCopy(s) /\ NotLast(s)
    <3>1. nInFlight' \in Nat /\ nInFlight' <= nInFlight
      BY <2>5, BaseType DEF FirstCopy
    <3>2. Cwnd(window') \in Nat
      BY <2>5, IncreaseWindowType, WindowAssumption DEF FirstCopy
    <3>3. LoopInWindow'
      BY <2>5, <3>1, <3>2, SchedulePacketsType DEF NotLast, LoopInWindow
    <3> QED
      BY <2>1, <2>5, <3>1, <3>3 DEF NotLast, GoesOn, LoopRunning
  <2> QED
    BY <1>8, <2>2, <2>3, <2>4, <2>5, HandleDataCases
<1>9. CASE CallOnFailure
  BY <1>9 DEF CallOnFailure, windVars, LoopRunning, LoopInWindow, TypeOK
<1>10. CASE UNCHANGED vars
  BY <1>10 DEF vars, endVars, windVars, LoopRunning, LoopInWindow, TypeOK
<1>11. ASSUME WindowInv' /\ nInFlight' <= nInFlight
       PROVE  /\ WindowInv'
              /\ started /\ nInFlight' > nInFlight => nInFlight' <= Cwnd(window)
  <2>1. TypeOK'
    BY StepType
  <2> QED
    BY <1>11, <2>1 DEF TypeOK
<1> QED
  BY <1>1, <1>2, <1>3, <1>4, <1>5, <1>6, <1>7, <1>8, <1>9, <1>10, <1>11 DEF Next

-----------------------------------------------------------------------------
(* The Interests and the queue. Only segments below m_nextSegmentNo are in the
   map or pending, so a segment requested for the first time has no Interest
   of its own left; and once known the end is that of the content, so
   handleFail() never leaves a segment of the content marked but not queued. *)

EndRight == hasFinalBlockId => lastSegmentNo = content.last
RequestedBelowNext == \A s \in Segs : InMap(s) \/ Pending(s) => s < nextSegmentNo
QueueInv == EndRight /\ RequestedBelowNext /\ RecordedOrResent /\ RetxQueueCovers

\* the invariant of the queue holds initially
LEMMA InitQueue == Init => QueueInv
<1> SUFFICES ASSUME Init PROVE QueueInv
  OBVIOUS
<1>1. Segments \subseteq Segs
  BY ContentInSegs DEF Init
<1>2. RetxQueueCovers
  BY <1>1 DEF Init, RetxQueueCovers
<1> QED
  BY <1>2 DEF Init, QueueInv, EndRight, RequestedBelowNext, RecordedOrResent, InMap, Pending

\* an emptied map and an emptied table satisfy the invariant of the queue
LEMMA CancelQueue ==
  ASSUME Cancel, content' = content
  PROVE  RequestedBelowNext' /\ RecordedOrResent' /\ (content \in Contents => RetxQueueCovers')
<1>1. content \in Contents => Segments \subseteq Segs
  BY ContentInSegs
<1>2. content \in Contents => \A s \in Segments : info'[s] # "InRetxQueue"
  BY <1>1 DEF Cancel
<1> QED
  BY <1>2 DEF Cancel, RequestedBelowNext, RecordedOrResent, RetxQueueCovers, InMap, Pending, Segments

\* a segment requested for the first time has no Interest pending and no
\* entry in the map
LEMMA SendFirstQueue ==
  ASSUME TypeOK, QueueInv, NextSegmentNo \in Segs, SendFirst(NextSegmentNo),
         nextSegmentNo' = AfterSegment(NextSegmentNo),
         UNCHANGED <<content, resent, retxQueue>>
  PROVE  RequestedBelowNext' /\ RecordedOrResent' /\ RetxQueueCovers'
<1> DEFINE s == NextSegmentNo
<1>1. nextSegmentNo <= s /\ nextSegmentNo' = s + 1 /\ s \in Nat /\ nextSegmentNo \in Nat
      /\ Segs \subseteq Nat
  BY PlainNat DEF TypeOK
<1>2. ~InMap(s) /\ ~Pending(s)
  BY <1>1 DEF QueueInv, RequestedBelowNext
<1>3. info' = [info EXCEPT ![s] = "FirstTimeSent"] /\ first' = first \cup {s}
  BY <1>2 DEF SendFirst, InMap, TypeOK
<1>4. resent[s] = 0
  BY <1>2 DEF Pending, TypeOK
<1>5. RecordedOrResent'
  BY <1>3, <1>4 DEF QueueInv, RecordedOrResent
<1>6. RequestedBelowNext'
  <2> SUFFICES ASSUME NEW t \in Segs, InMap(t)' \/ Pending(t)'
               PROVE  t < nextSegmentNo'
    BY DEF RequestedBelowNext
  <2>1. CASE t = s
    BY <1>1, <2>1
  <2>2. CASE t # s
    <3>1. InMap(t) \/ Pending(t)
      BY <1>3, <2>2 DEF InMap, Pending, TypeOK
    <3> QED
      BY <1>1, <3>1 DEF QueueInv, RequestedBelowNext
  <2> QED
    BY <2>1, <2>2
<1>7. RetxQueueCovers'
  BY <1>3 DEF QueueInv, RetxQueueCovers, Segments, TypeOK
<1> QED
  BY <1>5, <1>6, <1>7

\* how the members of a queue change
InQueue(q, t) == \E i \in 1 .. Len(q) : q[i] = t

\* push_back keeps the members of a queue and adds one
LEMMA AppendKeeps ==
  ASSUME NEW q \in Seq(Segs), NEW x \in Segs, NEW t, InQueue(q, t) \/ t = x
  PROVE  InQueue(Append(q, x), t)
<1>1. CASE InQueue(q, t)
  <2>1. PICK i \in 1 .. Len(q) : q[i] = t
    BY <1>1 DEF InQueue
  <2>2. i \in 1 .. Len(Append(q, x)) /\ Append(q, x)[i] = t
    BY <2>1
  <2> QED
    BY <2>2 DEF InQueue
<1>2. CASE t = x
  <2>1. Len(q) + 1 \in 1 .. Len(Append(q, x)) /\ Append(q, x)[Len(q) + 1] = t
    BY <1>2
  <2> QED
    BY <2>1 DEF InQueue
<1> QED
  BY <1>1, <1>2

\* joining the queue keeps the members of both
LEMMA ConcatKeeps ==
  ASSUME NEW q \in Seq(Segs), NEW p \in Seq(Segs), NEW t, InQueue(q, t) \/ InQueue(p, t)
  PROVE  InQueue(q \o p, t)
<1>1. CASE InQueue(q, t)
  <2>1. PICK i \in 1 .. Len(q) : q[i] = t
    BY <1>1 DEF InQueue
  <2>2. i \in 1 .. Len(q \o p) /\ (q \o p)[i] = t
    BY <2>1
  <2> QED
    BY <2>2 DEF InQueue
<1>2. CASE InQueue(p, t)
  <2>1. PICK i \in 1 .. Len(p) : p[i] = t
    BY <1>2 DEF InQueue
  <2>2. Len(q) + i \in 1 .. Len(q \o p) /\ (q \o p)[Len(q) + i] = t
    BY <2>1
  <2> QED
    BY <2>2 DEF InQueue
<1> QED
  BY <1>1, <1>2

\* pop_front drops the head only
LEMMA TailKeeps ==
  ASSUME NEW q \in Seq(Segs), q # << >>, NEW t, InQueue(q, t), t # Head(q)
  PROVE  InQueue(Tail(q), t)
<1>1. PICK i \in 1 .. Len(q) : q[i] = t
  BY DEF InQueue
<1>2. i # 1
  BY <1>1
<1>3. i - 1 \in 1 .. Len(Tail(q)) /\ Tail(q)[i - 1] = t
  BY <1>1, <1>2
<1> QED
  BY <1>3 DEF InQueue

\* an Interest that leaves the Face
LEMMA TakeOneQueue ==
  ASSUME TypeOK, RecordedOrResent, NEW s \in Segs, Pending(s)
  PROVE  /\ FirstWithout(s) \subseteq first
         /\ \A t \in Segs : ResentWithout(s)[t] > 0 => resent[t] > 0
         /\ \A t \in FirstWithout(s) : ResentWithout(s)[t] = 0
  BY DEF TypeOK, RecordedOrResent, Pending, FirstWithout, ResentWithout

\* handleFail() takes the failed segment out of the map, or it lies beyond the content
LEMMA HandleFailQueue ==
  ASSUME TypeOK, QueueInv, NEW s \in Segs, NEW f \in SUBSET first, NEW r \in [Segs -> Nat],
         \A t \in Segs : r[t] > 0 => resent[t] > 0,
         \A t \in f : r[t] = 0,
         HandleFail(s, f, r),
         UNCHANGED <<content, finalVars, nextSegmentNo>>
  PROVE  /\ EndRight' /\ RequestedBelowNext' /\ RecordedOrResent'
         /\ \A t \in Segments : info'[t] = "InRetxQueue" => info[t] = "InRetxQueue" /\ t # s
<1> USE DEF QueueInv
<1>1. EndRight' /\ Segments \subseteq Segs /\ Segs \subseteq Nat
  BY ContentInSegs DEF EndRight, finalVars, TypeOK
<1>2. CASE OnFailure
  <2>1. RequestedBelowNext' /\ RecordedOrResent'
    BY <1>2, CancelQueue DEF OnFailure
  <2>2. \A t \in Segments : info'[t] # "InRetxQueue"
    BY <1>1, <1>2 DEF OnFailure, Cancel
  <2> QED
    BY <1>1, <2>1, <2>2
<1>3. CASE /\ hasFinalBlockId /\ s > lastSegmentNo
           /\ first' = f /\ resent' = r /\ UNCHANGED info
  <2>1. s \notin Segments
    BY <1>1, <1>3 DEF EndRight, Segments, TypeOK
  <2>2. RequestedBelowNext' /\ RecordedOrResent'
    BY <1>3 DEF RequestedBelowNext, RecordedOrResent, InMap, Pending
  <2> QED
    BY <1>1, <1>3, <2>1, <2>2
<1>4. CASE /\ info' = [t \in Segs |-> IF t >= s THEN "Absent" ELSE info[t]]
           /\ first' = f \ InMapAbove(s) /\ resent' = r
  <2>1. \A t \in Segs : info'[t] # "Absent" => info[t] # "Absent"
    BY <1>4
  <2>2. RequestedBelowNext' /\ RecordedOrResent'
    BY <1>4, <2>1 DEF RequestedBelowNext, RecordedOrResent, InMap, Pending
  <2>3. \A t \in Segments : info'[t] = "InRetxQueue" => info[t] = "InRetxQueue" /\ t # s
    BY <1>1, <1>4
  <2> QED
    BY <1>1, <2>2, <2>3
<1> QED
  BY <1>2, <1>3, <1>4 DEF HandleFail

\* run() preserves the invariant of the queue
LEMMA RunQueue ==
  ASSUME TypeOK, QueueInv, Run
  PROVE  QueueInv'
<1> DEFINE s == NextSegmentNo
<1>1. /\ UNCHANGED <<content, resent, retxQueue>> /\ nextSegmentNo' = AfterSegment(s)
      /\ hasFinalBlockId' => lastSegmentNo' = content.last
  BY DEF Run
<1>2. CASE s \in Segs /\ SendFirst(s)
  BY <1>1, <1>2, SendFirstQueue DEF QueueInv, EndRight
<1>3. CASE UNCHANGED <<info, first, highInterest, nInFlight>>
  BY <1>1, <1>3, PlainNat
     DEF TypeOK, QueueInv, EndRight, RequestedBelowNext, RecordedOrResent, RetxQueueCovers,
         InMap, Pending, Segments
<1> QED
  BY <1>2, <1>3, MaySendFirstSeg DEF Run

\* requesting the next segment preserves the invariant of the queue
LEMMA SendNextQueue ==
  ASSUME TypeOK, QueueInv, SendNext
  PROVE  QueueInv'
<1> DEFINE s == NextSegmentNo
<1>1. /\ UNCHANGED <<content, resent, retxQueue, finalVars>>
      /\ nextSegmentNo' = AfterSegment(s)
  BY DEF SendNext
<1>2. EndRight'
  BY <1>1 DEF QueueInv, EndRight, finalVars
<1>3. CASE s \in Segs /\ SendFirst(s)
  BY <1>1, <1>2, <1>3, SendFirstQueue DEF QueueInv
<1>4. CASE UNCHANGED <<info, first, highInterest, nInFlight>>
  BY <1>1, <1>2, <1>4, PlainNat
     DEF TypeOK, QueueInv, RequestedBelowNext, RecordedOrResent, RetxQueueCovers,
         InMap, Pending, Segments
<1> QED
  BY <1>3, <1>4, MaySendFirstSeg DEF SendNext

\* dropping a queued segment that is no longer in the map preserves the
\* invariant of the queue
LEMMA SkipRetxQueue ==
  ASSUME TypeOK, QueueInv, SkipRetx
  PROVE  QueueInv'
<1>1. UNCHANGED <<content, info, nextSegmentNo, first, resent, hasFinalBlockId, lastSegmentNo>>
  BY DEF SkipRetx, netVars, finalVars
<1>2. RetxQueueCovers'
  <2> SUFFICES ASSUME NEW t \in Segments, info[t] = "InRetxQueue"
               PROVE  InQueue(retxQueue', t)
    BY <1>1 DEF RetxQueueCovers, InQueue, Segments
  <2>1. InQueue(retxQueue, t)
    BY DEF QueueInv, RetxQueueCovers, InQueue
  <2>2. t # Head(retxQueue)
    BY DEF SkipRetx, InMap
  <2> QED
    BY <2>1, <2>2, TailKeeps DEF SkipRetx, TypeOK
<1> QED
  BY <1>1, <1>2 DEF QueueInv, EndRight, RequestedBelowNext, RecordedOrResent, InMap, Pending

\* a retransmission takes its segment out of the queue and out of the state
\* InRetxQueue
LEMMA RetransmitQueue ==
  ASSUME TypeOK, QueueInv, Retransmit
  PROVE  QueueInv'
<1> DEFINE s == Head(retxQueue)
<1>1. /\ s \in Segs /\ InMap(s) /\ retxQueue # << >> /\ retxQueue' = Tail(retxQueue)
      /\ UNCHANGED <<content, finalVars, nextSegmentNo>>
  BY DEF TypeOK, Retransmit
<1>2. /\ EndRight' /\ RequestedBelowNext' /\ RecordedOrResent'
      /\ \A t \in Segments : info'[t] = "InRetxQueue" => info[t] = "InRetxQueue" /\ t # s
  <2>1. CASE /\ info' = [info EXCEPT ![s] = "Retransmitted"]
             /\ first' = Withdraw(s)
             /\ resent' = [resent EXCEPT ![s] = @ + 1]
    <3>1. first' = first \ {s}
      BY <2>1 DEF Withdraw
    <3>2. RequestedBelowNext'
      BY <1>1, <2>1, <3>1 DEF TypeOK, QueueInv, RequestedBelowNext, InMap, Pending
    <3>3. EndRight' /\ RecordedOrResent'
      BY <1>1, <2>1, <3>1 DEF TypeOK, QueueInv, EndRight, RecordedOrResent, finalVars
    <3>4. Segments \subseteq Segs
      BY ContentInSegs DEF TypeOK
    <3>5. \A t \in Segments : info'[t] = "InRetxQueue" => info[t] = "InRetxQueue" /\ t # s
      BY <1>1, <2>1, <3>4 DEF TypeOK
    <3> QED
      BY <3>2, <3>3, <3>5
  <2>2. CASE HandleFail(s, first, resent)
    <3>1. /\ \A t \in Segs : resent[t] > 0 => resent[t] > 0
          /\ \A t \in first : resent[t] = 0
      BY DEF QueueInv, RecordedOrResent
    <3> QED
      BY <1>1, <2>2, <3>1, HandleFailQueue DEF TypeOK
  <2> QED
    BY <2>1, <2>2 DEF Retransmit
<1>3. RetxQueueCovers'
  <2> SUFFICES ASSUME NEW t \in Segments, info'[t] = "InRetxQueue"
               PROVE  InQueue(retxQueue', t)
    BY <1>1 DEF RetxQueueCovers, InQueue, Segments
  <2>1. InQueue(retxQueue, t) /\ t # s
    BY <1>2 DEF QueueInv, RetxQueueCovers, InQueue
  <2> QED
    BY <1>1, <2>1, TailKeeps DEF TypeOK
<1> QED
  BY <1>2, <1>3 DEF QueueInv

\* checkRto() queues every segment it marks, in whatever order
LEMMA CheckRtoQueue ==
  ASSUME TypeOK, QueueInv, NEW s \in Segs, CheckRto(s)
  PROVE  QueueInv'
<1>1. PICK T \in SUBSET Timed :
        /\ \E q \in SetToSeqs(T) : retxQueue' = retxQueue \o q
        /\ info' = [t \in Segs |-> IF t \in T THEN "InRetxQueue" ELSE info[t]]
  BY DEF CheckRto
<1>2. PICK q \in SetToSeqs(T) : retxQueue' = retxQueue \o q
  BY <1>1
<1>3. T \in SUBSET Segs /\ Segments \subseteq Segs
  BY ContentInSegs DEF Timed, TypeOK
<1>4. q \in Seq(Segs) /\ \A t \in T : InQueue(q, t)
  BY <1>3, QueueOrder DEF InQueue
<1>5. UNCHANGED <<content, nextSegmentNo, first, resent, hasFinalBlockId, lastSegmentNo>>
  BY DEF CheckRto, netVars, finalVars
<1>6. RetxQueueCovers'
  <2> SUFFICES ASSUME NEW t \in Segments, info'[t] = "InRetxQueue"
               PROVE  InQueue(retxQueue', t)
    BY <1>5 DEF RetxQueueCovers, InQueue, Segments
  <2>1. InQueue(retxQueue, t) \/ InQueue(q, t)
    BY <1>1, <1>3, <1>4 DEF QueueInv, RetxQueueCovers, InQueue
  <2> QED
    BY <1>2, <1>4, <2>1, ConcatKeeps DEF TypeOK
<1>7. \A t \in Segs : InMap(t)' => InMap(t)
  BY <1>1 DEF InMap, Timed
<1> QED
  BY <1>5, <1>6, <1>7 DEF QueueInv, EndRight, RequestedBelowNext, RecordedOrResent, Pending

\* a nacked or expired segment is marked and queued
LEMMA RequeueQueue ==
  ASSUME TypeOK, QueueInv, NEW s \in Segs, TakeOne(s), Requeue(s), Unanswered(s)
  PROVE  QueueInv'
<1>1. /\ retxQueue' = Append(retxQueue, s) /\ info' = [info EXCEPT ![s] = "InRetxQueue"]
      /\ Pending(s) /\ first' = FirstWithout(s) /\ resent' = ResentWithout(s)
      /\ UNCHANGED <<content, nextSegmentNo, hasFinalBlockId, lastSegmentNo>>
  BY DEF Requeue, TakeOne, Unanswered, finalVars
<1>2. /\ FirstWithout(s) \subseteq first
      /\ \A t \in Segs : ResentWithout(s)[t] > 0 => resent[t] > 0
      /\ \A t \in FirstWithout(s) : ResentWithout(s)[t] = 0
  BY <1>1, TakeOneQueue DEF QueueInv
<1>3. RetxQueueCovers'
  <2> SUFFICES ASSUME NEW t \in Segments, info'[t] = "InRetxQueue"
               PROVE  InQueue(retxQueue', t)
    BY <1>1 DEF RetxQueueCovers, InQueue, Segments
  <2>1. Segments \subseteq Segs
    BY ContentInSegs DEF TypeOK
  <2>2. InQueue(retxQueue, t) \/ t = s
    BY <1>1, <2>1 DEF TypeOK, QueueInv, RetxQueueCovers, InQueue
  <2> QED
    BY <1>1, <2>2, AppendKeeps DEF TypeOK
<1>4. RequestedBelowNext' /\ RecordedOrResent'
  BY <1>1, <1>2 DEF TypeOK, QueueInv, RequestedBelowNext, RecordedOrResent, InMap, Pending
<1> QED
  BY <1>1, <1>3, <1>4 DEF QueueInv, EndRight

\* handleNack() preserves the invariant of the queue
LEMMA HandleNackQueue ==
  ASSUME TypeOK, QueueInv, NEW s \in Segs, HandleNack(s)
  PROVE  QueueInv'
<1>1. Unanswered(s) /\ UNCHANGED <<content, nextSegmentNo, finalVars>>
  BY DEF HandleNack, Unanswered
<1>2. ASSUME Pending(s)
      PROVE  /\ FirstWithout(s) \subseteq first /\ ResentWithout(s) \in [Segs -> Nat]
             /\ \A t \in Segs : ResentWithout(s)[t] > 0 => resent[t] > 0
             /\ \A t \in FirstWithout(s) : ResentWithout(s)[t] = 0
  BY <1>2, TakeOneQueue, TakeOneType DEF QueueInv
<1>3. CASE TakeOne(s) /\ UNCHANGED <<retxQueue, info>>
  BY <1>1, <1>2, <1>3
     DEF TakeOne, QueueInv, EndRight, RequestedBelowNext, RecordedOrResent, RetxQueueCovers,
         InMap, Pending, Segments, finalVars
<1>4. CASE TakeOne(s) /\ Requeue(s)
  BY <1>1, <1>4, RequeueQueue
<1>5. CASE /\ Pending(s) /\ HandleFail(s, FirstWithout(s), ResentWithout(s))
           /\ UNCHANGED retxQueue
  <2>1. /\ EndRight' /\ RequestedBelowNext' /\ RecordedOrResent'
        /\ \A t \in Segments : info'[t] = "InRetxQueue" => info[t] = "InRetxQueue" /\ t # s
    BY <1>1, <1>2, <1>5, HandleFailQueue
  <2> QED
    BY <1>1, <1>5, <2>1 DEF QueueInv, RetxQueueCovers, Segments
<1> QED
  BY <1>3, <1>4, <1>5 DEF HandleNack

\* handleData() marks no segment and preserves the invariant of the queue
LEMMA HandleDataQueue ==
  ASSUME TypeOK, QueueInv, NEW s \in Segs, HandleData(s)
  PROVE  QueueInv'
<1>1. /\ Pending(s) /\ s \in Segments
      /\ hasFinalBlockId' = (hasFinalBlockId \/ Learn(s)) /\ lastSegmentNo' = EndOf(s)
      /\ UNCHANGED <<content, retxQueue, nextSegmentNo>>
  BY HandleDataCases
<1>2. EndRight'
  BY <1>1 DEF QueueInv, EndRight, EndOf
<1>3. /\ FirstWithout(s) \subseteq first
      /\ \A t \in Segs : ResentWithout(s)[t] > 0 => resent[t] > 0
      /\ \A t \in FirstWithout(s) : ResentWithout(s)[t] = 0
  BY <1>1, TakeOneQueue DEF QueueInv
<1>4. CASE Cancel
  BY <1>1, <1>2, <1>4, CancelQueue DEF QueueInv, TypeOK
<1>5. ASSUME NEW x \in {"Absent", "RetxReceived"},
             GoesOn(s), info' = [Kept(s) EXCEPT ![s] = x]
      PROVE  QueueInv'
  <2>1. \A t \in Segs : info'[t] # "Absent" => info[t] # "Absent" \/ t = s
    BY <1>5 DEF Kept
  <2>2. \A t \in Segs : info'[t] = "InRetxQueue" => info[t] = "InRetxQueue"
    BY <1>5 DEF Kept
  <2>3. Segments \subseteq Segs
    BY ContentInSegs DEF TypeOK
  <2>4. RetxQueueCovers'
    BY <1>1, <2>2, <2>3 DEF QueueInv, RetxQueueCovers, Segments
  <2>5. first' \subseteq FirstWithout(s) /\ resent' = ResentWithout(s)
    BY <1>5 DEF GoesOn
  <2>6. RequestedBelowNext'
    BY <1>1, <1>3, <2>1, <2>5 DEF QueueInv, RequestedBelowNext, InMap, Pending
  <2>7. RecordedOrResent'
    BY <1>3, <2>5 DEF RecordedOrResent
  <2> QED
    BY <1>2, <2>4, <2>6, <2>7 DEF QueueInv
<1> QED
  BY <1>4, <1>5, HandleDataCases
     DEF EndDisproved, OnFailure, SecondCopy, FirstCopy, NotLast, StateAfterData

\* no step breaks the invariant of the queue
LEMMA StepQueue ==
  ASSUME TypeOK, QueueInv, [Next]_vars
  PROVE  QueueInv'
<1>1. CASE Run
  BY <1>1, RunQueue
<1>2. CASE SendNext
  BY <1>2, SendNextQueue
<1>3. CASE SkipRetx
  BY <1>3, SkipRetxQueue
<1>4. CASE Retransmit
  BY <1>4, RetransmitQueue
<1>5. ASSUME NEW s \in Segs,
             CheckRto(s) \/ HandleLifetimeExpiration(s) \/ HandleNack(s) \/ HandleData(s)
      PROVE  QueueInv'
  BY <1>5, CheckRtoQueue, RequeueQueue, HandleNackQueue, HandleDataQueue
     DEF HandleLifetimeExpiration
<1>6. CASE CallOnFailure
  BY <1>6
     DEF CallOnFailure, QueueInv, EndRight, RequestedBelowNext, RecordedOrResent, RetxQueueCovers,
         InMap, Pending, Segments, finalVars, netVars
<1>7. CASE UNCHANGED vars
  BY <1>7
     DEF vars, QueueInv, EndRight, RequestedBelowNext, RecordedOrResent, RetxQueueCovers,
         InMap, Pending, Segments, finalVars, netVars
<1> QED
  BY <1>1, <1>2, <1>3, <1>4, <1>5, <1>6, <1>7 DEF Next

-----------------------------------------------------------------------------
(* The inductive invariant. LoopInWindow needs LoopRunning, for run() sends
   without looking at the window; RecordedOrResent needs RequestedBelowNext and
   RetxQueueCovers needs EndRight; TypeOK is needed throughout. *)

IInv == TypeOK /\ WindowInv /\ QueueInv

\* the inductive invariant holds at the start
LEMMA InitIInv == Init => IInv
  BY InitType, InitQueue DEF Init, IInv, WindowInv, LoopInWindow

\* the inductive invariant holds in every behaviour
THEOREM Inductive == Spec => []IInv
<1>1. IInv /\ [Next]_vars => IInv'
  BY StepType, StepWindow, StepQueue DEF IInv, WindowInv
<1> QED
  BY InitIInv, <1>1, PTL DEF Spec

(* Every variable keeps its type, whatever the network does: m_nInFlight, the
   other counters and the window are never negative. *)
THEOREM TypeCorrect == Spec => []TypeOK
<1>1. IInv => TypeOK
  BY DEF IInv
<1> QED
  BY <1>1, Inductive, PTL

(* The loop of schedulePackets() never has more to send than the window allows
   on top of what the pipeline counts as in flight. *)
THEOREM LoopKeepsWindow == Spec => []LoopInWindow
<1>1. IInv => LoopInWindow
  BY DEF IInv, WindowInv
<1> QED
  BY <1>1, Inductive, PTL

(* No step of a running pipeline raises m_nInFlight above the window. *)
THEOREM InFlightWithinWindow == Spec => WindowRespected
<1>1. IInv /\ [Next]_vars => [started /\ nInFlight' > nInFlight => nInFlight' <= Cwnd(window)]_vars
  BY StepWindow DEF IInv
<1> QED
  BY <1>1, Inductive, PTL DEF Spec, WindowRespected

(* A segment of the content marked InRetxQueue is always in m_retxQueue. *)
THEOREM QueueCoversMarked == Spec => []RetxQueueCovers
<1>1. IInv => RetxQueueCovers
  BY DEF IInv, QueueInv
<1> QED
  BY <1>1, Inductive, PTL

(* A segment whose recorded Interest is pending has no other Interest pending. *)
THEOREM OneRecordedInterest == Spec => []RecordedOrResent
<1>1. IInv => RecordedOrResent
  BY DEF IInv, QueueInv
<1> QED
  BY <1>1, Inductive, PTL

-----------------------------------------------------------------------------
(* handleData() once more, with what decides between its cases *)

Ignored == {"RetxReceived", "Absent"}

(* What handleData leaves: nothing, or the answered segment taken off every list. *)
LEMMA HandleDataStates ==
  ASSUME NEW s \in Segs, HandleData(s)
  PROVE  \/ EndDisproved(s)
         \/ /\ Learn(s) /\ hasFailure => ~(EndOf(s) >= failedSegNo)
            /\ \/ SecondCopy(s) /\ StateOf(s) \in Ignored
               \/ /\ FirstCopy(s) /\ StateOf(s) \notin Ignored
                  /\ \/ Cancel /\ AllReceived(hasFinalBlockId', nReceived', EndOf(s))
                     \/ NotLast(s)
  BY DEF HandleData, EndDisproved, SecondCopy, FirstCopy, NotLast, Accepted, GoesOn,
         Learn, EndOf, Above, Base, Kept, StateOf, Ignored

-----------------------------------------------------------------------------
(* What was stepped past. A segment that is neither delivered nor watched was
   erased by handleFail(), which leaves a trace in m_failedSegNo: the failure is
   still set aside, or a FinalBlockId below m_failedSegNo has revoked it. *)

Watched(s) == info[s] \in {"FirstTimeSent", "InRetxQueue", "Retransmitted"}
NoneFailed == ~hasFailure /\ failedSegNo = 0

BeforeRun == ~started => /\ nextSegmentNo = 0 /\ ~isStopping /\ failure = "no" /\ NoneFailed
                         /\ delivered = {} /\ nReceived = 0
FailureStops == failure # "no" => isStopping
ReceivedInMap == \A s \in Segs : info[s] = "RetxReceived" => s \in delivered
DiscoveredFirst == started => content.excluded \in delivered
SteppedPast ==
  started /\ ~isStopping /\ NoneFailed =>
    \A s \in Segments : s < nextSegmentNo /\ s \notin delivered => Watched(s)
EndKnownNoneFailed == content.excluded \in content.final => NoneFailed /\ (started => hasFinalBlockId)
PastInv == /\ BeforeRun /\ FailureStops /\ ReceivedInMap /\ DiscoveredFirst /\ SteppedPast
           /\ EndKnownNoneFailed

\* a step that steps past no segment and stops watching none preserves PastInv
LEMMA StillWatched ==
  ASSUME TypeOK, PastInv, started, UNCHANGED <<content, started, nextSegmentNo>>,
         delivered \subseteq delivered',
         ~isStopping' => ~isStopping,
         failure' # "no" => isStopping',
         NoneFailed' => NoneFailed,
         hasFinalBlockId => hasFinalBlockId',
         hasFinalBlockId => UNCHANGED failedSegNo /\ (hasFailure' => hasFailure),
         ~isStopping' /\ NoneFailed' =>
           \A s \in Segments : Watched(s) => s \in delivered' \/ Watched(s)',
         \A s \in Segs : info'[s] = "RetxReceived" => info[s] = "RetxReceived" \/ s \in delivered'
  PROVE  PastInv'
<1>1. BeforeRun' /\ FailureStops' /\ DiscoveredFirst'
  BY DEF PastInv, BeforeRun, FailureStops, DiscoveredFirst
<1>2. ReceivedInMap'
  BY DEF PastInv, ReceivedInMap
<1>3. SteppedPast'
  <2> SUFFICES ASSUME ~isStopping', NoneFailed', NEW s \in Segments, s < nextSegmentNo,
                      s \notin delivered'
               PROVE  Watched(s)'
    BY DEF SteppedPast, Segments
  <2>1. Watched(s)
    BY DEF PastInv, SteppedPast
  <2> QED
    BY <2>1
<1>4. EndKnownNoneFailed'
  BY DEF PastInv, EndKnownNoneFailed, NoneFailed
<1> QED
  BY <1>1, <1>2, <1>3, <1>4 DEF PastInv

\* cancel() leaves nothing to watch
LEMMA CancelPast ==
  ASSUME TypeOK, PastInv, started, UNCHANGED <<content, started, nextSegmentNo, failVars>>,
         delivered \subseteq delivered', hasFinalBlockId => hasFinalBlockId', Cancel
  PROVE  PastInv'
<1>1. isStopping' /\ \A s \in Segs : info'[s] = "Absent"
  BY DEF Cancel
<1> QED
  BY <1>1, StillWatched DEF NoneFailed, failVars

\* sendInterest() for the next segment: it is watched from now on
LEMMA SendFirstPast ==
  ASSUME TypeOK, QueueInv, NextSegmentNo \in Segs, SendFirst(NextSegmentNo)
  PROVE  info' = [info EXCEPT ![NextSegmentNo] = "FirstTimeSent"]
<1> DEFINE s == NextSegmentNo
<1>1. nextSegmentNo <= s /\ s \in Nat /\ nextSegmentNo \in Nat
  BY PlainNat DEF TypeOK
<1>2. ~InMap(s)
  BY <1>1 DEF QueueInv, RequestedBelowNext
<1> QED
  BY <1>2 DEF SendFirst, InMap, TypeOK

\* what getNextSegmentNo() steps past, besides the segment it returns, is the
\* segment of version discovery
LEMMA OneSteppedPast ==
  ASSUME TypeOK, NEW t \in Segs, t < AfterSegment(NextSegmentNo), ~(t < nextSegmentNo)
  PROVE  t = NextSegmentNo \/ t = content.excluded
<1>1. t \in Nat /\ nextSegmentNo \in Nat /\ MaxSegmentNo \in Nat /\ t <= MaxSegmentNo
  BY PipelineAssumption DEF TypeOK, Segs
<1>2. \/ NextSegmentNo = nextSegmentNo
      \/ NextSegmentNo = nextSegmentNo + 1 /\ nextSegmentNo = content.excluded
  BY DEF NextSegmentNo
<1>3. AfterSegment(NextSegmentNo) \in {NextSegmentNo, NextSegmentNo + 1}
  BY DEF AfterSegment
<1> HIDE DEF NextSegmentNo, AfterSegment
<1> QED
  BY <1>1, <1>2, <1>3

\* run() steps past what it sends and what version discovery received
LEMMA RunPast ==
  ASSUME TypeOK, QueueInv, PastInv, Run
  PROVE  PastInv'
<1> DEFINE known == content.excluded \in content.final
           last == IF known THEN content.last ELSE 0
           s == NextSegmentNo
<1>1. /\ ~started /\ started' = TRUE /\ delivered' = {content.excluded}
      /\ hasFinalBlockId' = known /\ nextSegmentNo' = AfterSegment(s)
      /\ UNCHANGED <<content, endVars, failVars>>
  BY DEF Run
<1>2. nextSegmentNo = 0 /\ ~isStopping /\ failure = "no" /\ NoneFailed /\ delivered = {}
  BY <1>1 DEF PastInv, BeforeRun
<1>3. content \in Contents /\ Segments \subseteq Segs /\ Segs \subseteq Nat
  BY ContentInSegs DEF TypeOK
<1>4. \A t \in Segs : info[t] # "RetxReceived"
  BY <1>2 DEF PastInv, ReceivedInMap
<1>5. \/ MaySendFirst(s, known, last) /\ SendFirst(s)
      \/ ~MaySendFirst(s, known, last) /\ UNCHANGED info
  BY DEF Run
<1>6. \A t \in Segs : info'[t] # "RetxReceived"
  BY <1>4, <1>5, MaySendFirstSeg, SendFirstPast DEF TypeOK
<1>7. SteppedPast'
  <2> SUFFICES ASSUME NEW t \in Segments, t < AfterSegment(s), t # content.excluded
               PROVE  info'[t] = "FirstTimeSent"
    BY <1>1 DEF SteppedPast, Watched, Segments
  <2>1. ~(t < nextSegmentNo)
    BY <1>2, <1>3
  <2>2. t = s
    BY <1>3, <2>1, OneSteppedPast
  <2>3. MaySendFirst(s, known, last)
    <3>1. t <= content.last /\ t <= MaxSegmentNo
      BY <1>3 DEF Segments, Segs
    <3>2. content.last \in Nat /\ t \in Nat /\ MaxSegmentNo \in Nat
      BY <1>3, PipelineAssumption
    <3> QED
      BY <1>2, <2>2, <3>1, <3>2 DEF MaySendFirst, NoneFailed
  <2>4. info' = [info EXCEPT ![s] = "FirstTimeSent"] /\ s \in Segs
    BY <1>5, <2>3, MaySendFirstSeg, SendFirstPast
  <2> QED
    BY <2>2, <2>4 DEF TypeOK
<1>8. NoneFailed' /\ ~isStopping' /\ failure' = "no"
  BY <1>1, <1>2 DEF NoneFailed, endVars, failVars
<1> QED
  BY <1>1, <1>6, <1>7, <1>8
  DEF PastInv, BeforeRun, FailureStops, ReceivedInMap, DiscoveredFirst, EndKnownNoneFailed

\* so does an iteration of schedulePackets()
LEMMA SendNextPast ==
  ASSUME TypeOK, LoopRunning, QueueInv, PastInv, SendNext
  PROVE  PastInv'
<1> DEFINE s == NextSegmentNo
<1>1. /\ started /\ ~isStopping /\ nextSegmentNo' = AfterSegment(s)
      /\ UNCHANGED <<content, started, finalVars, endVars, failVars, delivered>>
  BY DEF SendNext, LoopRunning, TypeOK
<1>2. content \in Contents /\ Segments \subseteq Segs /\ Segs \subseteq Nat
  BY ContentInSegs DEF TypeOK
<1>3. \/ MaySendFirst(s, hasFinalBlockId, lastSegmentNo) /\ SendFirst(s)
      \/ ~MaySendFirst(s, hasFinalBlockId, lastSegmentNo) /\ UNCHANGED info
  BY DEF SendNext
<1>4. \/ s \in Segs /\ info' = [info EXCEPT ![s] = "FirstTimeSent"]
      \/ ~MaySendFirst(s, hasFinalBlockId, lastSegmentNo) /\ UNCHANGED info
  BY <1>3, MaySendFirstSeg, SendFirstPast
<1>5. ReceivedInMap'
  BY <1>1, <1>4 DEF TypeOK, PastInv, ReceivedInMap
<1>6. SteppedPast'
  <2> SUFFICES ASSUME NoneFailed, NEW t \in Segments, t < AfterSegment(s), t \notin delivered
               PROVE  info'[t] \in {"FirstTimeSent", "InRetxQueue", "Retransmitted"}
    BY <1>1 DEF SteppedPast, Watched, Segments, NoneFailed, failVars
  <2>1. CASE t < nextSegmentNo
    <3>1. Watched(t)
      BY <1>1, <2>1 DEF PastInv, SteppedPast
    <3> QED
      BY <1>2, <1>4, <3>1 DEF TypeOK, Watched
  <2>2. CASE ~(t < nextSegmentNo)
    <3>1. t = s
      BY <1>1, <1>2, <2>2, OneSteppedPast DEF PastInv, DiscoveredFirst
    <3>2. MaySendFirst(s, hasFinalBlockId, lastSegmentNo)
      <4>1. t <= content.last /\ t <= MaxSegmentNo
        BY <1>2 DEF Segments, Segs
      <4>2. content.last \in Nat /\ t \in Nat /\ MaxSegmentNo \in Nat
        BY <1>2, PipelineAssumption
      <4> QED
        BY <3>1, <4>1, <4>2 DEF MaySendFirst, NoneFailed, QueueInv, EndRight
    <3> QED
      BY <1>4, <3>1, <3>2 DEF TypeOK
  <2> QED
    BY <2>1, <2>2
<1> QED
  BY <1>1, <1>5, <1>6
  DEF PastInv, BeforeRun, FailureStops, DiscoveredFirst, EndKnownNoneFailed, NoneFailed,
      endVars, failVars, finalVars

\* handleFail() stops the pipeline, sets the failure aside, or does nothing
LEMMA HandleFailPast ==
  ASSUME TypeOK, PastInv, started, ~isStopping, NEW s \in Segs, NEW f, NEW r,
         HandleFail(s, f, r),
         UNCHANGED <<content, started, finalVars, nextSegmentNo, delivered>>
  PROVE  PastInv'
<1>1. UNCHANGED <<hasFinalBlockId, nextSegmentNo>>
  BY DEF finalVars
<1>2. failure = "no"
  BY DEF PastInv, FailureStops
<1>3. CASE OnFailure /\ UNCHANGED failVars
  BY <1>1, <1>3, CancelPast DEF OnFailure
<1>4. CASE UNCHANGED <<info, failVars, endVars>>
  BY <1>1, <1>2, <1>4, StillWatched DEF failVars, endVars, NoneFailed, Watched
<1>5. CASE /\ ~hasFinalBlockId /\ hasFailure' = TRUE /\ failedSegNo' = s
           /\ info' = [t \in Segs |-> IF t >= s THEN "Absent" ELSE info[t]]
           /\ UNCHANGED endVars
  <2>1. ~NoneFailed'
    BY <1>5 DEF NoneFailed
  <2>2. \A t \in Segs : info'[t] = "RetxReceived" => info[t] = "RetxReceived"
    BY <1>5
  <2> QED
    BY <1>1, <1>2, <1>5, <2>1, <2>2, StillWatched DEF endVars
<1> QED
  BY <1>3, <1>4, <1>5 DEF HandleFail

\* a segment that is queued again is watched
LEMMA RequeuePast ==
  ASSUME TypeOK, PastInv, Calm, NEW s \in Segs, Requeue(s), Unanswered(s)
  PROVE  PastInv'
<1>1. /\ started /\ ~isStopping /\ failure = "no"
      /\ info' = [info EXCEPT ![s] = "InRetxQueue"]
      /\ UNCHANGED <<content, started, hasFinalBlockId, nextSegmentNo, delivered, isStopping, failure>>
      /\ UNCHANGED failVars
  BY DEF Calm, Requeue, Unanswered, endVars, finalVars, PastInv, FailureStops
<1>2. /\ \A t \in Segs : info'[t] \in {info[t], "InRetxQueue"}
      /\ Segments \subseteq Segs
  BY <1>1, ContentInSegs DEF TypeOK
<1>3. \A t \in Segments : Watched(t) => Watched(t)'
  BY <1>2 DEF Watched
<1> QED
  BY <1>1, <1>2, <1>3, StillWatched DEF failVars, NoneFailed

\* so are those whose timers expired
LEMMA CheckRtoPast ==
  ASSUME TypeOK, PastInv, NEW s \in Segs, CheckRto(s)
  PROVE  PastInv'
<1>1. /\ started /\ ~isStopping /\ failure = "no"
      /\ UNCHANGED <<content, started, hasFinalBlockId, nextSegmentNo, delivered, isStopping, failure>>
      /\ UNCHANGED failVars
  BY DEF CheckRto, Calm, endVars, finalVars, PastInv, FailureStops
<1>2. /\ \A t \in Segs : info'[t] \in {info[t], "InRetxQueue"}
      /\ Segments \subseteq Segs
  BY ContentInSegs DEF CheckRto, TypeOK
<1>3. \A t \in Segments : Watched(t) => Watched(t)'
  BY <1>2 DEF Watched
<1> QED
  BY <1>1, <1>2, <1>3, StillWatched DEF failVars, NoneFailed

\* an iteration that retransmits, or finds the retries exhausted
LEMMA RetransmitPast ==
  ASSUME TypeOK, LoopRunning, PastInv, Retransmit
  PROVE  PastInv'
<1> DEFINE s == Head(retxQueue)
<1>1. /\ s \in Segs /\ started /\ ~isStopping /\ failure = "no"
      /\ UNCHANGED <<content, started, finalVars, nextSegmentNo, delivered>>
  BY DEF TypeOK, Retransmit, LoopRunning, PastInv, FailureStops
<1>2. CASE info' = [info EXCEPT ![s] = "Retransmitted"] /\ UNCHANGED <<endVars, failVars>>
  <2>1. /\ \A t \in Segs : info'[t] \in {info[t], "Retransmitted"}
        /\ Segments \subseteq Segs
    BY <1>1, <1>2, ContentInSegs DEF TypeOK
  <2>2. \A t \in Segments : Watched(t) => Watched(t)'
    BY <2>1 DEF Watched
  <2> QED
    BY <1>1, <1>2, <2>1, <2>2, StillWatched DEF failVars, endVars, finalVars, NoneFailed
<1>3. CASE HandleFail(s, first, resent)
  BY <1>1, <1>3, HandleFailPast
<1> QED
  BY <1>2, <1>3 DEF Retransmit

\* a Nack is ignored, queues its segment again or fails it
LEMMA HandleNackPast ==
  ASSUME TypeOK, PastInv, NEW s \in Segs, HandleNack(s)
  PROVE  PastInv'
<1>1. /\ Calm /\ Unanswered(s) /\ started /\ ~isStopping /\ failure = "no"
      /\ UNCHANGED <<content, started, finalVars, nextSegmentNo, delivered>>
  BY DEF HandleNack, Calm, Unanswered, PastInv, FailureStops
<1>2. CASE UNCHANGED <<endVars, failVars, info>>
  BY <1>1, <1>2, StillWatched DEF failVars, endVars, finalVars, NoneFailed, Watched
<1>3. CASE Requeue(s)
  BY <1>1, <1>3, RequeuePast
<1>4. CASE HandleFail(s, FirstWithout(s), ResentWithout(s))
  BY <1>1, <1>4, HandleFailPast
<1> QED
  BY <1>2, <1>3, <1>4 DEF HandleNack

\* Data: its segment is delivered now or was before, and what it erases lies
\* beyond the content
LEMMA HandleDataPast ==
  ASSUME TypeOK, QueueInv, PastInv, NEW s \in Segs, HandleData(s)
  PROVE  PastInv'
<1>1. /\ started /\ ~isStopping /\ s \in Segments /\ Pending(s)
      /\ hasFinalBlockId' = (hasFinalBlockId \/ Learn(s))
      /\ UNCHANGED <<content, started, nextSegmentNo>>
  BY HandleDataCases
<1>2. failure = "no" /\ Segments \subseteq Segs /\ Segs \subseteq Nat
  BY <1>1, ContentInSegs DEF PastInv, FailureStops, TypeOK
<1>3. CASE EndDisproved(s)
  BY <1>1, <1>3, CancelPast DEF EndDisproved, OnFailure
<1>4. ASSUME Accepted(s), Learn(s) /\ hasFailure => ~(EndOf(s) >= failedSegNo)
      PROVE  /\ NoneFailed' => NoneFailed
             /\ hasFinalBlockId => UNCHANGED failedSegNo /\ (hasFailure' => hasFailure)
             /\ failure' = "no"
  <2>1. ASSUME NoneFailed', hasFailure PROVE FALSE
    <3>1. Learn(s) /\ failedSegNo = 0
      BY <1>4, <2>1 DEF Accepted, NoneFailed
    <3>2. EndOf(s) \in Nat
      BY BaseType
    <3> QED
      BY <1>4, <2>1, <3>1, <3>2
  <2> QED
    BY <1>2, <1>4, <2>1 DEF Accepted, NoneFailed, TypeOK
<1>5. ASSUME NEW x \in {"RetxReceived", "Absent"}, info' = [Kept(s) EXCEPT ![s] = x]
      PROVE  /\ \A t \in Segments : Watched(t) => t = s \/ Watched(t)'
             /\ \A t \in Segs : info'[t] = "RetxReceived" => info[t] = "RetxReceived" \/ t = s
  <2>1. \A t \in Segments : t \notin Above(s)
    <3>1. content.last \in Nat /\ \A t \in Segments : t \in Nat /\ t <= content.last
      <4>1. content.last \in Nat
        BY <1>2, ContentInSegs DEF TypeOK
      <4> QED
        BY <4>1 DEF Segments
    <3>2. \A t \in Above(s) : t > content.last
      BY DEF Above, EndOf, InMapAbove
    <3> QED
      BY <3>1, <3>2
  <2>2. \A t \in Segs : t # s => info'[t] = IF t \in Above(s) THEN "Absent" ELSE info[t]
    BY <1>5 DEF Kept
  <2> QED
    BY <1>2, <2>1, <2>2 DEF Watched
<1>6. CASE SecondCopy(s) /\ StateOf(s) \in Ignored
           /\ (Learn(s) /\ hasFailure => ~(EndOf(s) >= failedSegNo))
  <2>1. /\ Accepted(s) /\ info' = [Kept(s) EXCEPT ![s] = "Absent"]
        /\ UNCHANGED <<isStopping, delivered>>
    BY <1>6 DEF SecondCopy, GoesOn
  <2>2. NoneFailed => s \in delivered
    <3>1. CASE info[s] = "RetxReceived"
      BY <3>1 DEF PastInv, ReceivedInMap
    <3>2. CASE info[s] # "RetxReceived"
      <4>1. ~Watched(s)
        BY <1>6, <3>2 DEF Ignored, StateOf, Watched, InMap
      <4>2. s < nextSegmentNo
        BY <1>1 DEF QueueInv, RequestedBelowNext
      <4> QED
        BY <1>1, <4>1, <4>2 DEF PastInv, SteppedPast
    <3> QED
      BY <3>1, <3>2
  <2>3. info'[s] = "Absent"
    BY <2>1 DEF Kept
  <2>4. /\ \A t \in Segments : Watched(t) => t = s \/ Watched(t)'
        /\ \A t \in Segs : info'[t] = "RetxReceived" => info[t] = "RetxReceived"
    BY <1>5, <2>1, <2>3
  <2> QED
    BY <1>1, <1>2, <1>4, <1>6, <2>1, <2>2, <2>4, StillWatched
<1>7. CASE FirstCopy(s) /\ Cancel
           /\ (Learn(s) /\ hasFailure => ~(EndOf(s) >= failedSegNo))
  <2>1. isStopping' /\ (\A t \in Segs : info'[t] = "Absent") /\ delivered \subseteq delivered'
    BY <1>7 DEF FirstCopy, Cancel
  <2> QED
    BY <1>1, <1>4, <1>7, <2>1, StillWatched DEF FirstCopy
<1>8. CASE FirstCopy(s) /\ NotLast(s)
           /\ (Learn(s) /\ hasFailure => ~(EndOf(s) >= failedSegNo))
  <2>1. /\ Accepted(s) /\ delivered' = delivered \cup {s} /\ UNCHANGED isStopping
        /\ info' = [Kept(s) EXCEPT ![s] = StateAfterData(StateOf(s))]
    BY <1>8 DEF FirstCopy, NotLast, GoesOn
  <2>2. StateAfterData(StateOf(s)) \in {"RetxReceived", "Absent"}
    BY DEF StateAfterData
  <2>3. /\ \A t \in Segments : Watched(t) => t = s \/ Watched(t)'
        /\ \A t \in Segs : info'[t] = "RetxReceived" => info[t] = "RetxReceived" \/ t = s
    BY <1>5, <2>1, <2>2
  <2> QED
    BY <1>1, <1>2, <1>4, <1>8, <2>1, <2>3, StillWatched
<1> QED
  BY <1>3, <1>6, <1>7, <1>8, HandleDataStates

\* no step forgets a segment
LEMMA StepPast ==
  ASSUME TypeOK, LoopRunning, QueueInv, PastInv, [Next]_vars
  PROVE  PastInv'
<1>1. CASE Run
  BY <1>1, RunPast
<1>2. CASE SendNext
  BY <1>2, SendNextPast
<1>3. CASE Retransmit
  BY <1>3, RetransmitPast
<1>4. ASSUME NEW s \in Segs,
             CheckRto(s) \/ HandleLifetimeExpiration(s) \/ HandleNack(s) \/ HandleData(s)
      PROVE  PastInv'
  BY <1>4, CheckRtoPast, RequeuePast, HandleNackPast, HandleDataPast
  DEF HandleLifetimeExpiration
<1>5. CASE CallOnFailure
  BY <1>5
  DEF CallOnFailure, PastInv, BeforeRun, FailureStops, ReceivedInMap, DiscoveredFirst,
      SteppedPast, EndKnownNoneFailed, NoneFailed, Watched, Segments, failVars, finalVars
<1>6. CASE SkipRetx \/ UNCHANGED vars
  BY <1>6
  DEF SkipRetx, vars, PastInv, BeforeRun, FailureStops, ReceivedInMap, DiscoveredFirst,
      SteppedPast, EndKnownNoneFailed, NoneFailed, Watched, Segments, failVars, finalVars, endVars
<1> QED
  BY <1>1, <1>2, <1>3, <1>4, <1>5, <1>6 DEF Next

\* nothing is stepped past at the start
LEMMA InitPast == Init => PastInv
  BY DEF Init, PastInv, BeforeRun, FailureStops, ReceivedInMap, DiscoveredFirst, SteppedPast,
         EndKnownNoneFailed, NoneFailed

(* PastInv, the invariant behind NothingForgotten, holds in every behaviour. *)
THEOREM PastInductive == Spec => []PastInv
<1>1. IInv /\ PastInv /\ [Next]_vars => PastInv'
  BY StepPast DEF IInv, WindowInv
<1> QED
  BY InitPast, <1>1, Inductive, PTL DEF Spec

(* Every segment of the content that was stepped past is delivered or still
   watched, unless a failure was set aside before. *)
THEOREM ForgottenOnlyAfterFailure == Spec => [](failedSegNo = 0 => NothingForgotten)
<1>1. PastInv => (failedSegNo = 0 => NothingForgotten)
  BY DEF PastInv, SteppedPast, NoneFailed, NothingForgotten, Watched
<1> QED
  BY <1>1, PastInductive, PTL

(* In particular when the end of the content is known from version discovery
   on: no failure is set aside then. *)
THEOREM NoSegmentForgotten == Spec => [](content.excluded \in content.final => NothingForgotten)
<1>1. PastInv => (content.excluded \in content.final => NothingForgotten)
  BY DEF PastInv, SteppedPast, EndKnownNoneFailed, NoneFailed, NothingForgotten, Watched
<1> QED
  BY <1>1, PastInductive, PTL

-----------------------------------------------------------------------------
(* Counting once. As long as no segment was retransmitted a second time, no
   Interest is left when the Data of a segment has been counted: the queue may
   still hold the segment, but what is sent for it is its second retransmission.
   With the program's limit of three retransmissions this is a condition on what
   has happened so far, and not on the options. *)

\* no Interest for a segment was sent a third time; none is with a limit of one retransmission
NoneSentThrice == MaxRetries <= 1 \/ \A s \in Segs : retxCount[s] <= 1

DeliveredInContent == delivered \subseteq Segments
NotYetStepped ==
  \A s \in Segs : s \in delivered /\ ~(s < nextSegmentNo) => started /\ s = content.excluded
CountedDelivered == nReceived = Cardinality(delivered)
FetchInv == DeliveredInContent /\ NotYetStepped

ResentOnce == \A s \in Segs : resent[s] <= 1 /\ (resent[s] = 1 => retxCount[s] >= 1)
PendingUndelivered == \A s \in Segs : Pending(s) => s \notin delivered
DeliveredUsedUp == \A s \in Segs : InMap(s) /\ s \in delivered => retxCount[s] >= 1
RetransmittedCounted == \A s \in Segs : info[s] = "Retransmitted" => retxCount[s] >= 1
OnceInv == ResentOnce /\ PendingUndelivered /\ DeliveredUsedUp /\ RetransmittedCounted

\* a step that neither delivers nor asks for anything
LEMMA NothingAsked ==
  ASSUME TypeOK, OnceInv, UNCHANGED delivered,
         \A s \in Segs : retxCount'[s] \in Nat /\ retxCount'[s] >= retxCount[s],
         \A s \in Segs : s \in first' => s \in first,
         \A s \in Segs : resent'[s] \in Nat /\ resent'[s] <= resent[s],
         \A s \in Segs : info'[s] # "Absent" => info[s] # "Absent" \/ s \notin delivered,
         \A s \in Segs : info'[s] = "Retransmitted" => info[s] = "Retransmitted"
  PROVE  OnceInv'
<1>1. \A s \in Segs : resent[s] \in Nat /\ retxCount[s] \in Nat
  BY DEF TypeOK
<1>2. ResentOnce'
  <2> SUFFICES ASSUME NEW s \in Segs
               PROVE  resent'[s] <= 1 /\ (resent'[s] = 1 => retxCount'[s] >= 1)
    BY DEF ResentOnce
  <2>1. resent[s] <= 1 /\ (resent[s] = 1 => retxCount[s] >= 1)
    BY DEF OnceInv, ResentOnce
  <2> QED
    BY <1>1, <2>1
<1>3. \A s \in Segs : Pending(s)' => Pending(s)
  BY <1>1 DEF Pending
<1>4. PendingUndelivered'
  BY <1>3 DEF OnceInv, PendingUndelivered
<1>5. DeliveredUsedUp'
  <2> SUFFICES ASSUME NEW s \in Segs, info'[s] # "Absent", s \in delivered
               PROVE  retxCount'[s] >= 1
    BY DEF DeliveredUsedUp, InMap
  <2>1. retxCount[s] >= 1
    BY DEF OnceInv, DeliveredUsedUp, InMap
  <2> QED
    BY <1>1, <2>1
<1>6. RetransmittedCounted'
  <2> SUFFICES ASSUME NEW s \in Segs, info'[s] = "Retransmitted"
               PROVE  retxCount'[s] >= 1
    BY DEF RetransmittedCounted
  <2>1. retxCount[s] >= 1
    BY DEF OnceInv, RetransmittedCounted
  <2> QED
    BY <1>1, <2>1
<1> QED
  BY <1>2, <1>4, <1>5, <1>6 DEF OnceInv

\* cancel() clears what could be counted
LEMMA CancelOnce ==
  ASSUME Cancel
  PROVE  /\ PendingUndelivered' /\ DeliveredUsedUp' /\ RetransmittedCounted'
         /\ \A s \in Segs : resent'[s] = 0
  BY DEF Cancel, PendingUndelivered, DeliveredUsedUp, RetransmittedCounted, Pending, InMap

\* what leaves the Face with one Interest
LEMMA TakeOneOnce ==
  ASSUME TypeOK, NEW s \in Segs, Pending(s)
  PROVE  /\ \A t \in Segs : t \in FirstWithout(s) => t \in first
         /\ \A t \in Segs : ResentWithout(s)[t] \in Nat /\ ResentWithout(s)[t] <= resent[t]
  BY DEF TypeOK, Pending, FirstWithout, ResentWithout

\* a segment requested for the first time was not delivered
LEMMA SendFirstOnce ==
  ASSUME TypeOK, QueueInv, FetchInv, OnceInv,
         NextSegmentNo \in Segs, SendFirst(NextSegmentNo),
         delivered' \subseteq delivered \cup {content.excluded}, UNCHANGED <<retxCount, resent>>,
         \A s \in Segs : s \in delivered' => s \notin first /\ resent[s] = 0 /\ (info[s] # "Absent" => retxCount[s] >= 1)
  PROVE  OnceInv'
<1> DEFINE s == NextSegmentNo
<1>1. s # content.excluded /\ s \notin delivered
  <2>1. nextSegmentNo <= s /\ nextSegmentNo \in Nat /\ s \in Nat
    BY PlainNat DEF TypeOK
  <2>2. ~(s < nextSegmentNo)
    BY <2>1
  <2>3. s # content.excluded
    BY <2>1 DEF NextSegmentNo
  <2> QED
    BY <2>2, <2>3 DEF FetchInv, NotYetStepped
<1>2. info' = [info EXCEPT ![s] = "FirstTimeSent"] /\ first' = first \cup {s}
  BY SendFirstPast DEF SendFirst
<1> HIDE DEF s
<1>3. s \in Segs
  BY DEF s
<1>4. ResentOnce'
  BY DEF OnceInv, ResentOnce
<1>5. PendingUndelivered'
  BY <1>1, <1>2, <1>3 DEF OnceInv, PendingUndelivered, Pending
<1>6. DeliveredUsedUp' /\ RetransmittedCounted'
  BY <1>1, <1>2, <1>3 DEF TypeOK, OnceInv, DeliveredUsedUp, RetransmittedCounted, InMap
<1> QED
  BY <1>4, <1>5, <1>6 DEF OnceInv

\* handleFail() erases and withdraws, and asks for nothing
LEMMA HandleFailOnce ==
  ASSUME TypeOK, OnceInv, NEW s \in Segs, NEW f \in SUBSET first, NEW r \in [Segs -> Nat],
         \A t \in Segs : r[t] <= resent[t],
         \A t \in Segs : retxCount'[t] \in Nat /\ retxCount'[t] >= retxCount[t],
         HandleFail(s, f, r), UNCHANGED delivered
  PROVE  OnceInv'
<1>1. CASE OnFailure
  <2>1. /\ \A t \in Segs : t \notin first' /\ resent'[t] = 0 /\ info'[t] = "Absent"
    BY <1>1 DEF OnFailure, Cancel
  <2> QED
    BY <2>1, NothingAsked DEF TypeOK
<1>2. CASE first' = f /\ resent' = r /\ UNCHANGED info
  BY <1>2, NothingAsked
<1>3. CASE /\ info' = [t \in Segs |-> IF t >= s THEN "Absent" ELSE info[t]]
           /\ first' = f \ InMapAbove(s) /\ resent' = r
  <2>1. \A t \in Segs : info'[t] \in {"Absent", info[t]}
    BY <1>3
  <2> QED
    BY <1>3, <2>1, NothingAsked
<1> QED
  BY <1>1, <1>2, <1>3 DEF HandleFail

\* the first retransmission, or the failure that the second one is
LEMMA RetransmitOnce ==
  ASSUME NoneSentThrice', TypeOK, OnceInv, Retransmit
  PROVE  OnceInv'
<1> DEFINE s == Head(retxQueue)
           n == retxCount[s] + 1
<1>1. s \in Segs /\ retxCount[s] \in Nat /\ InMap(s) /\ UNCHANGED delivered
      /\ retxCount' = [retxCount EXCEPT ![s] = n]
  BY DEF TypeOK, Retransmit
<1>2. CASE ~(n > 1 /\ n > MaxRetries)
  <2>1. retxCount[s] = 0
    <3>1. CASE MaxRetries <= 1
      BY <1>1, <1>2, <3>1, PipelineAssumption
    <3>2. CASE \A t \in Segs : retxCount'[t] <= 1
      <4>1. retxCount'[s] = n
        BY <1>1 DEF TypeOK
      <4> HIDE DEF s
      <4> QED
        BY <1>1, <3>2, <4>1
    <3> QED
      BY <3>1, <3>2 DEF NoneSentThrice
  <2>2. /\ info' = [info EXCEPT ![s] = "Retransmitted"]
        /\ first' = first \ {s}
        /\ resent' = [resent EXCEPT ![s] = @ + 1]
    BY <1>2 DEF Retransmit, Withdraw
  <2>3. s \notin delivered
    BY <1>1, <2>1 DEF OnceInv, DeliveredUsedUp
  <2>4. resent[s] = 0
    BY <1>1, <2>1 DEF OnceInv, ResentOnce, TypeOK
  <2> HIDE DEF s
  <2>5. ResentOnce'
    BY <1>1, <2>1, <2>2, <2>4 DEF OnceInv, ResentOnce, TypeOK
  <2>6. PendingUndelivered'
    BY <1>1, <2>2, <2>3 DEF OnceInv, PendingUndelivered, Pending, TypeOK
  <2>7. DeliveredUsedUp' /\ RetransmittedCounted'
    BY <1>1, <2>1, <2>2, <2>3 DEF OnceInv, DeliveredUsedUp, RetransmittedCounted, InMap, TypeOK
  <2> QED
    BY <2>5, <2>6, <2>7 DEF OnceInv
<1>3. CASE HandleFail(s, first, resent)
  <2>1. \A t \in Segs : retxCount'[t] \in Nat /\ retxCount'[t] >= retxCount[t]
    BY <1>1 DEF TypeOK
  <2>2. \A t \in Segs : resent[t] <= resent[t]
    BY DEF TypeOK
  <2> HIDE DEF s
  <2> QED
    BY <1>1, <1>3, <2>1, <2>2, HandleFailOnce DEF TypeOK
<1> QED
  BY <1>2, <1>3 DEF Retransmit

\* run() delivers the segment of version discovery, and sends another one
LEMMA RunOnce ==
  ASSUME TypeOK, QueueInv, PastInv, FetchInv, OnceInv, Run
  PROVE  OnceInv'
<1>1. ~started /\ delivered' = {content.excluded} /\ UNCHANGED <<retxCount, resent>>
  BY DEF Run
<1>2. delivered = {} /\ nextSegmentNo = 0 /\ Segs \subseteq Nat
  BY <1>1, PlainNat DEF PastInv, BeforeRun
<1>3. \A s \in Segs : ~InMap(s) /\ ~Pending(s)
  BY <1>2 DEF QueueInv, RequestedBelowNext
<1>4. \A s \in Segs : s \notin first /\ resent[s] = 0 /\ info[s] = "Absent"
  BY <1>3 DEF InMap, Pending, TypeOK
<1>5. CASE NextSegmentNo \in Segs /\ SendFirst(NextSegmentNo)
  BY <1>1, <1>4, <1>5, SendFirstOnce
<1>6. CASE UNCHANGED <<info, first>>
  BY <1>1, <1>4, <1>6
  DEF OnceInv, ResentOnce, PendingUndelivered, DeliveredUsedUp, RetransmittedCounted, InMap, Pending
<1> QED
  BY <1>5, <1>6, MaySendFirstSeg DEF Run

\* the next segment was not delivered
LEMMA SendNextOnce ==
  ASSUME TypeOK, QueueInv, FetchInv, OnceInv, SendNext
  PROVE  OnceInv'
<1>1. UNCHANGED <<delivered, retxCount, resent>>
  BY DEF SendNext
<1>2. \A s \in Segs : s \in delivered =>
        s \notin first /\ resent[s] = 0 /\ (info[s] # "Absent" => retxCount[s] >= 1)
  BY DEF OnceInv, PendingUndelivered, DeliveredUsedUp, Pending, InMap, TypeOK
<1>3. CASE NextSegmentNo \in Segs /\ SendFirst(NextSegmentNo)
  BY <1>1, <1>2, <1>3, SendFirstOnce
<1>4. CASE UNCHANGED <<info, first>>
  BY <1>1, <1>4
  DEF OnceInv, ResentOnce, PendingUndelivered, DeliveredUsedUp, RetransmittedCounted, InMap, Pending
<1> QED
  BY <1>3, <1>4, MaySendFirstSeg DEF SendNext

\* a segment queued again had an Interest, so it was not delivered
LEMMA RequeueOnce ==
  ASSUME TypeOK, OnceInv, NEW s \in Segs, TakeOne(s), Requeue(s), Unanswered(s)
  PROVE  OnceInv'
<1>1. /\ info' = [info EXCEPT ![s] = "InRetxQueue"]
      /\ Pending(s) /\ first' = FirstWithout(s) /\ resent' = ResentWithout(s)
      /\ UNCHANGED <<delivered, retxCount>>
  BY DEF Requeue, TakeOne, Unanswered
<1>2. s \notin delivered
  BY <1>1 DEF OnceInv, PendingUndelivered
<1>3. /\ \A t \in Segs : t \in FirstWithout(s) => t \in first
      /\ \A t \in Segs : ResentWithout(s)[t] \in Nat /\ ResentWithout(s)[t] <= resent[t]
  BY <1>1, TakeOneOnce
<1>4. /\ \A t \in Segs : info'[t] # "Absent" => info[t] # "Absent" \/ t \notin delivered
      /\ \A t \in Segs : info'[t] = "Retransmitted" => info[t] = "Retransmitted"
      /\ \A t \in Segs : retxCount'[t] \in Nat /\ retxCount'[t] >= retxCount[t]
  BY <1>1, <1>2 DEF TypeOK
<1> QED
  BY <1>1, <1>3, <1>4, NothingAsked

\* checkRto() asks for nothing yet
LEMMA CheckRtoOnce ==
  ASSUME TypeOK, OnceInv, NEW s \in Segs, CheckRto(s)
  PROVE  OnceInv'
<1>1. UNCHANGED <<delivered, retxCount, first, resent>>
  BY DEF CheckRto, netVars
<1>2. PICK T \in SUBSET Timed : info' = [t \in Segs |-> IF t \in T THEN "InRetxQueue" ELSE info[t]]
  BY DEF CheckRto
<1>3. /\ \A t \in Segs : info'[t] # "Absent" => info[t] # "Absent"
      /\ \A t \in Segs : info'[t] = "Retransmitted" => info[t] = "Retransmitted"
  BY <1>2 DEF Timed
<1>4. /\ \A t \in Segs : retxCount'[t] \in Nat /\ retxCount'[t] >= retxCount[t]
      /\ \A t \in Segs : resent'[t] \in Nat /\ resent'[t] <= resent[t]
  BY <1>1 DEF TypeOK
<1> QED
  BY <1>1, <1>3, <1>4, NothingAsked

\* a Nack takes an Interest away, and may fail or queue its segment
LEMMA HandleNackOnce ==
  ASSUME TypeOK, OnceInv, NEW s \in Segs, HandleNack(s)
  PROVE  OnceInv'
<1>1. Unanswered(s) /\ UNCHANGED <<delivered, retxCount>>
  BY DEF HandleNack, Unanswered
<1>2. \A t \in Segs : retxCount'[t] \in Nat /\ retxCount'[t] >= retxCount[t]
  BY <1>1 DEF TypeOK
<1>3. ASSUME Pending(s)
      PROVE  /\ \A t \in Segs : t \in FirstWithout(s) => t \in first
             /\ \A t \in Segs : ResentWithout(s)[t] \in Nat /\ ResentWithout(s)[t] <= resent[t]
             /\ FirstWithout(s) \in SUBSET first /\ ResentWithout(s) \in [Segs -> Nat]
  BY <1>3, TakeOneOnce, TakeOneType DEF FirstWithout
<1>4. CASE TakeOne(s) /\ UNCHANGED info
  BY <1>1, <1>2, <1>3, <1>4, NothingAsked DEF TakeOne
<1>5. CASE TakeOne(s) /\ Requeue(s)
  BY <1>1, <1>5, RequeueOnce
<1>6. CASE Pending(s) /\ HandleFail(s, FirstWithout(s), ResentWithout(s))
  BY <1>1, <1>2, <1>3, <1>6, HandleFailOnce
<1> QED
  BY <1>4, <1>5, <1>6 DEF HandleNack

\* the Data of a segment meets its last Interest
LEMMA HandleDataOnce ==
  ASSUME TypeOK, QueueInv, OnceInv, NEW s \in Segs, HandleData(s)
  PROVE  OnceInv'
<1>1. Pending(s) /\ s \notin delivered /\ UNCHANGED retxCount
  BY HandleDataCases DEF OnceInv, PendingUndelivered
<1>2. /\ \A t \in Segs : t \in FirstWithout(s) => t \in first
      /\ \A t \in Segs : ResentWithout(s)[t] \in Nat /\ ResentWithout(s)[t] <= resent[t]
  BY <1>1, TakeOneOnce
<1>3. \A t \in Segs : retxCount'[t] \in Nat /\ retxCount'[t] >= retxCount[t]
  BY <1>1 DEF TypeOK
<1>4. CASE Cancel
  BY <1>4, CancelOnce DEF OnceInv, ResentOnce
<1>5. CASE SecondCopy(s)
  <2>1. /\ info' = [Kept(s) EXCEPT ![s] = "Absent"] /\ UNCHANGED delivered
        /\ first' = FirstWithout(s) \ Above(s) /\ resent' = ResentWithout(s)
    BY <1>5 DEF SecondCopy, GoesOn
  <2>2. \A t \in Segs : info'[t] \in {"Absent", info[t]}
    BY <2>1 DEF Kept
  <2> QED
    BY <1>2, <1>3, <2>1, <2>2, NothingAsked
<1>6. CASE FirstCopy(s) /\ NotLast(s)
  <2>1. /\ info' = [Kept(s) EXCEPT ![s] = StateAfterData(StateOf(s))]
        /\ delivered' = delivered \cup {s}
        /\ first' = FirstWithout(s) \ Above(s) /\ resent' = ResentWithout(s)
    BY <1>6 DEF FirstCopy, NotLast, GoesOn
  <2>2. /\ \A t \in Segs : t # s => info'[t] \in {"Absent", info[t]}
        /\ info'[s] = StateAfterData(StateOf(s))
    BY <2>1 DEF Kept
  <2>3. ~Pending(s)'
    <3>1. s \notin first' /\ (s \in first => resent[s] = 0)
      BY <2>1 DEF FirstWithout, QueueInv, RecordedOrResent
    <3>2. resent[s] \in Nat /\ resent[s] <= 1
      BY DEF TypeOK, OnceInv, ResentOnce
    <3>3. resent'[s] = 0
      BY <1>1, <2>1, <3>1, <3>2 DEF ResentWithout, Pending, TypeOK
    <3> QED
      BY <3>1, <3>3 DEF Pending
  <2>4. ResentOnce'
    <3>1. \A t \in Segs : /\ resent[t] \in Nat /\ resent[t] <= 1
                          /\ (resent[t] = 1 => retxCount[t] >= 1)
      BY DEF TypeOK, OnceInv, ResentOnce
    <3>2. \A t \in Segs : resent'[t] \in Nat /\ resent'[t] <= resent[t] /\ retxCount'[t] = retxCount[t]
      BY <1>1, <1>2, <2>1
    <3> QED
      BY <3>1, <3>2 DEF ResentOnce
  <2>5. PendingUndelivered'
    <3>1. \A t \in Segs : Pending(t)' => Pending(t)
      BY <1>2, <2>1 DEF Pending, TypeOK
    <3> QED
      BY <2>1, <2>3, <3>1 DEF OnceInv, PendingUndelivered
  <2>6. info'[s] \in {"Absent", "RetxReceived"} /\ (info'[s] = "RetxReceived" => retxCount[s] >= 1)
    <3>1. StateOf(s) = "Retransmitted" => info[s] = "Retransmitted"
      BY DEF StateOf
    <3> QED
      BY <2>2, <3>1 DEF StateAfterData, OnceInv, RetransmittedCounted
  <2>7. DeliveredUsedUp'
    BY <1>1, <2>1, <2>2, <2>6 DEF OnceInv, DeliveredUsedUp, InMap
  <2>8. RetransmittedCounted'
    BY <1>1, <2>2, <2>6 DEF OnceInv, RetransmittedCounted
  <2> QED
    BY <2>4, <2>5, <2>7, <2>8 DEF OnceInv
<1> QED
  BY <1>4, <1>5, <1>6, HandleDataCases DEF EndDisproved, OnFailure

\* m_retxCount only grows, so what was sent a third time stays so
LEMMA StepNoneSent ==
  ASSUME TypeOK, [Next]_vars, NoneSentThrice'
  PROVE  NoneSentThrice
<1>1. CASE Retransmit
  <2> DEFINE s == Head(retxQueue)
  <2>1. s \in Segs /\ retxCount' = [retxCount EXCEPT ![s] = retxCount[s] + 1]
    BY <1>1 DEF TypeOK, Retransmit
  <2>2. \A t \in Segs : retxCount[t] \in Nat /\ retxCount'[t] \in {retxCount[t], retxCount[t] + 1}
    <3> HIDE DEF s
    <3> QED
      BY <2>1 DEF TypeOK
  <2> QED
    BY <2>2 DEF NoneSentThrice
<1>2. CASE UNCHANGED retxCount
  BY <1>2 DEF NoneSentThrice
<1>3. Retransmit \/ UNCHANGED retxCount
  BY DEF Next, Run, SendNext, SkipRetx, CheckRto, HandleLifetimeExpiration, HandleNack,
         HandleData, Unanswered, CallOnFailure, vars
<1> QED
  BY <1>1, <1>2, <1>3

\* no step asks again for what was delivered, but a second retransmission
LEMMA StepOnce ==
  ASSUME NoneSentThrice', TypeOK, QueueInv, PastInv, FetchInv, OnceInv, [Next]_vars
  PROVE  OnceInv'
<1>1. CASE Run
  BY <1>1, RunOnce
<1>2. CASE SendNext
  BY <1>2, SendNextOnce
<1>3. CASE Retransmit
  BY <1>3, RetransmitOnce
<1>4. ASSUME NEW s \in Segs,
             CheckRto(s) \/ HandleLifetimeExpiration(s) \/ HandleNack(s) \/ HandleData(s)
      PROVE  OnceInv'
  BY <1>4, CheckRtoOnce, RequeueOnce, HandleNackOnce, HandleDataOnce
  DEF HandleLifetimeExpiration
<1>5. CASE SkipRetx \/ CallOnFailure \/ UNCHANGED vars
  BY <1>5
  DEF SkipRetx, CallOnFailure, vars, netVars, OnceInv, ResentOnce, PendingUndelivered,
      DeliveredUsedUp, RetransmittedCounted, InMap, Pending
<1> QED
  BY <1>1, <1>2, <1>3, <1>4, <1>5 DEF Next

\* m_nextSegmentNo never goes back, and only two actions deliver
LEMMA StepNext ==
  ASSUME TypeOK, [Next]_vars
  PROVE  /\ nextSegmentNo' \in Nat /\ nextSegmentNo' >= nextSegmentNo
         /\ \/ Run
            \/ \E s \in Segs : HandleData(s)
            \/ UNCHANGED <<delivered, nReceived>>
         /\ started => started'
         /\ UNCHANGED content
<1>1. CASE Run
  BY <1>1, PlainNat DEF Run
<1>2. CASE SendNext
  BY <1>2, PlainNat DEF SendNext
<1>3. CASE SkipRetx \/ Retransmit \/ CallOnFailure \/ UNCHANGED vars
  BY <1>3 DEF SkipRetx, Retransmit, CallOnFailure, vars, TypeOK
<1>4. ASSUME NEW s \in Segs, CheckRto(s) \/ HandleLifetimeExpiration(s) \/ HandleNack(s)
      PROVE  UNCHANGED <<nextSegmentNo, delivered, nReceived, started, content>>
  BY <1>4 DEF CheckRto, HandleLifetimeExpiration, HandleNack, Unanswered
<1>5. ASSUME NEW s \in Segs, HandleData(s)
      PROVE  UNCHANGED <<nextSegmentNo, started, content>>
  BY <1>5 DEF HandleData
<1>6. nextSegmentNo \in Nat
  BY DEF TypeOK
<1> QED
  BY <1>1, <1>2, <1>3, <1>4, <1>5, <1>6 DEF Next

\* what one step delivers
LEMMA StepDelivered ==
  ASSUME TypeOK, PastInv, [Next]_vars
  PROVE  \/ /\ Run /\ ~started /\ started' /\ delivered = {} /\ delivered' = {content.excluded}
            /\ nReceived' = 1 /\ content.excluded \in Segments
         \/ UNCHANGED <<delivered, nReceived>>
         \/ \E s \in Segs : /\ HandleData(s) /\ s \in Segments /\ Pending(s) /\ FirstCopy(s)
                            /\ nReceived' = nReceived + 1 /\ delivered' = delivered \cup {s}
<1>1. ASSUME Run
      PROVE  /\ ~started /\ started' /\ delivered = {} /\ delivered' = {content.excluded}
             /\ nReceived' = 1 /\ content.excluded \in Segments
  BY <1>1, PipelineAssumption DEF Run, PastInv, BeforeRun, TypeOK, Segments
<1>2. ASSUME NEW s \in Segs, HandleData(s)
      PROVE  \/ UNCHANGED <<delivered, nReceived>>
             \/ /\ s \in Segments /\ Pending(s) /\ FirstCopy(s)
                /\ nReceived' = nReceived + 1 /\ delivered' = delivered \cup {s}
  BY <1>2, HandleDataCases DEF EndDisproved, SecondCopy, FirstCopy
<1> QED
  BY <1>1, <1>2, StepNext

\* what is delivered is part of the content and was requested
LEMMA StepFetch ==
  ASSUME TypeOK, QueueInv, PastInv, FetchInv, [Next]_vars
  PROVE  FetchInv'
<1>1. /\ nextSegmentNo' \in Nat /\ nextSegmentNo' >= nextSegmentNo /\ nextSegmentNo \in Nat
      /\ (started => started') /\ UNCHANGED content /\ Segs \subseteq Nat
  BY StepNext, PlainNat DEF TypeOK
<1>2. \/ started' /\ delivered = {} /\ delivered' = {content.excluded} /\ content.excluded \in Segments
      \/ UNCHANGED delivered
      \/ \E s \in Segs : s \in Segments /\ s < nextSegmentNo /\ delivered' = delivered \cup {s}
  BY StepDelivered DEF QueueInv, RequestedBelowNext
<1>3. DeliveredInContent'
  BY <1>1, <1>2 DEF FetchInv, DeliveredInContent, Segments
<1>4. NotYetStepped'
  <2> SUFFICES ASSUME NEW t \in Segs, t \in delivered', ~(t < nextSegmentNo')
               PROVE  started' /\ t = content.excluded
    BY <1>1 DEF NotYetStepped
  <2>1. ~(t < nextSegmentNo) /\ t \in Nat
    BY <1>1
  <2>2. t \in delivered => started /\ t = content.excluded
    BY <2>1 DEF FetchInv, NotYetStepped
  <2> QED
    BY <1>1, <1>2, <2>1, <2>2
<1> QED
  BY <1>3, <1>4 DEF FetchInv

\* one more segment is delivered, one more is counted
LEMMA StepCounted ==
  ASSUME TypeOK, PastInv, CountedDelivered, [Next]_vars,
         \A s \in Segs : HandleData(s) /\ FirstCopy(s) => s \notin delivered
  PROVE  CountedDelivered'
<1>1. IsFiniteSet(delivered)
  BY CountableParts DEF TypeOK
<1>2. CASE delivered' = {content.excluded} /\ nReceived' = 1
  BY <1>2, FS_Singleton DEF CountedDelivered
<1>3. CASE UNCHANGED <<delivered, nReceived>>
  BY <1>3 DEF CountedDelivered
<1>4. ASSUME NEW s \in Segs, s \notin delivered,
             nReceived' = nReceived + 1, delivered' = delivered \cup {s}
      PROVE  CountedDelivered'
  BY <1>1, <1>4, FS_AddElement DEF CountedDelivered
<1> QED
  BY <1>2, <1>3, <1>4, StepDelivered

\* the count is right, and no Interest can bring another copy, until a third Interest is sent
CountInv == FetchInv /\ (NoneSentThrice => OnceInv /\ CountedDelivered)

(* Nothing is counted, requested or delivered at the start. *)
LEMMA InitCount == Init => FetchInv /\ OnceInv /\ CountedDelivered
<1> SUFFICES ASSUME Init PROVE FetchInv /\ OnceInv /\ CountedDelivered
  OBVIOUS
<1>1. \A s \in Segs : s \notin first /\ resent[s] = 0 /\ info[s] = "Absent"
  BY DEF Init
<1>2. OnceInv
  BY <1>1 DEF OnceInv, ResentOnce, PendingUndelivered, DeliveredUsedUp, RetransmittedCounted,
              Pending, InMap
<1>3. CountedDelivered /\ FetchInv
  BY FS_EmptySet DEF Init, CountedDelivered, FetchInv, DeliveredInContent, NotYetStepped
<1> QED
  BY <1>2, <1>3

\* every step keeps the count right, but one that sends a third Interest for a segment
LEMMA StepKeepsCount ==
  ASSUME IInv, PastInv, CountInv, [Next]_vars
  PROVE  CountInv'
<1>1. TypeOK /\ QueueInv /\ FetchInv
  BY DEF IInv, CountInv
<1>2. FetchInv'
  BY <1>1, StepFetch
<1>3. ASSUME NoneSentThrice'
      PROVE  OnceInv' /\ CountedDelivered'
  <2>1. OnceInv /\ CountedDelivered
    BY <1>1, <1>3, StepNoneSent DEF CountInv
  <2>2. \A s \in Segs : HandleData(s) /\ FirstCopy(s) => s \notin delivered
    BY <2>1, HandleDataCases DEF OnceInv, PendingUndelivered
  <2> QED
    BY <1>1, <1>3, <2>1, <2>2, StepOnce, StepCounted
<1> QED
  BY <1>2, <1>3 DEF CountInv

\* the count is right in every behaviour until a segment is retransmitted a second time
THEOREM CountInductive == Spec => []CountInv
<1>1. Init => CountInv
  BY InitCount DEF CountInv
<1>2. IInv /\ PastInv /\ CountInv /\ [Next]_vars => CountInv'
  BY StepKeepsCount
<1> QED
  BY <1>1, <1>2, Inductive, PastInductive, PTL DEF Spec

(* What the consumer needs of a pipeline (AtMostOnce): for any number of retries
   handleData() hands no segment to m_onData that was handed over before, until
   some segment has been retransmitted a second time. *)
THEOREM HandsOverOnce ==
  Spec => [][NoneSentThrice =>
               \A s \in Segs : HandleData(s) /\ FirstCopy(s) => s \notin delivered]_vars
<1>1. CountInv /\ NoneSentThrice =>
        \A s \in Segs : HandleData(s) /\ FirstCopy(s) => s \notin delivered
  BY HandleDataCases DEF CountInv, OnceInv, PendingUndelivered
<1> QED
  BY <1>1, CountInductive, PTL

(* m_nReceived counts every segment once until some segment has been
   retransmitted a second time, for any number of retries and whatever the
   network does with the Interests and the Data. *)
THEOREM CountedOnce == Spec => [](NoneSentThrice => ReceivedOnce)
<1>1. CountInv => (NoneSentThrice => ReceivedOnce)
  BY DEF CountInv, CountedDelivered, ReceivedOnce
<1> QED
  BY <1>1, CountInductive, PTL

-----------------------------------------------------------------------------
(* The contract of PipelineInterests. With a right count the pipeline stops
   without a failure only when every segment of the content was delivered. *)

LastCounted == hasFinalBlockId /\ nReceived - 1 >= lastSegmentNo

\* a pipeline that does not run has only run() and the posted callback to do
LEMMA StepOfNotRunning ==
  ASSUME TypeOK, LoopRunning, PastInv, isStopping \/ ~started, [Next]_vars
  PROVE  (~started /\ Run) \/ (started /\ isStopping /\ CallOnFailure) \/ UNCHANGED vars
<1>1. ~(started /\ ~isStopping) /\ avail = 0
  BY DEF TypeOK, LoopRunning
<1>2. ~SendNext /\ ~SkipRetx /\ ~Retransmit
  BY <1>1 DEF SendNext, SkipRetx, Retransmit
<1>3. \A s \in Segs : ~CheckRto(s) /\ ~HandleLifetimeExpiration(s) /\ ~HandleNack(s)
  BY <1>1 DEF CheckRto, HandleLifetimeExpiration, HandleNack, Calm
<1>4. \A s \in Segs : ~HandleData(s)
  BY <1>1, HandleDataCases
<1>5. Run => ~started
  BY DEF Run
<1>6. CallOnFailure => started /\ isStopping
  BY DEF CallOnFailure, PastInv, BeforeRun, FailureStops
<1> QED
  BY <1>2, <1>3, <1>4, <1>5, <1>6 DEF Next

\* a running pipeline goes on, fails or has counted the last segment
LEMMA StepOfRunning ==
  ASSUME TypeOK, PastInv, started, ~isStopping, [Next]_vars
  PROVE  /\ failure = "no" /\ started' /\ UNCHANGED content
         /\ failure' = "no" /\ isStopping' => LastCounted'
         /\ failure' # "no" => isStopping'
         /\ \/ UNCHANGED delivered
            \/ \E s \in Segments : delivered' = delivered \cup {s}
<1>1. failure = "no"
  BY DEF PastInv, FailureStops
<1>2. started' /\ UNCHANGED content
  BY StepNext
<1>3. \/ UNCHANGED delivered
      \/ \E s \in Segments : delivered' = delivered \cup {s}
  BY StepDelivered
<1>4. ASSUME NEW s \in Segs, NEW f, NEW r, HandleFail(s, f, r)
      PROVE  (failure' = "no" => ~isStopping') /\ (failure' # "no" => isStopping')
  BY <1>1, <1>4 DEF HandleFail, OnFailure, Cancel, endVars
<1>5. /\ failure' = "no" /\ isStopping' => LastCounted'
      /\ failure' # "no" => isStopping'
  <2>1. CASE Run
    BY <2>1 DEF Run
  <2>2. CASE SendNext \/ SkipRetx \/ UNCHANGED vars
    <3>1. UNCHANGED endVars
      BY <2>2 DEF SendNext, SkipRetx, vars
    <3> QED
      BY <1>1, <3>1 DEF endVars
  <2>3. CASE Retransmit
    <3>1. Head(retxQueue) \in Segs
      BY <2>3 DEF TypeOK, Retransmit
    <3> QED
      BY <1>1, <1>4, <2>3, <3>1 DEF Retransmit, endVars
  <2>4. CASE CallOnFailure
    BY <1>1, <2>4 DEF CallOnFailure
  <2>5. ASSUME NEW s \in Segs, CheckRto(s) \/ HandleLifetimeExpiration(s)
        PROVE  failure' = "no" /\ ~isStopping'
    <3>1. UNCHANGED endVars
      BY <2>5 DEF CheckRto, HandleLifetimeExpiration, Requeue
    <3> QED
      BY <1>1, <3>1 DEF endVars
  <2>6. ASSUME NEW s \in Segs, HandleNack(s)
        PROVE  (failure' = "no" => ~isStopping') /\ (failure' # "no" => isStopping')
    BY <1>1, <1>4, <2>6 DEF HandleNack, Requeue, endVars
  <2>7. ASSUME NEW s \in Segs, HandleData(s)
        PROVE  /\ failure' = "no" /\ isStopping' => LastCounted'
               /\ failure' # "no" => isStopping'
    <3>1. lastSegmentNo' = EndOf(s)
      BY <2>7, HandleDataCases
    <3>2. CASE EndDisproved(s)
      BY <3>2 DEF EndDisproved, OnFailure, Cancel
    <3>3. CASE SecondCopy(s) \/ NotLast(s)
      BY <1>1, <3>3 DEF SecondCopy, NotLast, GoesOn
    <3>4. CASE FirstCopy(s) /\ Cancel /\ AllReceived(hasFinalBlockId', nReceived', EndOf(s))
      <4>1. failure' = "no"
        BY <1>1, <3>4 DEF FirstCopy, Accepted
      <4> QED
        BY <3>1, <3>4, <4>1 DEF AllReceived, LastCounted
    <3> QED
      BY <2>7, <3>2, <3>3, <3>4, HandleDataStates
  <2> QED
    BY <2>1, <2>2, <2>3, <2>4, <2>5, <2>6, <2>7 DEF Next
<1> QED
  BY <1>1, <1>2, <1>3, <1>5

\* a right count that reaches the last segment leaves none out
LEMMA CountedAll ==
  TypeOK /\ QueueInv /\ DeliveredInContent /\ CountedDelivered /\ LastCounted
    => delivered = Segments
<1> SUFFICES ASSUME TypeOK, QueueInv, DeliveredInContent, CountedDelivered, LastCounted
             PROVE  delivered = Segments
  OBVIOUS
<1>1. content.last \in Nat
  BY ContentInSegs DEF TypeOK
<1>2. IsFiniteSet(Segments) /\ Cardinality(Segments) = content.last + 1
  BY <1>1, FS_Interval DEF Segments
<1>3. Cardinality(delivered) >= content.last + 1
  BY <1>1 DEF TypeOK, QueueInv, EndRight, LastCounted, CountedDelivered
<1>4. /\ IsFiniteSet(delivered) /\ Cardinality(delivered) \in Nat
      /\ Cardinality(delivered) <= content.last + 1
      /\ Cardinality(delivered) = content.last + 1 => delivered = Segments
  BY <1>2, FS_Subset, CountableParts DEF DeliveredInContent, TypeOK
<1> QED
  BY <1>1, <1>3, <1>4

DoneInv == isStopping /\ failure = "no" => delivered = Segments

\* a stopped pipeline stays as it is, and one that stops has counted the last segment
LEMMA StepDone ==
  ASSUME TypeOK, LoopRunning, PastInv, DoneInv, LastCounted' => delivered' = Segments',
         [Next]_vars
  PROVE  DoneInv'
<1>1. CASE started /\ ~isStopping
  BY <1>1, StepOfRunning DEF DoneInv
<1>2. CASE ~(started /\ ~isStopping)
  <2>1. CASE ~started /\ Run
    BY <2>1 DEF Run, endVars, PastInv, BeforeRun, DoneInv
  <2>2. CASE CallOnFailure
    BY <2>2 DEF CallOnFailure, DoneInv
  <2>3. CASE UNCHANGED vars
    BY <2>3 DEF vars, endVars, DoneInv, Segments
  <2> QED
    BY <1>2, <2>1, <2>2, <2>3, StepOfNotRunning
<1> QED
  BY <1>1, <1>2

\* every step is one of the contract, or changes nothing of it
LEMMA StepOfContract ==
  ASSUME TypeOK, LoopRunning, PastInv, DoneInv', [Next]_vars
  PROVE  [Contract!Next]_(Contract!vars)
<1> USE DEF Contract!vars
<1>1. CASE started /\ ~isStopping
  <2>1. /\ failure = "no" /\ started' /\ UNCHANGED content
        /\ failure' # "no" => isStopping'
        /\ \/ UNCHANGED delivered
           \/ \E s \in Segments : delivered' = delivered \cup {s}
    BY <1>1, StepOfRunning
  <2>2. isStopping' /\ failure' = "no" => delivered' = Contract!Segments'
    BY DEF DoneInv, Segments, Contract!Segments
  <2>3. Contract!Ends
    BY <2>1, <2>2 DEF Contract!Ends
  <2>4. CASE UNCHANGED delivered
    <3>1. Contract!End
      BY <1>1, <2>1, <2>3, <2>4 DEF Contract!End
    <3> QED
      BY <3>1 DEF Contract!Next
  <2>5. ASSUME NEW s \in Segments, delivered' = delivered \cup {s}
        PROVE  Contract!Next
    <3>1. Contract!Deliver(s)
      BY <1>1, <2>1, <2>3, <2>5 DEF Contract!Deliver
    <3> QED
      BY <3>1 DEF Contract!Next, Contract!Segments, Segments
  <2> QED
    BY <2>1, <2>4, <2>5
<1>2. CASE ~started /\ Run
  <2>1. /\ delivered' = {content'.excluded} /\ started'
        /\ UNCHANGED <<isStopping, failure, content>> /\ ~isStopping /\ failure = "no"
    BY <1>2 DEF Run, endVars, PastInv, BeforeRun
  <2>2. content'.excluded \in Contract!Segments'
    BY <2>1, PipelineAssumption DEF Contract!Segments, TypeOK
  <2>3. Contract!Ends
    BY <2>1 DEF Contract!Ends
  <2>4. Contract!Start
    BY <1>2, <2>1, <2>2, <2>3 DEF Contract!Start
  <2> QED
    BY <2>4 DEF Contract!Next
<1>3. CASE started /\ isStopping /\ CallOnFailure
  BY <1>3 DEF CallOnFailure
<1>4. CASE UNCHANGED vars
  BY <1>4 DEF vars, endVars
<1> QED
  BY <1>1, <1>2, <1>3, <1>4, StepOfNotRunning

\* nothing has stopped at the start
LEMMA InitDone == Init => DoneInv
  BY DEF Init, DoneInv

\* a step to a state of a right count completes the content if it stops without
\* a failure, and is one of the contract
LEMMA StepKeepsDone ==
  ASSUME IInv, IInv', PastInv, DoneInv, FetchInv', CountedDelivered', [Next]_vars
  PROVE  DoneInv' /\ [Contract!Next]_(Contract!vars)
<1>1. (TypeOK /\ QueueInv /\ DeliveredInContent /\ CountedDelivered /\ LastCounted
         => delivered = Segments)'
  BY CountedAll, PTL
<1>2. DoneInv'
  BY <1>1, StepDone DEF IInv, WindowInv, FetchInv
<1> QED
  BY <1>2, StepOfContract DEF IInv, WindowInv

\* a pipeline that has stopped without a failure and a third Interest is complete
THEOREM DoneInductive == Spec => [](NoneSentThrice => DoneInv)
<1>1. ASSUME IInv, IInv', PastInv, CountInv', NoneSentThrice => DoneInv, [Next]_vars,
             NoneSentThrice'
      PROVE  DoneInv'
  <2>1. NoneSentThrice
    BY <1>1, StepNoneSent DEF IInv
  <2> QED
    BY <1>1, <2>1, StepKeepsDone DEF CountInv
<1>2. IInv /\ IInv' /\ PastInv /\ CountInv' /\ (NoneSentThrice => DoneInv) /\ [Next]_vars
        => (NoneSentThrice => DoneInv)'
  BY <1>1
<1>3. Init => (NoneSentThrice => DoneInv)
  BY InitDone
<1> QED
  BY <1>2, <1>3, Inductive, PastInductive, CountInductive, PTL DEF Spec

(* The pipeline stops without a failure only when every segment of the content
   was delivered, unless some segment was retransmitted a second time. The
   program allows three retransmissions, and then it may stop early. *)
THEOREM DoneIsComplete == Spec => [](NoneSentThrice => DoneMeansComplete)
<1>1. DoneInv => DoneMeansComplete
  BY DEF DoneInv, DoneMeansComplete
<1> QED
  BY <1>1, DoneInductive, PTL

(* For any number of retries the pipeline implements the contract of
   PipelineInterests if it does not stop early: that it may count a segment
   twice and stop with another one missing is the only way it has to break it. *)
THEOREM OnlyStopsEarly == Spec /\ []DoneMeansComplete => ContractSpec
<1>1. Init => Contract!Init
  BY DEF Init, Contract!Init
<1>2. CountInv /\ DoneMeansComplete => DoneInv
  BY DEF CountInv, FetchInv, DeliveredInContent, DoneInv, DoneMeansComplete
<1>3. IInv /\ PastInv /\ DoneInv' /\ [Next]_vars => [Contract!Next]_(Contract!vars)
  BY StepOfContract DEF IInv, WindowInv
<1> QED
  BY <1>1, <1>2, <1>3, Inductive, PastInductive, CountInductive, PTL
  DEF Spec, ContractSpec, Contract!Spec

(* So it implements the contract in every behaviour in which no segment is
   retransmitted a second time: it hands every segment over before it ends
   complete, and nothing afterwards. *)
THEOREM ImplementsContract == Spec /\ []NoneSentThrice => ContractSpec
  BY DoneIsComplete, OnlyStopsEarly, PTL

-----------------------------------------------------------------------------
(* A window that stays open, for any window of which increaseWindow() makes at
   least two segments and decreaseWindow() leaves at least half. Tame are the
   windows of which this is known; the others may be reached, and are not left
   again.

   With conservative window adaptation decreaseWindow() is called only when
   m_highData is past m_recPoint. A window of one segment was reached by a
   reduction, which set m_recPoint past all that was requested, or is the first
   one, and only one segment was requested yet: whatever Data comes is not past
   m_recPoint or opens the window. And such a window requests nothing new before
   it opens: the loop of schedulePackets() has one packet to send, and a
   retransmission to send it for. *)

Steady(Tame) ==
  /\ \A w \in InitWindows : w \in Tame => Cwnd(w) >= 1
  /\ \A w \in Windows : \A v \in Increased(w) :
       v \in Tame => w \in Tame /\ (Cwnd(w) >= 1 => Cwnd(v) >= 2)
  /\ \A w \in Windows : \A v \in Decreased(w) :
       v \in Tame => w \in Tame /\ (Cwnd(w) >= 2 => Cwnd(v) >= 1)

Requested(s) == InMap(s) \/ Pending(s)
HighInv == /\ highInterest <= nextSegmentNo /\ highData <= highInterest
           /\ \A s \in Segs : Requested(s) => s <= highInterest

AllBelow == \A s \in Segs : Requested(s) => s <= recPoint
OnlyOne == \E s \in Segs : Watched(s) /\ \A t \in Segs : Requested(t) => t = s
LiveQueued == \E s \in Segs : InMap(s) /\ InQueue(retxQueue, s)

Narrow == highData <= recPoint /\ (AllBelow \/ OnlyOne) /\ (avail > 0 => LiveQueued)
OpenInv(Tame) ==
  window \in Tame => Cwnd(window) >= 1 /\ (Cwnd(window) = 1 => Narrow)

\* a step that requests no segment and keeps the only one watched, if it keeps it
LEMMA NothingRequested ==
  ASSUME TypeOK, AllBelow \/ OnlyOne, UNCHANGED recPoint,
         \A t \in Segs : Requested(t)' => Requested(t),
         \A t \in Segs : Watched(t) /\ (\A u \in Segs : Requested(u) => u = t)
                           => Watched(t)' \/ ~Requested(t)'
  PROVE  (AllBelow \/ OnlyOne)'
<1>1. CASE AllBelow
  BY <1>1 DEF AllBelow
<1>2. CASE OnlyOne
  <2>1. PICK t \in Segs : Watched(t) /\ \A u \in Segs : Requested(u) => u = t
    BY <1>2 DEF OnlyOne
  <2>2. \A u \in Segs : Requested(u)' => u = t
    BY <2>1
  <2>3. CASE Watched(t)'
    BY <2>2, <2>3 DEF OnlyOne
  <2>4. CASE ~Requested(t)'
    BY <2>2, <2>4 DEF AllBelow
  <2> QED
    BY <2>1, <2>3, <2>4
<1> QED
  BY <1>1, <1>2

\* cancel() leaves nothing requested
LEMMA CancelNarrow ==
  ASSUME TypeOK, Cancel
  PROVE  /\ \A s \in Segs : ~Requested(s)'
         /\ AllBelow' /\ avail' = 0
  BY DEF Cancel, Requested, InMap, Pending, AllBelow

\* an Interest that leaves the Face was there
LEMMA TakeOneRequested ==
  ASSUME TypeOK, NEW s \in Segs, Pending(s)
  PROVE  \A t \in Segs : t \in FirstWithout(s) \/ ResentWithout(s)[t] > 0 => Pending(t)
  BY DEF TypeOK, Pending, FirstWithout, ResentWithout

\* handleFail() requests nothing, and erases nothing that is alone
LEMMA HandleFailNarrow ==
  ASSUME TypeOK, NEW s \in Segs, NEW f, NEW r,
         \A t \in Segs : t \in f \/ r[t] > 0 => Pending(t),
         Requested(s), HandleFail(s, f, r)
  PROVE  /\ \A t \in Segs : Requested(t)' => Requested(t)
         /\ \A t \in Segs : Watched(t) /\ (\A u \in Segs : Requested(u) => u = t)
                              => Watched(t)' \/ ~Requested(t)'
<1>1. CASE OnFailure
  BY <1>1, CancelNarrow DEF OnFailure
<1>2. CASE first' = f /\ resent' = r /\ UNCHANGED info
  BY <1>2 DEF Requested, InMap, Pending, Watched
<1>3. CASE /\ \E t \in Segs \ {s} : InMap(t)
           /\ info' = [t \in Segs |-> IF t >= s THEN "Absent" ELSE info[t]]
           /\ first' = f \ InMapAbove(s) /\ resent' = r
  <2>1. \A t \in Segs : Requested(t)' => Requested(t)
    BY <1>3 DEF Requested, InMap, Pending
  <2>2. ~ \E t \in Segs : \A u \in Segs : Requested(u) => u = t
    BY <1>3 DEF Requested
  <2> QED
    BY <2>1, <2>2
<1> QED
  BY <1>1, <1>2, <1>3 DEF HandleFail

-----------------------------------------------------------------------------
(* What was requested is not past m_highInterest, nor is m_highData *)

(* The first Interests raise m_highInterest with every segment they request. *)
LEMMA SendFirstHigh ==
  ASSUME TypeOK, QueueInv, HighInv, NextSegmentNo \in Segs, SendFirst(NextSegmentNo),
         nextSegmentNo' = AfterSegment(NextSegmentNo), UNCHANGED <<highData, resent>>
  PROVE  HighInv'
<1> DEFINE s == NextSegmentNo
<1>1. /\ nextSegmentNo <= s /\ nextSegmentNo' = s + 1 /\ s \in Nat
      /\ nextSegmentNo \in Nat /\ highInterest \in Nat /\ highData \in Nat /\ Segs \subseteq Nat
  BY PlainNat DEF TypeOK
<1>2. highInterest' = s /\ first' = first \cup {s}
  BY DEF SendFirst
<1>3. info' = [info EXCEPT ![s] = "FirstTimeSent"]
  BY SendFirstPast
<1> HIDE DEF s
<1>4. \A t \in Segs : Requested(t)' => Requested(t) \/ t = s
  BY <1>2, <1>3 DEF Requested, InMap, Pending, TypeOK
<1>5. highInterest' <= nextSegmentNo' /\ highData' <= highInterest'
  BY <1>1, <1>2 DEF HighInv
<1>6. ASSUME NEW t \in Segs, Requested(t)' PROVE t <= highInterest'
  <2>1. t \in Nat
    BY <1>1
  <2>2. t <= highInterest \/ t = s
    BY <1>4, <1>6 DEF HighInv
  <2> QED
    BY <1>1, <1>2, <2>1, <2>2 DEF HighInv
<1> QED
  BY <1>5, <1>6 DEF HighInv

\* steps that request nothing
LEMMA KeepsHigh ==
  ASSUME TypeOK, HighInv, UNCHANGED highInterest, nextSegmentNo' >= nextSegmentNo,
         nextSegmentNo' \in Nat,
         \A t \in Segs : Requested(t)' => Requested(t),
         highData' = highData \/ highData' <= highInterest
  PROVE  HighInv'
<1>1. highInterest \in Nat /\ nextSegmentNo \in Nat
  BY DEF TypeOK
<1> QED
  BY <1>1 DEF HighInv

\* what is requested by a step, and that nothing else is
LEMMA StepRequests ==
  ASSUME TypeOK, QueueInv, [Next]_vars
  PROVE  \/ (Run \/ SendNext) /\ NextSegmentNo \in Segs /\ SendFirst(NextSegmentNo)
            /\ nextSegmentNo' = AfterSegment(NextSegmentNo) /\ UNCHANGED <<highData, resent>>
         \/ /\ UNCHANGED highInterest
            /\ \A t \in Segs : Requested(t)' => Requested(t)
            /\ \/ UNCHANGED highData
               \/ \E s \in Segs : Pending(s) /\ highData' = AtLeast(highData, s)
<1> USE DEF Requested, InMap, Pending
<1>1. CASE Run
  BY <1>1, MaySendFirstSeg DEF Run
<1>2. CASE SendNext
  BY <1>2, MaySendFirstSeg DEF SendNext
<1>3. CASE SkipRetx \/ CallOnFailure \/ UNCHANGED vars
  BY <1>3 DEF SkipRetx, CallOnFailure, vars, highVars, netVars
<1>4. CASE Retransmit
  <2> DEFINE s == Head(retxQueue)
  <2>1. s \in Segs /\ InMap(s) /\ UNCHANGED <<highInterest, highData>>
    BY <1>4 DEF TypeOK, Retransmit, highVars
  <2>2. CASE /\ info' = [info EXCEPT ![s] = "Retransmitted"]
             /\ first' = first \ {s} /\ resent' = [resent EXCEPT ![s] = @ + 1]
    <3> HIDE DEF s
    <3> QED
      BY <2>1, <2>2 DEF TypeOK
  <2>3. CASE HandleFail(s, first, resent)
    <3> HIDE DEF s
    <3> QED
      BY <2>1, <2>3, HandleFailNarrow
  <2> QED
    BY <1>4, <2>1, <2>2, <2>3 DEF Retransmit, Withdraw
<1>5. ASSUME NEW s \in Segs, CheckRto(s)
      PROVE  /\ UNCHANGED <<highInterest, highData>>
             /\ \A t \in Segs : Requested(t)' => Requested(t)
  <2>1. PICK T \in SUBSET Timed : info' = [t \in Segs |-> IF t \in T THEN "InRetxQueue" ELSE info[t]]
    BY <1>5 DEF CheckRto
  <2> QED
    BY <1>5, <2>1 DEF CheckRto, Timed, highVars, netVars
<1>6. ASSUME NEW s \in Segs, TakeOne(s), Requeue(s) \/ UNCHANGED info
      PROVE  \A t \in Segs : Requested(t)' => Requested(t)
  <2>1. Pending(s) /\ first' = FirstWithout(s) /\ resent' = ResentWithout(s)
    BY <1>6 DEF TakeOne
  <2>2. info' = [info EXCEPT ![s] = "InRetxQueue"] \/ UNCHANGED info
    BY <1>6 DEF Requeue
  <2> QED
    BY <2>1, <2>2, TakeOneRequested DEF TypeOK
<1>7. ASSUME NEW s \in Segs, HandleLifetimeExpiration(s) \/ HandleNack(s)
      PROVE  /\ UNCHANGED <<highInterest, highData>>
             /\ \A t \in Segs : Requested(t)' => Requested(t)
  <2>1. UNCHANGED <<highInterest, highData>>
    BY <1>7 DEF HandleLifetimeExpiration, HandleNack, Unanswered, highVars
  <2>2. CASE Pending(s) /\ HandleFail(s, FirstWithout(s), ResentWithout(s))
    BY <2>1, <2>2, TakeOneRequested, HandleFailNarrow
  <2> QED
    BY <1>6, <1>7, <2>1, <2>2 DEF HandleLifetimeExpiration, HandleNack
<1>8. ASSUME NEW s \in Segs, HandleData(s)
      PROVE  /\ UNCHANGED highInterest
             /\ \A t \in Segs : Requested(t)' => Requested(t)
             /\ Pending(s) /\ (UNCHANGED highData \/ highData' = AtLeast(highData, s))
  <2>1. Pending(s) /\ UNCHANGED highInterest
    BY <1>8, HandleDataCases
  <2>2. ASSUME Cancel
        PROVE  \A t \in Segs : Requested(t)' => Requested(t)
    BY <2>2, CancelNarrow
  <2>3. ASSUME NEW x, GoesOn(s), info' = [Kept(s) EXCEPT ![s] = x]
        PROVE  \A t \in Segs : Requested(t)' => Requested(t)
    <3>1. \A t \in Segs : t # s => info'[t] \in {"Absent", info[t]}
      BY <2>3 DEF Kept
    <3>2. \A t \in Segs : Pending(t)' => Pending(t)
      BY <2>1, <2>3, TakeOneRequested DEF GoesOn
    <3> QED
      BY <2>1, <3>1, <3>2
  <2> QED
    BY <1>8, <2>1, <2>2, <2>3, HandleDataCases
    DEF EndDisproved, OnFailure, SecondCopy, FirstCopy, NotLast, Accepted
<1> QED
  BY <1>1, <1>2, <1>3, <1>4, <1>5, <1>7, <1>8 DEF Next

(* Every step keeps every requested segment at or below m_highInterest. *)
LEMMA StepHigh ==
  ASSUME TypeOK, QueueInv, HighInv, [Next]_vars
  PROVE  HighInv'
<1>1. nextSegmentNo' \in Nat /\ nextSegmentNo' >= nextSegmentNo
  BY StepNext
<1>2. ASSUME NEW s \in Segs, Pending(s), highData' = AtLeast(highData, s)
      PROVE  highData' <= highInterest
  BY <1>2, PlainNat DEF HighInv, Requested, AtLeast, TypeOK
<1> QED
  BY <1>1, <1>2, StepRequests, SendFirstHigh, KeepsHigh

-----------------------------------------------------------------------------
(* A window of one segment, action by action *)

\* the first segment that run() requests is the only one
LEMMA RunNarrow ==
  ASSUME TypeOK, LoopRunning, QueueInv, PastInv, Narrow, Run
  PROVE  Narrow'
<1>1. ~started /\ UNCHANGED <<highData, recPoint, resent>> /\ avail' = 0
  BY DEF Run, windVars, LoopRunning, TypeOK
<1>2. nextSegmentNo = 0 /\ Segs \subseteq Nat
  BY <1>1, PlainNat DEF PastInv, BeforeRun
<1>3. \A t \in Segs : ~Requested(t)
  BY <1>2 DEF QueueInv, RequestedBelowNext, Requested
<1>4. CASE NextSegmentNo \in Segs /\ SendFirst(NextSegmentNo)
  <2>1. PICK s \in Segs : s = NextSegmentNo
    BY <1>4
  <2>2. info' = [info EXCEPT ![s] = "FirstTimeSent"] /\ first' = first \cup {s}
    BY <1>4, <2>1, SendFirstPast DEF SendFirst
  <2>3. Watched(s)' /\ \A t \in Segs : Requested(t)' => t = s
    BY <1>1, <1>3, <2>2 DEF Watched, Requested, InMap, Pending, TypeOK
  <2>4. OnlyOne'
    BY <2>3 DEF OnlyOne
  <2> QED
    BY <1>1, <2>4 DEF Narrow
<1>5. CASE UNCHANGED <<info, first>>
  BY <1>1, <1>3, <1>5 DEF Narrow, AllBelow, Requested, InMap, Pending
<1> QED
  BY <1>4, <1>5, MaySendFirstSeg DEF Run

\* a popped segment that is not in the map was not the one to retransmit
LEMMA SkipRetxNarrow ==
  ASSUME TypeOK, Narrow, SkipRetx
  PROVE  Narrow'
<1>1. /\ retxQueue' = Tail(retxQueue) /\ retxQueue # << >> /\ ~InMap(Head(retxQueue)) /\ avail > 0
      /\ UNCHANGED <<info, first, resent, highData, recPoint, avail>>
  BY DEF SkipRetx, windVars, highVars, netVars
<1>2. PICK s \in Segs : InMap(s) /\ InQueue(retxQueue, s)
  BY <1>1 DEF Narrow, LiveQueued
<1>3. InQueue(Tail(retxQueue), s)
  BY <1>1, <1>2, TailKeeps DEF TypeOK
<1>4. InMap(s)'
  BY <1>1, <1>2 DEF InMap
<1>5. LiveQueued'
  BY <1>1, <1>3, <1>4 DEF LiveQueued, InQueue
<1>6. (AllBelow \/ OnlyOne)'
  BY <1>1 DEF Narrow, AllBelow, OnlyOne, Watched, Requested, InMap, Pending
<1> QED
  BY <1>1, <1>5, <1>6 DEF Narrow

\* the one packet that may be sent is the retransmission
LEMMA RetransmitNarrow ==
  ASSUME TypeOK, WindowInv, Cwnd(window) = 1, Narrow, Retransmit
  PROVE  Narrow'
<1> DEFINE s == Head(retxQueue)
<1>1. /\ s \in Segs /\ InMap(s) /\ avail > 0 /\ UNCHANGED <<recPoint, highData>>
      /\ started /\ ~isStopping
  BY DEF TypeOK, Retransmit, windVars, highVars, WindowInv, LoopRunning
<1>2. avail = 1
  BY <1>1 DEF WindowInv, LoopInWindow, TypeOK
<1>3. CASE /\ info' = [info EXCEPT ![s] = "Retransmitted"]
           /\ first' = first \ {s} /\ resent' = [resent EXCEPT ![s] = @ + 1]
           /\ avail' = avail - 1
  <2> HIDE DEF s
  <2>1. \A t \in Segs : Requested(t)' => Requested(t)
    BY <1>1, <1>3 DEF TypeOK, Requested, InMap, Pending
  <2>2. \A t \in Segs : Watched(t) => Watched(t)'
    BY <1>3 DEF TypeOK, Watched
  <2>3. (AllBelow \/ OnlyOne)'
    BY <1>1, <2>1, <2>2, NothingRequested DEF Narrow
  <2> QED
    BY <1>1, <1>2, <1>3, <2>3 DEF Narrow
<1>4. CASE HandleFail(s, first, resent) /\ (isStopping' \/ avail' = avail - 1)
  <2> HIDE DEF s
  <2>1. /\ \A t \in Segs : Requested(t)' => Requested(t)
        /\ \A t \in Segs : Watched(t) /\ (\A u \in Segs : Requested(u) => u = t)
                             => Watched(t)' \/ ~Requested(t)'
    BY <1>1, <1>4, HandleFailNarrow DEF Requested, Pending
  <2>2. (AllBelow \/ OnlyOne)'
    BY <1>1, <2>1, NothingRequested DEF Narrow
  <2>3. (isStopping' = isStopping \/ avail' = 0) /\ isStopping = FALSE
    BY <1>1, <1>4, HandleFailType DEF TypeOK
  <2>4. avail' = 0
    BY <1>2, <1>4, <2>3
  <2> QED
    BY <1>1, <2>2, <2>4 DEF Narrow
<1> QED
  BY <1>3, <1>4 DEF Retransmit, Withdraw

\* handleTimeout() reduces a window of two segments at least, and queues what
\* the loop is to send
LEMMA HandleTimeoutOpen ==
  ASSUME ~DisableCwa, NEW Tame, Steady(Tame), TypeOK, HighInv, OpenInv(Tame), NEW n,
         HandleTimeout(n), UNCHANGED highVars, LiveQueued',
         \A t \in Segs : Requested(t)' => Requested(t),
         \A t \in Segs : Watched(t) => Watched(t)'
  PROVE  OpenInv(Tame)'
<1>1. UNCHANGED <<highData, highInterest>> /\ highData \in Nat /\ recPoint \in Nat
  BY DEF highVars, TypeOK
<1>2. CASE highData > recPoint
  <2>1. recPoint' = highInterest /\ window' \in Decreased(window)
    BY <1>2 DEF HandleTimeout, DecreaseWindow
  <2>2. window' \in Tame => window \in Tame /\ (Cwnd(window) >= 2 => Cwnd(window') >= 1)
    BY <2>1 DEF Steady, TypeOK
  <2>3. window \in Tame => Cwnd(window) >= 1 /\ Cwnd(window) # 1
    BY <1>1, <1>2 DEF OpenInv, Narrow
  <2>4. Cwnd(window) \in Nat
    BY WindowAssumption DEF TypeOK
  <2>5. AllBelow' /\ highData' <= recPoint'
    BY <1>1, <2>1 DEF HighInv, AllBelow
  <2> QED
    BY <2>2, <2>3, <2>4, <2>5 DEF OpenInv, Narrow
<1>3. CASE ~(highData > recPoint)
  <2>1. UNCHANGED <<recPoint, window>>
    BY <1>3 DEF HandleTimeout, windVars
  <2>2. Narrow => Narrow'
    BY <1>1, <2>1, NothingRequested DEF Narrow
  <2> QED
    BY <2>1, <2>2 DEF OpenInv
<1> QED
  BY <1>2, <1>3

(* The RTO check leaves the window in Tame and the loop something to retransmit. *)
LEMMA CheckRtoOpen ==
  ASSUME ~DisableCwa, NEW Tame, Steady(Tame), TypeOK, HighInv, OpenInv(Tame),
         NEW s \in Segs, CheckRto(s)
  PROVE  OpenInv(Tame)'
<1>1. PICK T \in SUBSET Timed :
        /\ s \in T
        /\ \E q \in SetToSeqs(T) : retxQueue' = retxQueue \o q
        /\ info' = [t \in Segs |-> IF t \in T THEN "InRetxQueue" ELSE info[t]]
        /\ HandleTimeout(Cardinality(T))
  BY DEF CheckRto
<1>2. PICK q \in SetToSeqs(T) : retxQueue' = retxQueue \o q
  BY <1>1
<1>3. T \in SUBSET Segs
  BY DEF Timed
<1>4. q \in Seq(Segs) /\ InQueue(q, s)
  BY <1>1, <1>3, QueueOrder DEF InQueue
<1>5. InQueue(retxQueue \o q, s)
  BY <1>4, ConcatKeeps DEF TypeOK
<1>6. InMap(s)'
  BY <1>1 DEF InMap
<1>7. LiveQueued'
  BY <1>2, <1>5, <1>6 DEF LiveQueued, InQueue
<1>8. \A t \in Segs : info'[t] \in {info[t], "InRetxQueue"} /\ (info'[t] # "Absent" => info[t] # "Absent")
  BY <1>1 DEF Timed
<1>9. UNCHANGED <<highVars, first, resent>>
  BY DEF CheckRto, netVars
<1>10. /\ \A t \in Segs : Requested(t)' => Requested(t)
       /\ \A t \in Segs : Watched(t) => Watched(t)'
  BY <1>8, <1>9 DEF Requested, InMap, Pending, Watched
<1> QED
  BY <1>1, <1>7, <1>9, <1>10, HandleTimeoutOpen

(* Queueing a segment for retransmission keeps the window open. *)
LEMMA RequeueOpen ==
  ASSUME ~DisableCwa, NEW Tame, Steady(Tame), TypeOK, HighInv, OpenInv(Tame),
         NEW s \in Segs, TakeOne(s), Requeue(s), Unanswered(s)
  PROVE  OpenInv(Tame)'
<1>1. /\ retxQueue' = Append(retxQueue, s) /\ info' = [info EXCEPT ![s] = "InRetxQueue"]
      /\ Pending(s) /\ first' = FirstWithout(s) /\ resent' = ResentWithout(s)
      /\ HandleTimeout(1) /\ UNCHANGED highVars
  BY DEF Requeue, TakeOne, Unanswered
<1>2. InQueue(retxQueue', s)
  BY <1>1, AppendKeeps DEF TypeOK
<1>3. InMap(s)'
  BY <1>1 DEF InMap, TypeOK
<1>4. LiveQueued'
  BY <1>2, <1>3 DEF LiveQueued, InQueue
<1>5. /\ \A t \in Segs : Requested(t)' => Requested(t)
      /\ \A t \in Segs : Watched(t) => Watched(t)'
  BY <1>1, TakeOneRequested DEF Requested, InMap, Pending, Watched, TypeOK
<1> QED
  BY <1>1, <1>4, <1>5, HandleTimeoutOpen

\* a Nack that is no sign of congestion leaves the window alone
LEMMA HandleNackOpen ==
  ASSUME ~DisableCwa, NEW Tame, Steady(Tame), TypeOK, HighInv, OpenInv(Tame),
         NEW s \in Segs, HandleNack(s)
  PROVE  OpenInv(Tame)'
<1>1. Unanswered(s) /\ UNCHANGED highData /\ avail = 0 /\ Pending(s)
  BY DEF HandleNack, Unanswered, highVars, Calm, TakeOne
<1>2. CASE TakeOne(s) /\ Requeue(s)
  BY <1>1, <1>2, RequeueOpen
<1>3. ASSUME UNCHANGED windVars, avail' = 0,
             \A t \in Segs : Requested(t)' => Requested(t),
             \A t \in Segs : Watched(t) /\ (\A u \in Segs : Requested(u) => u = t)
                               => Watched(t)' \/ ~Requested(t)'
      PROVE  OpenInv(Tame)'
  <2>1. UNCHANGED <<window, recPoint>>
    BY <1>3 DEF windVars
  <2>2. Narrow => Narrow'
    BY <1>1, <1>3, <2>1, NothingRequested DEF Narrow
  <2> QED
    BY <2>1, <2>2 DEF OpenInv
<1>4. CASE TakeOne(s) /\ UNCHANGED <<windVars, info, avail>>
  <2>1. /\ \A t \in Segs : Requested(t)' => Requested(t)
        /\ \A t \in Segs : Watched(t) => Watched(t)'
    BY <1>4, TakeOneRequested DEF TakeOne, Requested, InMap, Pending, Watched
  <2> QED
    BY <1>1, <1>3, <1>4, <2>1
<1>5. CASE HandleFail(s, FirstWithout(s), ResentWithout(s)) /\ avail' = 0 /\ UNCHANGED windVars
  BY <1>1, <1>3, <1>5, TakeOneRequested, HandleFailNarrow DEF Requested
<1> QED
  BY <1>2, <1>4, <1>5 DEF HandleNack

\* Data opens the window, or was not past m_recPoint
LEMMA HandleDataOpen ==
  ASSUME NEW Tame, Steady(Tame), TypeOK, QueueInv, OpenInv(Tame), NEW s \in Segs, HandleData(s)
  PROVE  OpenInv(Tame)'
<1>1. Pending(s) /\ avail = 0
  BY HandleDataCases
<1>2. CASE EndDisproved(s)
  <2>1. Cancel /\ UNCHANGED <<window, recPoint, highData>>
    BY <1>2 DEF EndDisproved, OnFailure, windVars
  <2>2. Narrow => Narrow'
    BY <2>1, CancelNarrow DEF Narrow
  <2> QED
    BY <2>1, <2>2 DEF OpenInv
<1>3. CASE SecondCopy(s) /\ StateOf(s) \in Ignored
  <2>1. /\ UNCHANGED <<window, recPoint>> /\ avail' = 0 /\ highData' = AtLeast(highData, s)
        /\ info' = [Kept(s) EXCEPT ![s] = "Absent"]
        /\ first' = FirstWithout(s) \ Above(s) /\ resent' = ResentWithout(s)
    BY <1>1, <1>3 DEF SecondCopy, Accepted, GoesOn, windVars
  <2>2. ~Watched(s)
    BY <1>3 DEF Ignored, StateOf, Watched, InMap
  <2>3. \A t \in Segs : Requested(t)' => Requested(t)
    <3>1. \A t \in Segs : info'[t] \in {"Absent", info[t]}
      BY <2>1 DEF Kept
    <3>2. \A t \in Segs : Pending(t)' => Pending(t)
      BY <1>1, <2>1, TakeOneRequested DEF Pending
    <3> QED
      BY <3>1, <3>2 DEF Requested, InMap
  <2>4. ASSUME Narrow PROVE Narrow'
    <3>1. AllBelow
      BY <1>1, <2>2, <2>4 DEF Narrow, OnlyOne, Requested
    <3>2. highData' <= recPoint
      BY <1>1, <2>1, <2>4, <3>1 DEF Narrow, AllBelow, Requested, AtLeast
    <3>3. AllBelow'
      BY <2>1, <2>3, <3>1 DEF AllBelow
    <3> QED
      BY <2>1, <3>2, <3>3 DEF Narrow
  <2> QED
    BY <2>1, <2>4 DEF OpenInv
<1>4. CASE FirstCopy(s)
  <2>1. window' \in Increased(window)
    BY <1>4 DEF FirstCopy, IncreaseWindow
  <2>2. window' \in Tame => window \in Tame /\ (Cwnd(window) >= 1 => Cwnd(window') >= 2)
    BY <2>1 DEF Steady, TypeOK
  <2>3. window' \in Tame => Cwnd(window') >= 2
    BY <2>2 DEF OpenInv
  <2>4. Cwnd(window') \in Nat
    BY <1>4, IncreaseWindowType, WindowAssumption DEF FirstCopy
  <2> QED
    BY <2>3, <2>4 DEF OpenInv
<1> QED
  BY <1>2, <1>3, <1>4, HandleDataStates

\* no step closes a window
LEMMA StepOpen ==
  ASSUME ~DisableCwa, NEW Tame, Steady(Tame), TypeOK, WindowInv, QueueInv, PastInv, HighInv,
         OpenInv(Tame), [Next]_vars
  PROVE  OpenInv(Tame)'
<1>1. ASSUME UNCHANGED window, Cwnd(window) = 1 /\ Narrow => Narrow'
      PROVE  OpenInv(Tame)'
  BY <1>1 DEF OpenInv
<1>2. CASE Run
  BY <1>1, <1>2, RunNarrow DEF Run, windVars, WindowInv
<1>3. CASE SendNext
  <2>1. ~Narrow
    BY <1>3 DEF SendNext, Narrow, LiveQueued, InQueue
  <2> QED
    BY <1>1, <1>3, <2>1 DEF SendNext, windVars
<1>4. CASE SkipRetx
  BY <1>1, <1>4, SkipRetxNarrow DEF SkipRetx, windVars
<1>5. CASE Retransmit
  BY <1>1, <1>5, RetransmitNarrow DEF Retransmit, windVars
<1>6. ASSUME NEW s \in Segs,
             CheckRto(s) \/ HandleLifetimeExpiration(s) \/ HandleNack(s) \/ HandleData(s)
      PROVE  OpenInv(Tame)'
  BY <1>6, CheckRtoOpen, RequeueOpen, HandleNackOpen, HandleDataOpen DEF HandleLifetimeExpiration
<1>7. CASE CallOnFailure \/ UNCHANGED vars
  BY <1>7
  DEF CallOnFailure, vars, windVars, highVars, netVars, OpenInv, Narrow, AllBelow, OnlyOne, LiveQueued,
      Requested, InMap, Pending, Watched, InQueue
<1> QED
  BY <1>2, <1>3, <1>4, <1>5, <1>6, <1>7 DEF Next

\* nothing is requested at the start
LEMMA InitHigh == Init => HighInv
  BY DEF Init, HighInv, Requested, InMap, Pending

\* the window starts open
LEMMA InitOpen ==
  ASSUME NEW Tame, Steady(Tame), Init
  PROVE  OpenInv(Tame)
<1>1. \A s \in Segs : ~Requested(s)
  BY DEF Init, Requested, InMap, Pending
<1> QED
  BY <1>1 DEF Init, OpenInv, Narrow, AllBelow, Steady

\* every step keeps what is true for any window
LEMMA StepKeeps ==
  ASSUME IInv, PastInv, HighInv, [Next]_vars
  PROVE  IInv' /\ PastInv' /\ HighInv'
<1>1. TypeOK /\ WindowInv /\ QueueInv /\ LoopRunning
  BY DEF IInv, WindowInv
<1> QED
  BY <1>1, StepType, StepWindow, StepQueue, StepPast, StepHigh DEF IInv

\* every step keeps the window open
LEMMA StepKeepsOpen ==
  ASSUME ~DisableCwa, NEW Tame, Steady(Tame), IInv, PastInv, HighInv, OpenInv(Tame), [Next]_vars
  PROVE  OpenInv(Tame)'
  BY StepOpen DEF IInv

(* With conservative window adaptation the window never closes, for any network
   and any number of retries, as long as increaseWindow() makes at least two
   segments of an open window and decreaseWindow() leaves one of two. *)
THEOREM WindowNeverCloses ==
  ASSUME ~DisableCwa, NEW Tame, Steady(Tame)
  PROVE  Spec => [](window \in Tame => Cwnd(window) >= 1)
<1>1. Init => HighInv /\ OpenInv(Tame)
  BY InitHigh, InitOpen
<1>2. IInv /\ PastInv /\ HighInv /\ OpenInv(Tame) /\ [Next]_vars => HighInv' /\ OpenInv(Tame)'
  BY StepKeeps, StepKeepsOpen
<1>3. OpenInv(Tame) => (window \in Tame => Cwnd(window) >= 1)
  BY DEF OpenInv
<1> QED
  BY <1>1, <1>2, <1>3, Inductive, PastInductive, PTL DEF Spec


-----------------------------------------------------------------------------
(* Counting once on a network that only loses packets. A segment that is asked
   for again and again is counted once if handleData() ignores what is not in
   m_segmentInfo: a segment is in the queue at most once and only as long as it
   waits there, so that what was delivered is marked RetxReceived or erased. *)

InQueueOnce == \A i, j \in 1 .. Len(retxQueue) : retxQueue[i] = retxQueue[j] => i = j
QueuedWaits == \A s \in Segs : InQueue(retxQueue, s) =>
                 s < nextSegmentNo /\ info[s] \in {"InRetxQueue", "Absent"}
DeliveredIgnored == \A s \in Segs : s \in delivered => info[s] \in Ignored
LossyInv == InQueueOnce /\ QueuedWaits /\ DeliveredIgnored

\* the steps of a pipeline on such a network
LossyNext ==
  \/ Run \/ SendNext \/ SkipRetx \/ Retransmit \/ CallOnFailure
  \/ \E s \in Segs : CheckRto(s) \/ HandleData(s)

\* a queue without its head
LEMMA TailOnce ==
  ASSUME NEW q \in Seq(Segs), q # << >>,
         \A i, j \in 1 .. Len(q) : q[i] = q[j] => i = j
  PROVE  /\ \A i, j \in 1 .. Len(Tail(q)) : Tail(q)[i] = Tail(q)[j] => i = j
         /\ \A t : InQueue(Tail(q), t) => InQueue(q, t) /\ t # Head(q)
<1>1. /\ Len(q) \in Nat /\ Len(q) # 0 /\ Len(Tail(q)) = Len(q) - 1
      /\ \A i \in 1 .. Len(Tail(q)) : Tail(q)[i] = q[i + 1]
      /\ Head(q) = q[1]
  OBVIOUS
<1>2. \A i \in 1 .. Len(Tail(q)) : i + 1 \in 1 .. Len(q) /\ i + 1 # 1
  BY <1>1
<1>3. 1 \in 1 .. Len(q)
  BY <1>1
<1>4. ASSUME NEW i \in 1 .. Len(Tail(q)), NEW j \in 1 .. Len(Tail(q)), Tail(q)[i] = Tail(q)[j]
      PROVE  i = j
  <2>1. q[i + 1] = q[j + 1]
    BY <1>1, <1>4
  <2>2. i + 1 = j + 1
    BY <1>2, <2>1
  <2> QED
    BY <1>1, <2>2
<1>5. ASSUME NEW t, NEW i \in 1 .. Len(Tail(q)), Tail(q)[i] = t
      PROVE  InQueue(q, t) /\ t # Head(q)
  <2>1. q[i + 1] = t
    BY <1>1, <1>5
  <2> QED
    BY <1>1, <1>2, <1>3, <2>1 DEF InQueue
<1> QED
  BY <1>4, <1>5 DEF InQueue

\* two queues that share no segment, one after the other
LEMMA ConcatOnce ==
  ASSUME NEW q \in Seq(Segs), NEW p \in Seq(Segs),
         \A i, j \in 1 .. Len(q) : q[i] = q[j] => i = j,
         \A i, j \in 1 .. Len(p) : p[i] = p[j] => i = j,
         \A t : ~(InQueue(q, t) /\ InQueue(p, t))
  PROVE  /\ \A i, j \in 1 .. Len(q \o p) : (q \o p)[i] = (q \o p)[j] => i = j
         /\ \A t : InQueue(q \o p, t) => InQueue(q, t) \/ InQueue(p, t)
<1> DEFINE n == Len(q)
           m == Len(p)
           r == q \o p
<1>1. /\ n \in Nat /\ m \in Nat /\ Len(r) = n + m
      /\ \A i \in 1 .. n + m : r[i] = IF i <= n THEN q[i] ELSE p[i - n]
  OBVIOUS
<1>2. ASSUME NEW i \in 1 .. n + m
      PROVE  \/ i \in 1 .. n /\ r[i] = q[i] /\ InQueue(q, r[i])
             \/ i - n \in 1 .. m /\ r[i] = p[i - n] /\ InQueue(p, r[i])
  <2>1. CASE i <= n
    <3>1. i \in 1 .. n /\ r[i] = q[i]
      BY <1>1, <2>1
    <3> QED
      BY <3>1 DEF InQueue
  <2>2. CASE ~(i <= n)
    <3>1. i - n \in 1 .. m /\ r[i] = p[i - n]
      BY <1>1, <2>2
    <3> QED
      BY <3>1 DEF InQueue
  <2> QED
    BY <2>1, <2>2
<1> HIDE DEF r, n, m
<1>3. ASSUME NEW i \in 1 .. n + m, NEW j \in 1 .. n + m, r[i] = r[j]
      PROVE  i = j
  <2>1. CASE i \in 1 .. n /\ r[i] = q[i] /\ j \in 1 .. n /\ r[j] = q[j]
    BY <1>3, <2>1 DEF n
  <2>2. CASE i - n \in 1 .. m /\ r[i] = p[i - n] /\ j - n \in 1 .. m /\ r[j] = p[j - n]
    <3>1. i - n = j - n
      BY <1>3, <2>2 DEF m
    <3> QED
      BY <1>1, <3>1
  <2> QED
    BY <1>2, <1>3, <2>1, <2>2
<1>4. ASSUME NEW t, InQueue(r, t) PROVE InQueue(q, t) \/ InQueue(p, t)
  <2>1. PICK i \in 1 .. n + m : r[i] = t
    BY <1>1, <1>4 DEF InQueue
  <2> QED
    BY <1>2, <2>1
<1> QED
  BY <1>1, <1>3, <1>4 DEF r

\* the order checkRto() queues segments in has each of them once
LEMMA QueueOrderOnce ==
  ASSUME NEW T \in SUBSET Segs, NEW q \in SetToSeqs(T)
  PROVE  /\ q \in Seq(Segs)
         /\ \A i, j \in 1 .. Len(q) : q[i] = q[j] => i = j
         /\ \A t : InQueue(q, t) => t \in T
<1>1. Cardinality(T) \in Nat
  BY CountableParts
<1>2. q \in [1 .. Cardinality(T) -> T] /\ \A i, j \in 1 .. Cardinality(T) : i # j => q[i] # q[j]
  BY DEF SetToSeqs
<1>3. Len(q) = Cardinality(T)
  BY <1>1, <1>2
<1> QED
  BY <1>2, <1>3, QueueOrder DEF InQueue

\* a step that queues nothing, delivers nothing and marks nothing
LEMMA NothingMarked ==
  ASSUME TypeOK, LossyInv, UNCHANGED delivered,
         nextSegmentNo' \in Nat, nextSegmentNo' >= nextSegmentNo,
         \A i, j \in 1 .. Len(retxQueue') : retxQueue'[i] = retxQueue'[j] => i = j,
         \A t \in Segs : InQueue(retxQueue', t) => InQueue(retxQueue, t),
         \A t \in Segs : \/ info'[t] \in {"Absent", info[t]}
                         \/ t \notin delivered /\ ~InQueue(retxQueue', t)
  PROVE  LossyInv'
<1>1. Segs \subseteq Nat /\ nextSegmentNo \in Nat
  BY PlainNat DEF TypeOK
<1>2. InQueueOnce'
  BY DEF InQueueOnce
<1>3. QueuedWaits'
  <2> SUFFICES ASSUME NEW t \in Segs, InQueue(retxQueue', t)
               PROVE  t < nextSegmentNo' /\ info'[t] \in {"InRetxQueue", "Absent"}
    BY DEF QueuedWaits, InQueue
  <2>1. t < nextSegmentNo /\ info[t] \in {"InRetxQueue", "Absent"}
    BY DEF LossyInv, QueuedWaits
  <2> QED
    BY <1>1, <2>1
<1>4. DeliveredIgnored'
  BY DEF LossyInv, DeliveredIgnored, Ignored
<1> QED
  BY <1>2, <1>3, <1>4 DEF LossyInv

\* the next segment is new to the queue and to what was delivered
LEMMA SendFirstLossy ==
  ASSUME TypeOK, QueueInv, FetchInv, LossyInv, NextSegmentNo \in Segs, SendFirst(NextSegmentNo),
         UNCHANGED <<retxQueue, delivered>>, nextSegmentNo' = AfterSegment(NextSegmentNo)
  PROVE  LossyInv'
<1>1. PICK s \in Segs : s = NextSegmentNo
  OBVIOUS
<1>2. /\ nextSegmentNo <= s /\ nextSegmentNo \in Nat /\ s \in Nat
      /\ nextSegmentNo' \in Nat /\ nextSegmentNo' >= nextSegmentNo
  BY <1>1, PlainNat DEF TypeOK
<1>3. ~(s < nextSegmentNo) /\ s # content.excluded
  BY <1>1, <1>2 DEF NextSegmentNo
<1>4. s \notin delivered /\ ~InQueue(retxQueue, s)
  BY <1>3 DEF FetchInv, NotYetStepped, LossyInv, QueuedWaits
<1>5. info' = [info EXCEPT ![s] = "FirstTimeSent"]
  BY <1>1, SendFirstPast
<1>6. \A t \in Segs : info'[t] = info[t] \/ t = s
  BY <1>5 DEF TypeOK
<1> QED
  BY <1>2, <1>4, <1>6, NothingMarked DEF LossyInv, InQueueOnce

(* Starting the pipeline keeps the fetching invariant of a lossy network. *)
LEMMA RunLossy ==
  ASSUME TypeOK, QueueInv, PastInv, FetchInv, LossyInv, Run
  PROVE  LossyInv'
<1>1. /\ ~started /\ delivered' = {content.excluded} /\ UNCHANGED retxQueue
      /\ nextSegmentNo' = AfterSegment(NextSegmentNo)
  BY DEF Run
<1>2. nextSegmentNo = 0 /\ Segs \subseteq Nat
  BY <1>1, PlainNat DEF PastInv, BeforeRun
<1>3. \A t \in Segs : ~InQueue(retxQueue, t) /\ info[t] = "Absent"
  <2>1. \A t \in Segs : ~(t < nextSegmentNo)
    BY <1>2
  <2> QED
    BY <2>1 DEF QueueInv, RequestedBelowNext, InMap, LossyInv, QueuedWaits
<1>4. \A t \in Segs : t = content.excluded => info'[t] = "Absent"
  <2>1. CASE NextSegmentNo \in Segs /\ SendFirst(NextSegmentNo)
    <3>1. NextSegmentNo # content.excluded
      BY <1>2, PlainNat DEF NextSegmentNo
    <3>2. PICK s \in Segs : s = NextSegmentNo
      BY <2>1
    <3>3. info' = [info EXCEPT ![s] = "FirstTimeSent"]
      BY <2>1, <3>2, SendFirstPast
    <3> QED
      BY <1>3, <3>1, <3>2, <3>3 DEF TypeOK
  <2>2. CASE UNCHANGED info
    BY <1>3, <2>2
  <2> QED
    BY <2>1, <2>2, MaySendFirstSeg DEF Run
<1>5. InQueueOnce'
  BY <1>1 DEF LossyInv, InQueueOnce
<1>6. QueuedWaits' /\ DeliveredIgnored'
  BY <1>1, <1>3, <1>4 DEF QueuedWaits, InQueue, DeliveredIgnored, Ignored
<1> QED
  BY <1>5, <1>6 DEF LossyInv

(* Sending one more Interest keeps the fetching invariant of a lossy network. *)
LEMMA SendNextLossy ==
  ASSUME TypeOK, QueueInv, FetchInv, LossyInv, SendNext
  PROVE  LossyInv'
<1>1. UNCHANGED <<retxQueue, delivered>> /\ nextSegmentNo' = AfterSegment(NextSegmentNo)
  BY DEF SendNext
<1>2. CASE NextSegmentNo \in Segs /\ SendFirst(NextSegmentNo)
  BY <1>1, <1>2, SendFirstLossy
<1>3. CASE UNCHANGED info
  BY <1>1, <1>3, PlainNat, NothingMarked DEF TypeOK, LossyInv, InQueueOnce
<1> QED
  BY <1>2, <1>3, MaySendFirstSeg DEF SendNext

\* what is popped leaves the queue for good
LEMMA PopLossy ==
  ASSUME TypeOK, LossyInv, SkipRetx \/ Retransmit
  PROVE  LossyInv'
<1>1. /\ retxQueue # << >> /\ retxQueue' = Tail(retxQueue) /\ UNCHANGED <<delivered, nextSegmentNo>>
      /\ nextSegmentNo' \in Nat /\ nextSegmentNo' >= nextSegmentNo
  <2>1. CASE SkipRetx
    BY <2>1 DEF SkipRetx, TypeOK
  <2>2. CASE Retransmit
    BY <2>2 DEF Retransmit, TypeOK
  <2> QED
    BY <2>1, <2>2
<1>2. PICK s \in Segs : s = Head(retxQueue)
  BY <1>1 DEF TypeOK
<1>3. /\ \A i, j \in 1 .. Len(retxQueue') : retxQueue'[i] = retxQueue'[j] => i = j
      /\ \A t : InQueue(retxQueue', t) => InQueue(retxQueue, t) /\ t # s
  <2>1. /\ retxQueue \in Seq(Segs) /\ retxQueue # << >>
        /\ \A i, j \in 1 .. Len(retxQueue) : retxQueue[i] = retxQueue[j] => i = j
    BY <1>1 DEF TypeOK, LossyInv, InQueueOnce
  <2>2. /\ \A i, j \in 1 .. Len(Tail(retxQueue)) : Tail(retxQueue)[i] = Tail(retxQueue)[j] => i = j
        /\ \A t : InQueue(Tail(retxQueue), t) => InQueue(retxQueue, t) /\ t # Head(retxQueue)
    BY <2>1, TailOnce
  <2> QED
    BY <1>1, <1>2, <2>2
<1>4. CASE SkipRetx
  BY <1>1, <1>3, <1>4, NothingMarked DEF SkipRetx
<1>5. CASE Retransmit
  <2>1. InQueue(retxQueue, s) /\ InMap(s)
    <3>1. 1 \in 1 .. Len(retxQueue) /\ retxQueue[1] = s
      BY <1>1, <1>2 DEF TypeOK
    <3> QED
      BY <1>2, <1>5, <3>1 DEF InQueue, Retransmit
  <2>2. s \notin delivered
    BY <2>1 DEF LossyInv, QueuedWaits, DeliveredIgnored, Ignored, InMap
  <2>3. CASE info' = [info EXCEPT ![s] = "Retransmitted"]
    <3>1. \A t \in Segs : t # s => info'[t] = info[t]
      BY <2>3 DEF TypeOK
    <3> QED
      BY <1>1, <1>3, <2>2, <3>1, NothingMarked
  <2>4. CASE HandleFail(s, first, resent)
    <3>1. \A t \in Segs : info'[t] \in {"Absent", info[t]}
      BY <2>4 DEF HandleFail, OnFailure, Cancel
    <3> QED
      BY <1>1, <1>3, <3>1, NothingMarked
  <2> QED
    BY <1>2, <1>5, <2>3, <2>4 DEF Retransmit
<1> QED
  BY <1>4, <1>5

\* the timers of segments that wait in the queue are not looked at
LEMMA CheckRtoLossy ==
  ASSUME TypeOK, QueueInv, LossyInv, NEW s \in Segs, CheckRto(s)
  PROVE  LossyInv'
<1>1. PICK T \in SUBSET Timed :
        /\ \E q \in SetToSeqs(T) : retxQueue' = retxQueue \o q
        /\ info' = [t \in Segs |-> IF t \in T THEN "InRetxQueue" ELSE info[t]]
  BY DEF CheckRto
<1>2. PICK q \in SetToSeqs(T) : retxQueue' = retxQueue \o q
  BY <1>1
<1>3. T \in SUBSET Segs /\ UNCHANGED <<delivered, nextSegmentNo>>
  BY DEF Timed, CheckRto
<1>4. /\ q \in Seq(Segs)
      /\ \A i, j \in 1 .. Len(q) : q[i] = q[j] => i = j
      /\ \A t : InQueue(q, t) => t \in T
  BY <1>3, QueueOrderOnce
<1>5. \A t \in T : /\ info[t] \in {"FirstTimeSent", "Retransmitted"} /\ ~InQueue(retxQueue, t)
                   /\ t \notin delivered /\ t < nextSegmentNo
  BY <1>3
  DEF Timed, LossyInv, QueuedWaits, DeliveredIgnored, Ignored, QueueInv, RequestedBelowNext, InMap
<1>6. /\ \A i, j \in 1 .. Len(retxQueue') : retxQueue'[i] = retxQueue'[j] => i = j
      /\ \A t : InQueue(retxQueue', t) => InQueue(retxQueue, t) \/ InQueue(q, t)
  <2>1. \A t : ~(InQueue(retxQueue, t) /\ InQueue(q, t))
    BY <1>4, <1>5
  <2>2. \A i, j \in 1 .. Len(retxQueue) : retxQueue[i] = retxQueue[j] => i = j
    BY DEF LossyInv, InQueueOnce
  <2>3. retxQueue \in Seq(Segs)
    BY DEF TypeOK
  <2> QED
    BY <1>2, <1>4, <2>1, <2>2, <2>3, ConcatOnce
<1>7. InQueueOnce'
  BY <1>6 DEF InQueueOnce
<1>8. QueuedWaits'
  <2> SUFFICES ASSUME NEW t \in Segs, InQueue(retxQueue', t)
               PROVE  t < nextSegmentNo' /\ info'[t] \in {"InRetxQueue", "Absent"}
    BY DEF QueuedWaits, InQueue
  <2>1. CASE InQueue(retxQueue, t)
    BY <1>1, <1>3, <2>1 DEF LossyInv, QueuedWaits
  <2>2. CASE InQueue(q, t)
    BY <1>1, <1>3, <1>4, <1>5, <2>2
  <2> QED
    BY <1>6, <2>1, <2>2
<1>9. DeliveredIgnored'
  BY <1>1, <1>3, <1>5 DEF LossyInv, DeliveredIgnored
<1> QED
  BY <1>7, <1>8, <1>9 DEF LossyInv

\* Data that is counted leaves its segment ignored
LEMMA HandleDataLossy ==
  ASSUME TypeOK, LossyInv, NEW s \in Segs, HandleData(s)
  PROVE  LossyInv'
<1>1. UNCHANGED <<retxQueue, nextSegmentNo>>
  BY HandleDataCases
<1>2. \A t \in Segs : t # s => info'[t] \in {"Absent", info[t]}
  BY HandleDataCases
  DEF EndDisproved, OnFailure, Cancel, SecondCopy, NotLast, Kept
<1>3. info'[s] = "Absent" \/ (info'[s] = "RetxReceived" /\ info[s] = "Retransmitted")
      \/ (info'[s] = info[s] /\ UNCHANGED delivered)
  <2>1. CASE Cancel
    BY <2>1 DEF Cancel
  <2>2. CASE SecondCopy(s)
    BY <2>2 DEF SecondCopy, Kept
  <2>3. CASE NotLast(s)
    <3>1. info'[s] = StateAfterData(StateOf(s))
      BY <2>3 DEF NotLast, Kept
    <3> QED
      BY <3>1 DEF StateAfterData, StateOf
  <2> QED
    BY <2>1, <2>2, <2>3, HandleDataCases DEF EndDisproved, OnFailure
<1>4. \A t \in delivered' : t \in delivered \/ t = s
  BY HandleDataCases DEF EndDisproved, SecondCopy, FirstCopy
<1>5. InQueueOnce' /\ QueuedWaits'
  BY <1>1, <1>2, <1>3 DEF LossyInv, InQueueOnce, QueuedWaits, InQueue
<1>6. DeliveredIgnored'
  BY <1>2, <1>3, <1>4 DEF LossyInv, DeliveredIgnored, Ignored
<1> QED
  BY <1>5, <1>6 DEF LossyInv

(* Every step of a lossy network keeps its invariant. *)
LEMMA StepLossy ==
  ASSUME TypeOK, QueueInv, PastInv, FetchInv, LossyInv, LossyNext \/ UNCHANGED vars
  PROVE  LossyInv'
<1>1. CASE Run
  BY <1>1, RunLossy
<1>2. CASE SendNext
  BY <1>2, SendNextLossy
<1>3. CASE SkipRetx \/ Retransmit
  BY <1>3, PopLossy
<1>4. ASSUME NEW s \in Segs, CheckRto(s) \/ HandleData(s)
      PROVE  LossyInv'
  BY <1>4, CheckRtoLossy, HandleDataLossy
<1>5. CASE CallOnFailure \/ UNCHANGED vars
  BY <1>5 DEF CallOnFailure, vars, LossyInv, InQueueOnce, QueuedWaits, DeliveredIgnored, InQueue
<1> QED
  BY <1>1, <1>2, <1>3, <1>4, <1>5 DEF LossyNext

\* what is delivered is ignored, so what is not ignored is counted for the first time
LEMMA StepCountedLossy ==
  ASSUME IgnoresUnknown, TypeOK, QueueInv, PastInv, FetchInv, LossyInv, CountedDelivered,
         LossyNext \/ UNCHANGED vars
  PROVE  FetchInv' /\ LossyInv' /\ CountedDelivered'
<1>1. [Next]_vars
  BY DEF LossyNext, Next
<1>2. CASE CountedDelivered'
  BY <1>1, <1>2, StepFetch, StepLossy
<1>3. ASSUME NEW s \in Segs, HandleData(s), delivered' = delivered \cup {s}, s \in delivered,
             nReceived' = nReceived + 1
      PROVE  FALSE
  <2>1. info[s] \in Ignored /\ StateOf(s) = info[s]
    BY <1>3 DEF LossyInv, DeliveredIgnored, StateOf
  <2>2. EndDisproved(s) \/ SecondCopy(s)
    BY <1>3, <2>1, HandleDataStates
  <2>3. UNCHANGED nReceived
    BY <2>2 DEF EndDisproved, SecondCopy
  <2>4. nReceived \in Nat
    BY DEF TypeOK
  <2> QED
    BY <1>3, <2>3, <2>4
<1>4. \A s \in Segs : HandleData(s) /\ FirstCopy(s) => s \notin delivered
  BY <1>3 DEF FirstCopy
<1> QED
  BY <1>1, <1>4, StepFetch, StepLossy, StepCounted

(* The invariant of a lossy network holds at the start. *)
LEMMA InitLossy == Init => FetchInv /\ LossyInv /\ CountedDelivered
<1> SUFFICES ASSUME Init PROVE LossyInv
  BY InitCount
<1>1. Len(retxQueue) = 0 /\ delivered = {}
  BY DEF Init
<1>2. \A t : ~InQueue(retxQueue, t)
  BY <1>1 DEF InQueue
<1> QED
  BY <1>1, <1>2 DEF LossyInv, InQueueOnce, QueuedWaits, DeliveredIgnored

\* every step of a lossy network counts once
LEMMA StepKeepsLossy ==
  ASSUME IgnoresUnknown, IInv, PastInv, FetchInv, LossyInv, CountedDelivered,
         LossyNext \/ UNCHANGED vars
  PROVE  FetchInv' /\ LossyInv' /\ CountedDelivered'
  BY StepCountedLossy DEF IInv

(* A pipeline that looks a segment up before it counts it counts every segment
   once on a network that only loses packets, whatever the number of retries. *)
THEOREM CountedOnceLossy ==
  ASSUME IgnoresUnknown, Events \subseteq {"Rto"}
  PROVE  Spec => []ReceivedOnce
<1> DEFINE I == FetchInv /\ LossyInv /\ CountedDelivered
<1>1. Init => I
  BY InitLossy
<1>2. Next => LossyNext
  BY DEF Next, LossyNext, HandleLifetimeExpiration, HandleNack
<1>3. IInv /\ PastInv /\ I /\ [Next]_vars => I'
  BY <1>2, StepKeepsLossy
<1>4. I => ReceivedOnce
  BY DEF CountedDelivered, ReceivedOnce
<1> HIDE DEF I
<1> QED
  BY <1>1, <1>3, <1>4, Inductive, PastInductive, PTL DEF Spec
=============================================================================
