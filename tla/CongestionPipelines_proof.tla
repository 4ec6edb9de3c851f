--------------------- MODULE CongestionPipelines_proof ---------------------
(***************************************************************************)
(* Proofs about CongestionPipelines. The Cubic and the TcpBic pipeline are *)
(* the Aimd pipeline with other windows: what the module                   *)
(* PipelineInterestsAimd_proof shows of any window is taken over, once the *)
(* two windows are known to be windows, and to stay open.                  *)
(***************************************************************************)
EXTENDS CongestionPipelines, TLAPS

P == INSTANCE PipelineInterestsAimd_proof WITH
  Windows <- C!CubicWindows, InitWindows <- C!CubicInitWindows,
  Cwnd <- C!CubicCwnd, Increased <- C!CubicIncreased, Decreased <- C!CubicDecreased,
  IgnoresUnknown <- C!CubicIgnoresUnknown

Q == INSTANCE PipelineInterestsAimd_proof WITH
  Windows <- B!BicWindows, InitWindows <- B!BicInitWindows,
  Cwnd <- B!BicCwnd, Increased <- B!BicIncreased, Decreased <- B!BicDecreased,
  IgnoresUnknown <- FALSE

-----------------------------------------------------------------------------
(* The two windows. *)

\* what is known of a window of the Cubic pipeline
LEMMA CubicFields ==
  ASSUME NEW w \in C!CubicWindows
  PROVE  /\ w.cwnd \in 0 .. CubicMaxCwnd /\ w.whole \in BOOLEAN
         /\ w.ssthresh \in {InitSsthresh} \cup 2 .. CubicMaxCwnd
  BY DEF C!CubicWindows

\* increaseWindow() of the Cubic pipeline makes a window that is no smaller
LEMMA CubicGrows ==
  ASSUME NEW w \in C!CubicWindows, NEW v \in C!CubicIncreased(w)
  PROVE  /\ v \in C!CubicWindows
         /\ 2 <= InitSsthresh /\ w.cwnd >= 1 => v.cwnd >= 2
<1> USE CubicFields, CongestionAssumption
<1>1. CASE w.cwnd < w.ssthresh /\ w.cwnd < CubicMaxCwnd
  <2>1. v = [w EXCEPT !.cwnd = @ + 1]
    BY <1>1 DEF C!CubicIncreased
  <2>2. v.cwnd = w.cwnd + 1 /\ w.cwnd + 1 \in 0 .. CubicMaxCwnd
    BY <2>1, <1>1 DEF C!CubicWindows
  <2> QED
    BY <2>1, <2>2 DEF C!CubicWindows
<1>2. CASE ~(w.cwnd < w.ssthresh /\ w.cwnd < CubicMaxCwnd)
  <2>1. PICK c \in w.cwnd .. CubicMaxCwnd : v = [w EXCEPT !.cwnd = c, !.whole = FALSE]
    BY <1>2 DEF C!CubicIncreased, C!CubicUpdate
  <2>2. v.cwnd = c /\ c \in 0 .. CubicMaxCwnd /\ c >= w.cwnd
    BY <2>1 DEF C!CubicWindows
  <2>3. v \in C!CubicWindows
    BY <2>1, <2>2 DEF C!CubicWindows
  <2>4. 2 <= InitSsthresh => w.cwnd # 1
    BY <1>2
  <2> QED
    BY <2>2, <2>3, <2>4
<1> QED
  BY <1>1, <1>2

\* decreaseWindow() of the Cubic pipeline leaves four fifths
LEMMA CubicShrinks ==
  ASSUME NEW w \in C!CubicWindows, NEW v \in C!CubicDecreased(w)
  PROVE  /\ v \in C!CubicWindows
         /\ w.cwnd >= 2 => v.cwnd >= 1
<1> USE CubicFields, CongestionAssumption
<1>1. PICK c \in C!FourFifths(w) :
        v = [cwnd |-> c, whole |-> FALSE, ssthresh |-> IF c >= 2 THEN c ELSE 2]
  BY DEF C!CubicDecreased
<1>2. c \in (4 * w.cwnd) \div 5 .. (4 * w.cwnd + 3) \div 5
  BY <1>1 DEF C!FourFifths
<1>3. c \in 0 .. CubicMaxCwnd /\ (w.cwnd >= 2 => c >= 1)
  BY <1>2
<1>4. (IF c >= 2 THEN c ELSE 2) \in 2 .. CubicMaxCwnd
  BY <1>3
<1> QED
  BY <1>1, <1>3, <1>4 DEF C!CubicWindows

\* the window the Cubic pipeline starts with
LEMMA CubicBegins ==
  ASSUME NEW w \in C!CubicInitWindows
  PROVE  w \in C!CubicWindows /\ w.cwnd >= 1
<1>1. w \in [cwnd : CubicInitCwnds, whole : {TRUE}, ssthresh : {InitSsthresh}]
  BY DEF C!CubicInitWindows
<1>2. w.cwnd \in 1 .. CubicMaxCwnd /\ w.whole = TRUE /\ w.ssthresh = InitSsthresh
  BY <1>1, CongestionAssumption
<1>3. w.cwnd \in 0 .. CubicMaxCwnd /\ w.cwnd >= 1
  BY <1>2, CongestionAssumption
<1> QED
  BY <1>1, <1>2, <1>3 DEF C!CubicWindows

\* the window of the Cubic pipeline is one the Aimd pipeline may have
LEMMA CubicAssumptions == P!PipelineAssumption /\ P!WindowAssumption
<1>1. P!PipelineAssumption
  BY PipelineAssumption DEF PipelineAssumption, P!PipelineAssumption, EventKinds, P!EventKinds
<1>2. C!CubicInitWindows \subseteq C!CubicWindows
  BY CubicBegins
<1>3. \A w \in C!CubicWindows : /\ C!CubicCwnd(w) \in Nat
                                /\ C!CubicIncreased(w) \subseteq C!CubicWindows
                                /\ C!CubicDecreased(w) \subseteq C!CubicWindows
  <2>1. \A w \in C!CubicWindows : C!CubicCwnd(w) \in Nat
    BY CubicFields, CongestionAssumption DEF C!CubicCwnd
  <2> QED
    BY <2>1, CubicGrows, CubicShrinks
<1> QED
  BY <1>1, <1>2, <1>3 DEF P!WindowAssumption, C!CubicIgnoresUnknown

\* and stays open
LEMMA CubicSteady == 2 <= InitSsthresh => P!Steady(C!CubicWindows)
  BY CubicBegins, CubicGrows, CubicShrinks DEF P!Steady, C!CubicCwnd

(* The windows of the TcpBic pipeline that no uninitialised member has touched *)
Untouched == {w \in B!BicWindows : ~w.resetToInitial /\ ~w.betaUsed}

\* what is known of a window of the TcpBic pipeline
LEMMA BicFields ==
  ASSUME NEW w \in B!BicWindows
  PROVE  /\ w.cwnd \in 0 .. BicMaxCwnd /\ w.resetToInitial \in BOOLEAN /\ w.betaUsed \in BOOLEAN
         /\ w.ssthresh \in {InitSsthresh} \cup 0 .. BicMaxCwnd
         /\ w.initialWindow \in Garbage
  BY DEF B!BicWindows

\* increaseWindow() of the TcpBic pipeline touches the window's size only
LEMMA BicGrows ==
  ASSUME NEW w \in B!BicWindows, NEW v \in B!BicIncreased(w)
  PROVE  /\ v \in B!BicWindows
         /\ v \in Untouched => w \in Untouched /\ (w.cwnd >= 1 => v.cwnd >= 2)
<1> USE BicFields, CongestionAssumption
<1>1. PICK c \in B!BicGrowth(w) :
        v = [w EXCEPT !.cwnd = IF c <= BicMaxCwnd THEN c ELSE BicMaxCwnd]
  BY DEF B!BicIncreased
<1>2. c \in Nat /\ (w.cwnd >= 1 /\ ~w.betaUsed => c >= 2)
  BY DEF B!BicGrowth
<1>3. (IF c <= BicMaxCwnd THEN c ELSE BicMaxCwnd) \in 0 .. BicMaxCwnd
  BY <1>2
<1>4. v \in B!BicWindows
  BY <1>1, <1>3 DEF B!BicWindows
<1>5. /\ v.cwnd = (IF c <= BicMaxCwnd THEN c ELSE BicMaxCwnd)
      /\ v.resetToInitial = w.resetToInitial /\ v.betaUsed = w.betaUsed
  BY <1>1 DEF B!BicWindows
<1> QED
  BY <1>2, <1>4, <1>5 DEF Untouched

\* what decreaseWindow() of the TcpBic pipeline makes before the reset
LEMMA BicHalves ==
  ASSUME NEW w \in B!BicWindows, NEW v \in B!BicHalved(w)
  PROVE  /\ v \in B!BicWindows /\ v.resetToInitial = w.resetToInitial
         /\ ~v.betaUsed => ~w.betaUsed /\ (w.cwnd >= 2 => v.cwnd >= 1)
<1> USE BicFields, CongestionAssumption
<1>1. CASE w.cwnd >= LOW_WINDOW
  <2>1. PICK c \in Garbage : v = [w EXCEPT !.cwnd = c, !.betaUsed = TRUE]
    BY <1>1 DEF B!BicHalved
  <2> QED
    BY <2>1 DEF B!BicWindows
<1>2. CASE ~(w.cwnd >= LOW_WINDOW)
  <2>1. v = [w EXCEPT !.cwnd = @ \div 2, !.ssthresh = w.cwnd \div 2]
    BY <1>2 DEF B!BicHalved
  <2>2. w.cwnd \div 2 \in 0 .. BicMaxCwnd /\ (w.cwnd >= 2 => w.cwnd \div 2 >= 1)
    OBVIOUS
  <2> QED
    BY <2>1, <2>2 DEF B!BicWindows
<1> QED
  BY <1>1, <1>2

\* half of a window is within the same bound
LEMMA HalfWithin ==
  ASSUME NEW max \in Nat, NEW c \in 0 .. max
  PROVE  c \div 2 \in 0 .. max
  OBVIOUS

\* decreaseWindow() of the TcpBic pipeline
LEMMA BicShrinks ==
  ASSUME NEW w \in B!BicWindows, NEW v \in B!BicDecreased(w)
  PROVE  /\ v \in B!BicWindows
         /\ v \in Untouched => w \in Untouched /\ (w.cwnd >= 2 => v.cwnd >= 1)
<1>1. CASE w.resetToInitial
  <2>1. PICK u \in B!BicHalved(w) :
          v = [u EXCEPT !.cwnd = w.initialWindow, !.ssthresh = u.cwnd \div 2]
    BY <1>1 DEF B!BicDecreased
  <2>2. u \in B!BicWindows /\ u.resetToInitial
    BY <1>1, <2>1, BicHalves
  <2>3. u.cwnd \div 2 \in 0 .. BicMaxCwnd /\ w.initialWindow \in 0 .. BicMaxCwnd
    <3>1. u.cwnd \in 0 .. BicMaxCwnd /\ w.initialWindow \in Garbage
      BY <2>2, BicFields
    <3> QED
      BY <3>1, HalfWithin, CongestionAssumption
  <2>4. v.resetToInitial
    BY <2>1, <2>2 DEF B!BicWindows
  <2>5. v \in B!BicWindows
    BY <2>1, <2>2, <2>3, BicFields DEF B!BicWindows
  <2> QED
    BY <2>4, <2>5 DEF Untouched
<1>2. CASE ~w.resetToInitial
  BY <1>2, BicHalves DEF B!BicDecreased, Untouched
<1> QED
  BY <1>1, <1>2

\* the window the TcpBic pipeline starts with
LEMMA BicBegins ==
  ASSUME NEW w \in B!BicInitWindows
  PROVE  w \in B!BicWindows /\ w.cwnd >= 1
<1>1. w \in [cwnd : BicInitCwnds, ssthresh : {InitSsthresh},
             resetToInitial : BOOLEAN, initialWindow : Garbage, betaUsed : {FALSE}]
  BY DEF B!BicInitWindows
<1>2. /\ w.cwnd \in 1 .. BicMaxCwnd /\ w.ssthresh = InitSsthresh
      /\ w.resetToInitial \in BOOLEAN /\ w.initialWindow \in Garbage /\ w.betaUsed = FALSE
  BY <1>1, CongestionAssumption
<1>3. w.cwnd \in 0 .. BicMaxCwnd /\ w.cwnd >= 1
  BY <1>2, CongestionAssumption
<1> QED
  BY <1>1, <1>2, <1>3 DEF B!BicWindows

\* the window of the TcpBic pipeline is one the Aimd pipeline may have
LEMMA BicAssumptions == Q!PipelineAssumption /\ Q!WindowAssumption
<1>1. Q!PipelineAssumption
  BY PipelineAssumption DEF PipelineAssumption, Q!PipelineAssumption, EventKinds, Q!EventKinds
<1>2. B!BicInitWindows \subseteq B!BicWindows
  BY BicBegins
<1>3. \A w \in B!BicWindows : /\ B!BicCwnd(w) \in Nat
                              /\ B!BicIncreased(w) \subseteq B!BicWindows
                              /\ B!BicDecreased(w) \subseteq B!BicWindows
  <2>1. \A w \in B!BicWindows : B!BicCwnd(w) \in Nat
    BY BicFields, CongestionAssumption DEF B!BicCwnd
  <2> QED
    BY <2>1, BicGrows, BicShrinks
<1> QED
  BY <1>1, <1>2, <1>3 DEF Q!WindowAssumption

\* and stays open as long as it is untouched
LEMMA BicSteady == Q!Steady(Untouched)
  BY BicBegins, BicGrows, BicShrinks DEF Q!Steady, B!BicCwnd

-----------------------------------------------------------------------------
(* The Cubic pipeline as this module and as PipelineInterestsAimd_proof write
   it: the definitions are the same, one by one. *)

\* counting
LEMMA CubicCardinality ==
  ASSUME NEW S
  PROVE  C!Aimd!Cardinality(S) = P!Cardinality(S)
  BY Zenon
  DEF C!Aimd!Cardinality,
      P!Cardinality

\* the orders of a set
LEMMA CubicSetToSeqs ==
  ASSUME NEW S
  PROVE  C!Aimd!SetToSeqs(S) = P!SetToSeqs(S)
  BY CubicCardinality, Zenon
  DEF C!Aimd!SetToSeqs,
      P!SetToSeqs

\* the entries above a segment
LEMMA CubicInMapAbove ==
  ASSUME NEW s
  PROVE  C!Aimd!InMapAbove(s) = P!InMapAbove(s)
  BY Zenon
  DEF C!Aimd!InMapAbove, C!Aimd!InMap, C!Aimd!Segs,
      P!InMapAbove, P!InMap, P!Segs

\* handleFail()
LEMMA CubicHandleFail ==
  ASSUME NEW s, NEW f, NEW r, C!Aimd!HandleFail(s, f, r)
  PROVE  P!HandleFail(s, f, r)
  BY CubicCardinality, CubicInMapAbove, Zenon
  DEF C!Aimd!HandleFail, C!Aimd!OnFailure, C!Aimd!Cancel, C!Aimd!InMap, C!Aimd!Monus, C!Aimd!Segs,
      C!Aimd!None, C!Aimd!endVars, C!Aimd!failVars,
      P!HandleFail, P!OnFailure, P!Cancel, P!InMap, P!Monus, P!Segs, P!None, P!endVars, P!failVars

\* handleTimeout()
LEMMA CubicHandleTimeout ==
  ASSUME NEW count, C!Aimd!HandleTimeout(count)
  PROVE  P!HandleTimeout(count)
  BY Zenon
  DEF C!Aimd!HandleTimeout, C!Aimd!DecreaseWindow, C!Aimd!Monus, C!Aimd!SchedulePackets,
      C!Aimd!windVars,
      P!HandleTimeout, P!DecreaseWindow, P!Monus, P!SchedulePackets, P!windVars

\* queueing for retransmission
LEMMA CubicRequeue ==
  ASSUME NEW s, C!Aimd!Requeue(s)
  PROVE  P!Requeue(s)
  BY CubicHandleTimeout, Zenon
  DEF C!Aimd!Requeue, C!Aimd!endVars, C!Aimd!failVars,
      P!Requeue, P!endVars, P!failVars

\* run()
LEMMA CubicRun ==
  ASSUME C!Aimd!Run
  PROVE  P!Run
  BY Zenon
  DEF C!Aimd!Run, C!Aimd!NextSegmentNo, C!Aimd!AfterSegment, C!Aimd!MaySendFirst,
      C!Aimd!SendFirst, C!Aimd!endVars, C!Aimd!failVars, C!Aimd!windVars,
      P!Run, P!NextSegmentNo, P!AfterSegment, P!MaySendFirst, P!SendFirst, P!endVars, P!failVars,
      P!windVars

\* sending the next segment
LEMMA CubicSendNext ==
  ASSUME C!Aimd!SendNext
  PROVE  P!SendNext
  BY Zenon
  DEF C!Aimd!SendNext, C!Aimd!NextSegmentNo, C!Aimd!AfterSegment, C!Aimd!MaySendFirst,
      C!Aimd!SendFirst, C!Aimd!finalVars, C!Aimd!endVars, C!Aimd!failVars, C!Aimd!windVars,
      P!SendNext, P!NextSegmentNo, P!AfterSegment, P!MaySendFirst, P!SendFirst, P!finalVars,
      P!endVars, P!failVars, P!windVars

\* skipping what is no longer in the map
LEMMA CubicSkipRetx ==
  ASSUME C!Aimd!SkipRetx
  PROVE  P!SkipRetx
  BY Zenon
  DEF C!Aimd!SkipRetx, C!Aimd!InMap, C!Aimd!finalVars, C!Aimd!endVars, C!Aimd!failVars,
      C!Aimd!windVars, C!Aimd!highVars, C!Aimd!netVars,
      P!SkipRetx, P!InMap, P!finalVars, P!endVars, P!failVars, P!windVars, P!highVars, P!netVars

\* sending a segment again
LEMMA CubicRetransmit ==
  ASSUME C!Aimd!Retransmit
  PROVE  P!Retransmit
  BY CubicHandleFail, Zenon
  DEF C!Aimd!Retransmit, C!Aimd!InMap, C!Aimd!Withdraw, C!Aimd!endVars, C!Aimd!failVars,
      C!Aimd!finalVars, C!Aimd!windVars, C!Aimd!highVars,
      P!Retransmit, P!InMap, P!Withdraw, P!endVars, P!failVars, P!finalVars, P!windVars,
      P!highVars

\* checkRto()
LEMMA CubicCheckRto ==
  ASSUME NEW s, C!Aimd!CheckRto(s)
  PROVE  P!CheckRto(s)
  BY CubicCardinality, CubicSetToSeqs, CubicHandleTimeout, Zenon
  DEF C!Aimd!CheckRto, C!Aimd!Calm, C!Aimd!Pending, C!Aimd!Segs, C!Aimd!Timed, C!Aimd!None,
      C!Aimd!finalVars, C!Aimd!endVars, C!Aimd!failVars, C!Aimd!highVars, C!Aimd!netVars,
      P!CheckRto, P!Calm, P!Pending, P!Segs, P!Timed, P!None, P!finalVars, P!endVars, P!failVars,
      P!highVars, P!netVars

\* handleLifetimeExpiration()
LEMMA CubicHandleLifetimeExpiration ==
  ASSUME NEW s, C!Aimd!HandleLifetimeExpiration(s)
  PROVE  P!HandleLifetimeExpiration(s)
  BY CubicRequeue, Zenon
  DEF C!Aimd!HandleLifetimeExpiration, C!Aimd!Calm, C!Aimd!Pending, C!Aimd!TakeOne,
      C!Aimd!FirstWithout, C!Aimd!ResentWithout, C!Aimd!Unanswered, C!Aimd!None, C!Aimd!finalVars,
      C!Aimd!highVars,
      P!HandleLifetimeExpiration, P!Calm, P!Pending, P!TakeOne, P!FirstWithout, P!ResentWithout,
      P!Unanswered, P!None, P!finalVars, P!highVars

\* handleNack()
LEMMA CubicHandleNack ==
  ASSUME NEW s, C!Aimd!HandleNack(s)
  PROVE  P!HandleNack(s)
  BY CubicRequeue, CubicHandleFail, Zenon
  DEF C!Aimd!HandleNack, C!Aimd!Calm, C!Aimd!Pending, C!Aimd!TakeOne, C!Aimd!FirstWithout,
      C!Aimd!ResentWithout, C!Aimd!Unanswered, C!Aimd!None, C!Aimd!finalVars, C!Aimd!highVars,
      C!Aimd!endVars, C!Aimd!failVars, C!Aimd!windVars,
      P!HandleNack, P!Calm, P!Pending, P!TakeOne, P!FirstWithout, P!ResentWithout, P!Unanswered,
      P!None, P!finalVars, P!highVars, P!endVars, P!failVars, P!windVars

\* handleData()
LEMMA CubicHandleData ==
  ASSUME NEW s, C!Aimd!HandleData(s)
  PROVE  P!HandleData(s)
  BY CubicCardinality, CubicInMapAbove, Zenon
  DEF C!Aimd!HandleData, C!Aimd!Segs, C!Aimd!Segments, C!Aimd!InMap, C!Aimd!Monus,
      C!Aimd!OnFailure, C!Aimd!Cancel, C!Aimd!AtLeast, C!Aimd!Calm, C!Aimd!Pending,
      C!Aimd!FirstWithout, C!Aimd!ResentWithout, C!Aimd!IncreaseWindow, C!Aimd!AllReceived,
      C!Aimd!StateAfterData, C!Aimd!SchedulePackets, C!Aimd!None, C!Aimd!failVars, C!Aimd!windVars,
      P!HandleData, P!Segs, P!Segments, P!InMap, P!Monus, P!OnFailure, P!Cancel, P!AtLeast,
      P!Calm, P!Pending, P!FirstWithout, P!ResentWithout, P!IncreaseWindow, P!AllReceived,
      P!StateAfterData, P!SchedulePackets, P!None, P!failVars, P!windVars

\* the posted callback
LEMMA CubicCallOnFailure ==
  ASSUME C!Aimd!CallOnFailure
  PROVE  P!CallOnFailure
  BY Zenon
  DEF C!Aimd!CallOnFailure, C!Aimd!finalVars, C!Aimd!failVars, C!Aimd!windVars, C!Aimd!highVars,
      C!Aimd!netVars,
      P!CallOnFailure, P!finalVars, P!failVars, P!windVars, P!highVars, P!netVars

\* the initial states
LEMMA CubicInit ==
  ASSUME C!Aimd!Init
  PROVE  P!Init
  BY Zenon
  DEF C!Aimd!Init, C!Aimd!Segs, C!Aimd!None,
      P!Init, P!Segs, P!None

\* a step that changes nothing
LEMMA CubicVars == UNCHANGED C!Aimd!vars => UNCHANGED P!vars
  BY DEF C!Aimd!vars, C!Aimd!finalVars, C!Aimd!endVars, C!Aimd!failVars, C!Aimd!windVars,
      C!Aimd!highVars, C!Aimd!netVars,
      P!vars, P!finalVars, P!endVars, P!failVars, P!windVars, P!highVars, P!netVars

-----------------------------------------------------------------------------
(* The TcpBic pipeline likewise. *)

\* counting
LEMMA BicCardinality ==
  ASSUME NEW S
  PROVE  B!Aimd!Cardinality(S) = Q!Cardinality(S)
  BY Zenon
  DEF B!Aimd!Cardinality,
      Q!Cardinality

\* the orders of a set
LEMMA BicSetToSeqs ==
  ASSUME NEW S
  PROVE  B!Aimd!SetToSeqs(S) = Q!SetToSeqs(S)
  BY BicCardinality, Zenon
  DEF B!Aimd!SetToSeqs,
      Q!SetToSeqs

\* the entries above a segment
LEMMA BicInMapAbove ==
  ASSUME NEW s
  PROVE  B!Aimd!InMapAbove(s) = Q!InMapAbove(s)
  BY Zenon
  DEF B!Aimd!InMapAbove, B!Aimd!InMap, B!Aimd!Segs,
      Q!InMapAbove, Q!InMap, Q!Segs

\* handleFail()
LEMMA BicHandleFail ==
  ASSUME NEW s, NEW f, NEW r, B!Aimd!HandleFail(s, f, r)
  PROVE  Q!HandleFail(s, f, r)
  BY BicCardinality, BicInMapAbove, Zenon
  DEF B!Aimd!HandleFail, B!Aimd!OnFailure, B!Aimd!Cancel, B!Aimd!InMap, B!Aimd!Monus, B!Aimd!Segs,
      B!Aimd!None, B!Aimd!endVars, B!Aimd!failVars,
      Q!HandleFail, Q!OnFailure, Q!Cancel, Q!InMap, Q!Monus, Q!Segs, Q!None, Q!endVars, Q!failVars

\* handleTimeout()
LEMMA BicHandleTimeout ==
  ASSUME NEW count, B!Aimd!HandleTimeout(count)
  PROVE  Q!HandleTimeout(count)
  BY Zenon
  DEF B!Aimd!HandleTimeout, B!Aimd!DecreaseWindow, B!Aimd!Monus, B!Aimd!SchedulePackets,
      B!Aimd!windVars,
      Q!HandleTimeout, Q!DecreaseWindow, Q!Monus, Q!SchedulePackets, Q!windVars

\* queueing for retransmission
LEMMA BicRequeue ==
  ASSUME NEW s, B!Aimd!Requeue(s)
  PROVE  Q!Requeue(s)
  BY BicHandleTimeout, Zenon
  DEF B!Aimd!Requeue, B!Aimd!endVars, B!Aimd!failVars,
      Q!Requeue, Q!endVars, Q!failVars

\* run()
LEMMA BicRun ==
  ASSUME B!Aimd!Run
  PROVE  Q!Run
  BY Zenon
  DEF B!Aimd!Run, B!Aimd!NextSegmentNo, B!Aimd!AfterSegment, B!Aimd!MaySendFirst,
      B!Aimd!SendFirst, B!Aimd!endVars, B!Aimd!failVars, B!Aimd!windVars,
      Q!Run, Q!NextSegmentNo, Q!AfterSegment, Q!MaySendFirst, Q!SendFirst, Q!endVars, Q!failVars,
      Q!windVars

\* sending the next segment
LEMMA BicSendNext ==
  ASSUME B!Aimd!SendNext
  PROVE  Q!SendNext
  BY Zenon
  DEF B!Aimd!SendNext, B!Aimd!NextSegmentNo, B!Aimd!AfterSegment, B!Aimd!MaySendFirst,
      B!Aimd!SendFirst, B!Aimd!finalVars, B!Aimd!endVars, B!Aimd!failVars, B!Aimd!windVars,
      Q!SendNext, Q!NextSegmentNo, Q!AfterSegment, Q!MaySendFirst, Q!SendFirst, Q!finalVars,
      Q!endVars, Q!failVars, Q!windVars

\* skipping what is no longer in the map
LEMMA BicSkipRetx ==
  ASSUME B!Aimd!SkipRetx
  PROVE  Q!SkipRetx
  BY Zenon
  DEF B!Aimd!SkipRetx, B!Aimd!InMap, B!Aimd!finalVars, B!Aimd!endVars, B!Aimd!failVars,
      B!Aimd!windVars, B!Aimd!highVars, B!Aimd!netVars,
      Q!SkipRetx, Q!InMap, Q!finalVars, Q!endVars, Q!failVars, Q!windVars, Q!highVars, Q!netVars

\* sending a segment again
LEMMA BicRetransmit ==
  ASSUME B!Aimd!Retransmit
  PROVE  Q!Retransmit
  BY BicHandleFail, Zenon
  DEF B!Aimd!Retransmit, B!Aimd!InMap, B!Aimd!Withdraw, B!Aimd!endVars, B!Aimd!failVars,
      B!Aimd!finalVars, B!Aimd!windVars, B!Aimd!highVars,
      Q!Retransmit, Q!InMap, Q!Withdraw, Q!endVars, Q!failVars, Q!finalVars, Q!windVars,
      Q!highVars

\* checkRto()
LEMMA BicCheckRto ==
  ASSUME NEW s, B!Aimd!CheckRto(s)
  PROVE  Q!CheckRto(s)
  BY BicCardinality, BicSetToSeqs, BicHandleTimeout, Zenon
  DEF B!Aimd!CheckRto, B!Aimd!Calm, B!Aimd!Pending, B!Aimd!Segs, B!Aimd!Timed, B!Aimd!None,
      B!Aimd!finalVars, B!Aimd!endVars, B!Aimd!failVars, B!Aimd!highVars, B!Aimd!netVars,
      Q!CheckRto, Q!Calm, Q!Pending, Q!Segs, Q!Timed, Q!None, Q!finalVars, Q!endVars, Q!failVars,
      Q!highVars, Q!netVars

\* handleLifetimeExpiration()
LEMMA BicHandleLifetimeExpiration ==
  ASSUME NEW s, B!Aimd!HandleLifetimeExpiration(s)
  PROVE  Q!HandleLifetimeExpiration(s)
  BY BicRequeue, Zenon
  DEF B!Aimd!HandleLifetimeExpiration, B!Aimd!Calm, B!Aimd!Pending, B!Aimd!TakeOne,
      B!Aimd!FirstWithout, B!Aimd!ResentWithout, B!Aimd!Unanswered, B!Aimd!None, B!Aimd!finalVars,
      B!Aimd!highVars,
      Q!HandleLifetimeExpiration, Q!Calm, Q!Pending, Q!TakeOne, Q!FirstWithout, Q!ResentWithout,
      Q!Unanswered, Q!None, Q!finalVars, Q!highVars

\* handleNack()
LEMMA BicHandleNack ==
  ASSUME NEW s, B!Aimd!HandleNack(s)
  PROVE  Q!HandleNack(s)
  BY BicRequeue, BicHandleFail, Zenon
  DEF B!Aimd!HandleNack, B!Aimd!Calm, B!Aimd!Pending, B!Aimd!TakeOne, B!Aimd!FirstWithout,
      B!Aimd!ResentWithout, B!Aimd!Unanswered, B!Aimd!None, B!Aimd!finalVars, B!Aimd!highVars,
      B!Aimd!endVars, B!Aimd!failVars, B!Aimd!windVars,
      Q!HandleNack, Q!Calm, Q!Pending, Q!TakeOne, Q!FirstWithout, Q!ResentWithout, Q!Unanswered,
      Q!None, Q!finalVars, Q!highVars, Q!endVars, Q!failVars, Q!windVars

\* handleData()
LEMMA BicHandleData ==
  ASSUME NEW s, B!Aimd!HandleData(s)
  PROVE  Q!HandleData(s)
  BY BicCardinality, BicInMapAbove, Zenon
  DEF B!Aimd!HandleData, B!Aimd!Segs, B!Aimd!Segments, B!Aimd!InMap, B!Aimd!Monus,
      B!Aimd!OnFailure, B!Aimd!Cancel, B!Aimd!AtLeast, B!Aimd!Calm, B!Aimd!Pending,
      B!Aimd!FirstWithout, B!Aimd!ResentWithout, B!Aimd!IncreaseWindow, B!Aimd!AllReceived,
      B!Aimd!StateAfterData, B!Aimd!SchedulePackets, B!Aimd!None, B!Aimd!failVars, B!Aimd!windVars,
      Q!HandleData, Q!Segs, Q!Segments, Q!InMap, Q!Monus, Q!OnFailure, Q!Cancel, Q!AtLeast,
      Q!Calm, Q!Pending, Q!FirstWithout, Q!ResentWithout, Q!IncreaseWindow, Q!AllReceived,
      Q!StateAfterData, Q!SchedulePackets, Q!None, Q!failVars, Q!windVars

\* the posted callback
LEMMA BicCallOnFailure ==
  ASSUME B!Aimd!CallOnFailure
  PROVE  Q!CallOnFailure
  BY Zenon
  DEF B!Aimd!CallOnFailure, B!Aimd!finalVars, B!Aimd!failVars, B!Aimd!windVars, B!Aimd!highVars,
      B!Aimd!netVars,
      Q!CallOnFailure, Q!finalVars, Q!failVars, Q!windVars, Q!highVars, Q!netVars

\* the initial states
LEMMA BicInit ==
  ASSUME B!Aimd!Init
  PROVE  Q!Init
  BY Zenon
  DEF B!Aimd!Init, B!Aimd!Segs, B!Aimd!None,
      Q!Init, Q!Segs, Q!None

\* a step that changes nothing
LEMMA BicVars == UNCHANGED C!Aimd!vars => UNCHANGED Q!vars
  BY DEF C!Aimd!vars, C!Aimd!finalVars, C!Aimd!endVars, C!Aimd!failVars, C!Aimd!windVars,
      C!Aimd!highVars, C!Aimd!netVars,
      Q!vars, Q!finalVars, Q!endVars, Q!failVars, Q!windVars, Q!highVars, Q!netVars

-----------------------------------------------------------------------------
(* What the Aimd pipeline keeps for any window, and for a window that stays
   open, each of the two pipelines keeps; and the Cubic pipeline, which looks a
   segment up before it counts it, counts once on a network that only loses
   packets. *)

\* no Interest for a segment was sent a third time
NoneSentThrice == MaxRetries <= 1 \/ \A s \in Segs : retxCount[s] <= 1

CubicInv == /\ P!IInv /\ P!PastInv /\ P!HighInv
            /\ ~DisableCwa /\ 2 <= InitSsthresh => P!OpenInv(C!CubicWindows)
            /\ network = "lossy" => P!FetchInv /\ P!LossyInv /\ P!CountedDelivered
            /\ P!CountInv
            /\ P!NoneSentThrice \/ network = "lossy" => P!DoneInv

BicInv == /\ Q!IInv /\ Q!PastInv /\ Q!HighInv
          /\ ~DisableCwa => Q!OpenInv(Untouched)
          /\ Q!CountInv
          /\ Q!NoneSentThrice => Q!DoneInv

CongestionInv == /\ pipelineType \in {"cubic", "tcpbic"}
                 /\ pipelineType = "cubic" => CubicInv
                 /\ pipelineType = "tcpbic" => BicInv

\* the Cubic pipeline begins with its invariant
LEMMA CubicInitInv == C!Init => CubicInv
<1> SUFFICES ASSUME C!Init PROVE CubicInv
  OBVIOUS
<1> USE CubicAssumptions DEF P!PipelineAssumption, P!WindowAssumption
<1>1. P!Init
  BY CubicInit DEF C!Init
<1>2. P!IInv
  BY <1>1, P!InitIInv
<1>3. P!PastInv
  BY <1>1, P!InitPast
<1>4. P!HighInv /\ (2 <= InitSsthresh => P!OpenInv(C!CubicWindows))
  BY <1>1, P!InitHigh, P!InitOpen, CubicSteady
<1>5. P!FetchInv /\ P!LossyInv /\ P!CountedDelivered /\ P!CountInv /\ P!DoneInv
  BY <1>1, P!InitLossy, P!InitCount, P!InitDone DEF P!CountInv
<1> QED
  BY <1>2, <1>3, <1>4, <1>5 DEF CubicInv

\* so does the TcpBic pipeline
LEMMA BicInitInv == B!Init => BicInv
<1> SUFFICES ASSUME B!Init PROVE BicInv
  OBVIOUS
<1> USE BicAssumptions DEF Q!PipelineAssumption, Q!WindowAssumption
<1>1. Q!Init
  BY BicInit DEF B!Init
<1>2. Q!IInv
  BY <1>1, Q!InitIInv
<1>3. Q!PastInv
  BY <1>1, Q!InitPast
<1>4. Q!HighInv /\ Q!OpenInv(Untouched)
  BY <1>1, Q!InitHigh, Q!InitOpen, BicSteady
<1>5. Q!CountInv /\ Q!DoneInv
  BY <1>1, Q!InitCount, Q!InitDone DEF Q!CountInv
<1> QED
  BY <1>2, <1>3, <1>4, <1>5 DEF BicInv

\* a step of the Cubic pipeline is one of the Aimd pipeline
LEMMA CubicStep ==
  ASSUME pipelineType = "cubic", Next
  PROVE  /\ P!Next /\ UNCHANGED <<pipelineType, network>>
         /\ network = "lossy" => P!LossyNext
<1> USE DEF Cubic, TcpBic
<1>1. CASE Run
  BY <1>1, CubicRun DEF Run, C!Run, P!Next, P!LossyNext
<1>2. CASE SendPacket
  BY <1>2, CubicSendNext, CubicSkipRetx, CubicRetransmit
  DEF SendPacket, C!SendNext, C!SkipRetx, C!Retransmit, P!Next, P!LossyNext
<1>3. CASE CallOnFailure
  BY <1>3, CubicCallOnFailure DEF CallOnFailure, C!CallOnFailure, P!Next, P!LossyNext
<1>4. ASSUME NEW s \in Segs, CheckRto(s)
      PROVE  P!CheckRto(s) /\ UNCHANGED <<pipelineType, network>>
  BY <1>4, CubicCheckRto DEF CheckRto, C!CheckRto
<1>5. ASSUME NEW s \in Segs, Answered(s)
      PROVE  /\ P!HandleData(s) \/ P!HandleNack(s) \/ P!HandleLifetimeExpiration(s)
             /\ network = "lossy" => P!HandleData(s)
             /\ UNCHANGED <<pipelineType, network>>
  BY <1>5, CubicHandleData, CubicHandleNack, CubicHandleLifetimeExpiration
  DEF Answered, C!HandleData, C!HandleNack, C!HandleLifetimeExpiration
<1>6. Segs = P!Segs
  BY DEF Segs, P!Segs
<1> QED
  BY <1>1, <1>2, <1>3, <1>4, <1>5, <1>6 DEF Next, P!Next, P!LossyNext

\* a step of the TcpBic pipeline is one of the Aimd pipeline
LEMMA BicStep ==
  ASSUME pipelineType = "tcpbic", Next
  PROVE  Q!Next /\ UNCHANGED <<pipelineType, network>>
<1> USE DEF Cubic, TcpBic
<1>1. CASE Run
  BY <1>1, BicRun DEF Run, B!Run, Q!Next
<1>2. CASE SendPacket
  BY <1>2, BicSendNext, BicSkipRetx, BicRetransmit
  DEF SendPacket, B!SendNext, B!SkipRetx, B!Retransmit, Q!Next
<1>3. CASE CallOnFailure
  BY <1>3, BicCallOnFailure DEF CallOnFailure, B!CallOnFailure, Q!Next
<1>4. ASSUME NEW s \in Segs, CheckRto(s)
      PROVE  Q!CheckRto(s) /\ UNCHANGED <<pipelineType, network>>
  BY <1>4, BicCheckRto DEF CheckRto, B!CheckRto
<1>5. ASSUME NEW s \in Segs, Answered(s)
      PROVE  /\ Q!HandleData(s) \/ Q!HandleNack(s) \/ Q!HandleLifetimeExpiration(s)
             /\ UNCHANGED <<pipelineType, network>>
  BY <1>5, BicHandleData, BicHandleNack, BicHandleLifetimeExpiration
  DEF Answered, B!HandleData, B!HandleNack, B!HandleLifetimeExpiration
<1>6. Segs = Q!Segs
  BY DEF Segs, Q!Segs
<1> QED
  BY <1>1, <1>2, <1>3, <1>4, <1>5, <1>6 DEF Next, Q!Next

\* every step of the Cubic pipeline keeps its invariant and, where the count is
\* right, is one of the contract
LEMMA CubicStepInv ==
  ASSUME CubicInv, UNCHANGED network, [P!Next]_(P!vars),
         network = "lossy" => P!LossyNext \/ UNCHANGED P!vars
  PROVE  /\ CubicInv'
         /\ P!NoneSentThrice' \/ network = "lossy" => [P!Contract!Next]_(P!Contract!vars)
<1> USE CubicAssumptions DEF P!PipelineAssumption, P!WindowAssumption
<1>1. P!IInv /\ P!PastInv /\ P!HighInv
  BY DEF CubicInv
<1>2. P!IInv' /\ P!PastInv' /\ P!HighInv'
  BY <1>1, P!StepKeeps
<1>3. ASSUME ~DisableCwa, 2 <= InitSsthresh
      PROVE  P!OpenInv(C!CubicWindows)'
  <2>1. P!OpenInv(C!CubicWindows)
    BY <1>3 DEF CubicInv
  <2> QED
    BY <1>1, <1>3, <2>1, CubicSteady, P!StepKeepsOpen
<1>4. ASSUME network = "lossy"
      PROVE  P!FetchInv' /\ P!LossyInv' /\ P!CountedDelivered'
  <2>1. P!FetchInv /\ P!LossyInv /\ P!CountedDelivered
    BY <1>4 DEF CubicInv
  <2>2. C!CubicIgnoresUnknown
    BY DEF C!CubicIgnoresUnknown
  <2> QED
    BY <1>1, <1>4, <2>1, <2>2, P!StepKeepsLossy
<1>5. P!CountInv'
  <2>1. P!CountInv
    BY DEF CubicInv
  <2> QED
    BY <1>1, <2>1, P!StepKeepsCount
<1>6. ASSUME P!NoneSentThrice' \/ network = "lossy"
      PROVE  P!DoneInv' /\ [P!Contract!Next]_(P!Contract!vars)
  <2>1. P!DoneInv
    <3>1. P!TypeOK
      BY <1>1 DEF P!IInv
    <3> QED
      BY <1>6, <3>1, P!StepNoneSent DEF CubicInv
  <2>2. P!FetchInv' /\ P!CountedDelivered'
    BY <1>4, <1>5, <1>6 DEF P!CountInv
  <2> QED
    BY <1>1, <1>2, <2>1, <2>2, P!StepKeepsDone
<1> QED
  BY <1>2, <1>3, <1>4, <1>5, <1>6 DEF CubicInv

\* every step of the TcpBic pipeline likewise
LEMMA BicStepInv ==
  ASSUME BicInv, [Q!Next]_(Q!vars)
  PROVE  /\ BicInv'
         /\ Q!NoneSentThrice' => [Q!Contract!Next]_(Q!Contract!vars)
<1> USE BicAssumptions DEF Q!PipelineAssumption, Q!WindowAssumption
<1>1. Q!IInv /\ Q!PastInv /\ Q!HighInv
  BY DEF BicInv
<1>2. Q!IInv' /\ Q!PastInv' /\ Q!HighInv'
  BY <1>1, Q!StepKeeps
<1>3. ASSUME ~DisableCwa
      PROVE  Q!OpenInv(Untouched)'
  <2>1. Q!OpenInv(Untouched)
    BY <1>3 DEF BicInv
  <2> QED
    BY <1>1, <1>3, <2>1, BicSteady, Q!StepKeepsOpen
<1>4. Q!CountInv'
  <2>1. Q!CountInv
    BY DEF BicInv
  <2> QED
    BY <1>1, <2>1, Q!StepKeepsCount
<1>5. ASSUME Q!NoneSentThrice'
      PROVE  Q!DoneInv' /\ [Q!Contract!Next]_(Q!Contract!vars)
  <2>1. Q!DoneInv
    <3>1. Q!TypeOK
      BY <1>1 DEF Q!IInv
    <3> QED
      BY <1>5, <3>1, Q!StepNoneSent DEF BicInv
  <2>2. Q!FetchInv' /\ Q!CountedDelivered'
    BY <1>4, <1>5 DEF Q!CountInv
  <2> QED
    BY <1>1, <1>2, <2>1, <2>2, Q!StepKeepsDone
<1> QED
  BY <1>2, <1>3, <1>4, <1>5 DEF BicInv

\* every step keeps the invariant of the pipeline that runs
LEMMA StepCongestion ==
  ASSUME CongestionInv, [Next]_vars
  PROVE  /\ CongestionInv' /\ UNCHANGED <<pipelineType, network>>
         /\ NoneSentThrice' \/ Faithful =>
              [P!Contract!Next]_(P!Contract!vars) \/ [Q!Contract!Next]_(Q!Contract!vars)
<1>1. ASSUME pipelineType = "cubic"
      PROVE  /\ CubicInv' /\ UNCHANGED <<pipelineType, network>>
             /\ P!NoneSentThrice' \/ network = "lossy" => [P!Contract!Next]_(P!Contract!vars)
  <2>1. CubicInv
    BY <1>1 DEF CongestionInv
  <2>2. CASE Next
    BY <1>1, <2>1, <2>2, CubicStep, CubicStepInv
  <2>3. CASE UNCHANGED vars
    <3>1. UNCHANGED P!vars /\ UNCHANGED <<pipelineType, network>>
      BY <2>3, CubicVars DEF vars
    <3> QED
      BY <2>1, <3>1, CubicStepInv
  <2> QED
    BY <2>2, <2>3
<1>2. ASSUME pipelineType = "tcpbic"
      PROVE  /\ BicInv' /\ UNCHANGED <<pipelineType, network>>
             /\ Q!NoneSentThrice' => [Q!Contract!Next]_(Q!Contract!vars)
  <2>1. BicInv
    BY <1>2 DEF CongestionInv
  <2>2. CASE Next
    BY <1>2, <2>1, <2>2, BicStep, BicStepInv
  <2>3. CASE UNCHANGED vars
    <3>1. UNCHANGED Q!vars /\ UNCHANGED <<pipelineType, network>>
      BY <2>3, BicVars DEF vars
    <3> QED
      BY <2>1, <3>1, BicStepInv
  <2> QED
    BY <2>2, <2>3
<1>3. pipelineType \in {"cubic", "tcpbic"}
  BY DEF CongestionInv
<1>4. NoneSentThrice' => P!NoneSentThrice' /\ Q!NoneSentThrice'
  BY DEF NoneSentThrice, P!NoneSentThrice, Q!NoneSentThrice, Segs, P!Segs, Q!Segs
<1> QED
  BY <1>1, <1>2, <1>3, <1>4 DEF CongestionInv, Faithful

(* The invariant of the pipeline that runs always holds. *)
THEOREM Inductive == Spec => []CongestionInv
<1>1. Init => CongestionInv
  BY CubicInitInv, BicInitInv DEF Init, CongestionInv
<1> QED
  BY <1>1, StepCongestion, PTL DEF Spec

(* What of the Aimd pipeline does not depend on the window is true of its two
   copies: nothing is marked InRetxQueue but queued, a recorded Interest is the
   only one, and nothing is forgotten when the end is known from the start. *)
THEOREM SegmentsWatched ==
  Spec => []/\ C!Aimd!RetxQueueCovers /\ C!Aimd!RecordedOrResent
            /\ content.excluded \in content.final => C!Aimd!NothingForgotten
<1> DEFINE Kept == /\ C!Aimd!RetxQueueCovers /\ C!Aimd!RecordedOrResent
                   /\ content.excluded \in content.final => C!Aimd!NothingForgotten
<1>1. CubicInv => Kept
  BY DEF CubicInv, P!IInv, P!QueueInv, P!RetxQueueCovers, P!RecordedOrResent, P!Segments,
         P!PastInv, P!SteppedPast, P!EndKnownNoneFailed, P!NoneFailed, P!Watched,
         C!Aimd!RetxQueueCovers, C!Aimd!RecordedOrResent, C!Aimd!NothingForgotten, C!Aimd!Segments
<1>2. BicInv => Kept
  BY DEF BicInv, Q!IInv, Q!QueueInv, Q!RetxQueueCovers, Q!RecordedOrResent, Q!Segments,
         Q!PastInv, Q!SteppedPast, Q!EndKnownNoneFailed, Q!NoneFailed, Q!Watched,
         C!Aimd!RetxQueueCovers, C!Aimd!RecordedOrResent, C!Aimd!NothingForgotten, C!Aimd!Segments
<1>3. CongestionInv => Kept
  BY <1>1, <1>2 DEF CongestionInv
<1> QED
  BY <1>3, Inductive, PTL

(* With conservative window adaptation neither window closes. A window of the
   Cubic pipeline opens by a whole segment only below m_ssthresh, which is no
   less than two unless the option sets it so. *)
THEOREM WindowsStayOpen ==
  ASSUME 2 <= InitSsthresh
  PROVE  Spec => []WindowStaysOpen
<1>1. CongestionInv => WindowStaysOpen
  <2> SUFFICES ASSUME CongestionInv, ~DisableCwa,
                      pipelineType = "tcpbic" => ~window.resetToInitial /\ ~window.betaUsed
               PROVE  window.cwnd >= 1
    BY DEF WindowStaysOpen
  <2>1. CASE pipelineType = "cubic"
    <3>1. P!TypeOK /\ P!OpenInv(C!CubicWindows)
      BY <2>1 DEF CongestionInv, CubicInv, P!IInv
    <3> QED
      BY <3>1 DEF P!TypeOK, P!OpenInv, C!CubicCwnd
  <2>2. CASE pipelineType = "tcpbic"
    <3>1. Q!TypeOK /\ Q!OpenInv(Untouched)
      BY <2>2 DEF CongestionInv, BicInv, Q!IInv
    <3>2. window \in Untouched
      BY <2>2, <3>1 DEF Q!TypeOK, Untouched
    <3> QED
      BY <3>1, <3>2 DEF Q!OpenInv, B!BicCwnd
  <2> QED
    BY <2>1, <2>2 DEF CongestionInv
<1> QED
  BY <1>1, Inductive, PTL

(* On a network that only loses packets the Cubic pipeline counts every segment
   once, for any number of retransmissions. *)
THEOREM CubicCountsOnce == Spec => []ReceivedOnce
<1>1. CongestionInv => ReceivedOnce
  BY CubicCardinality
  DEF CongestionInv, CubicInv, P!CountedDelivered, ReceivedOnce, Faithful, Cardinality, P!Cardinality
<1> QED
  BY <1>1, Inductive, PTL

\* the contract of the one instance is that of the other
LEMMA SameContract ==
  /\ [P!Contract!Next]_(P!Contract!vars) => [C!Aimd!Contract!Next]_(C!Aimd!Contract!vars)
  /\ [Q!Contract!Next]_(Q!Contract!vars) => [C!Aimd!Contract!Next]_(C!Aimd!Contract!vars)
<1>1. [P!Contract!Next]_(P!Contract!vars) => [C!Aimd!Contract!Next]_(C!Aimd!Contract!vars)
  BY Zenon DEF P!Contract!Next, P!Contract!vars, P!Contract!Start, P!Contract!Deliver, P!Contract!End,
     P!Contract!Ends, P!Contract!Segments,
     C!Aimd!Contract!Next, C!Aimd!Contract!vars, C!Aimd!Contract!Start, C!Aimd!Contract!Deliver,
     C!Aimd!Contract!End, C!Aimd!Contract!Ends, C!Aimd!Contract!Segments
<1>2. [Q!Contract!Next]_(Q!Contract!vars) => [C!Aimd!Contract!Next]_(C!Aimd!Contract!vars)
  BY Zenon DEF Q!Contract!Next, Q!Contract!vars, Q!Contract!Start, Q!Contract!Deliver, Q!Contract!End,
     Q!Contract!Ends, Q!Contract!Segments,
     C!Aimd!Contract!Next, C!Aimd!Contract!vars, C!Aimd!Contract!Start, C!Aimd!Contract!Deliver,
     C!Aimd!Contract!End, C!Aimd!Contract!Ends, C!Aimd!Contract!Segments
<1> QED
  BY <1>1, <1>2

(* Both pipelines implement the contract of PipelineInterests in every behaviour
   in which no segment is retransmitted a second time; the Cubic pipeline also
   when the network only loses packets, for any number of retransmissions. *)
THEOREM ImplementsContract ==
  Spec => ([]NoneSentThrice \/ []Faithful => C!Aimd!ContractSpec)
<1>1. Init => C!Aimd!Contract!Init
  BY DEF Init, C!Init, B!Init, C!Aimd!Init, B!Aimd!Init, C!Aimd!Contract!Init
<1>2. CongestionInv /\ [Next]_vars /\ (NoneSentThrice' \/ Faithful)
        => [C!Aimd!Contract!Next]_(C!Aimd!Contract!vars)
  BY StepCongestion, SameContract
<1> QED
  BY <1>1, <1>2, Inductive, PTL DEF Spec, C!Aimd!ContractSpec, C!Aimd!Contract!Spec
=============================================================================
