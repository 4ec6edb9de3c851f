----------------------- MODULE PipelineInterestsAimd -----------------------
(***************************************************************************)
(* tools/chunks/catchunks/pipeline-interests-aimd.cpp on top of its base   *)
(* class pipeline-interests.cpp: one window, a state per segment, and a    *)
(* queue of the segments to retransmit.                                    *)
(*                                                                         *)
(* A handler of the Face or of the scheduler is one atomic action up to    *)
(* its final call of schedulePackets(). That loop is then run to its end,  *)
(* one action per iteration: avail is its availableWindowSize, and no      *)
(* other action is enabled while it is positive.                           *)
(*                                                                         *)
(* The Face is external. A pending Interest is identified by the segment   *)
(* it names; sendInterest() keeps the PendingInterestId of the first one   *)
(* only, so the Face's table is the set `first' of the segments whose      *)
(* recorded Interest is pending and the number `resent' of the others.     *)
(* One Data answers all the pending Interests it matches, one callback     *)
(* after the other.                                                        *)
(***************************************************************************)
EXTENDS PipelineState, Integers, Sequences, FiniteSets, SequencesExt

(* The window is a parameter: AimdWindow says what pipeline-interests-aimd.cpp
   makes of it, PipelineInterestsCubic and PipelineInterestsTcpBic what the two
   copies of this pipeline make of it. *)
CONSTANTS
  Windows, InitWindows,  \* what m_cwnd and its companions may be, and are at first
  Cwnd(_),               \* the integer part of m_cwnd
  Increased(_),          \* the windows increaseWindow() may make of a window
  Decreased(_),          \* the windows decreaseWindow() may make of a window
  IgnoresUnknown         \* does handleData() ignore a segment not in m_segmentInfo?

ASSUME WindowAssumption ==
  /\ InitWindows \subseteq Windows
  /\ \A w \in Windows : /\ Cwnd(w) \in Nat
                        /\ Increased(w) \subseteq Windows
                        /\ Decreased(w) \subseteq Windows
  /\ IgnoresUnknown \in BOOLEAN

Segs == 0 .. MaxSegmentNo
None == -1            \* no Data is being handed out

\* SegmentState, and "Absent" for a segment that is not in m_segmentInfo
States == {"Absent", "FirstTimeSent", "InRetxQueue", "Retransmitted", "RetxReceived"}

netVars   == <<first, resent>>
finalVars == <<hasFinalBlockId, lastSegmentNo>>
endVars   == <<isStopping, failure>>
failVars  == <<hasFailure, failedSegNo>>
windVars  == <<window, recPoint>>
highVars  == <<highData, highInterest>>
vars == <<content, started, finalVars, endVars, info, retxQueue, retxCount, nextSegmentNo,
          nInFlight, nReceived, failVars, windVars, highVars, avail, netVars, arriving,
          delivered>>

Segments == 0 .. content.last

TypeOK ==
  /\ content \in Contents
  /\ started \in BOOLEAN
  /\ hasFinalBlockId \in BOOLEAN /\ lastSegmentNo \in Nat
  /\ isStopping \in BOOLEAN /\ failure \in {"no", "posted", "called"}
  /\ info \in [Segs -> States]
  /\ retxQueue \in Seq(Segs)
  /\ retxCount \in [Segs -> Nat]
  /\ nextSegmentNo \in Nat
  /\ nInFlight \in Nat /\ nReceived \in Nat
  /\ hasFailure \in BOOLEAN /\ failedSegNo \in Nat
  /\ highData \in Nat /\ highInterest \in Nat /\ recPoint \in Nat
  /\ window \in Windows
  /\ avail \in Nat
  /\ first \in SUBSET Segs /\ resent \in [Segs -> Nat]
  /\ arriving \in Segs \cup {None}
  /\ delivered \in SUBSET Segs

Init ==
  /\ content \in Contents
  /\ started = FALSE
  /\ hasFinalBlockId = FALSE /\ lastSegmentNo = 0
  /\ isStopping = FALSE /\ failure = "no"
  /\ info = [s \in Segs |-> "Absent"]
  /\ retxQueue = << >>
  /\ retxCount = [s \in Segs |-> 0]
  /\ nextSegmentNo = 0
  /\ nInFlight = 0 /\ nReceived = 0
  /\ hasFailure = FALSE /\ failedSegNo = 0
  /\ highData = 0 /\ highInterest = 0 /\ recPoint = 0
  /\ window \in InitWindows
  /\ avail = 0
  /\ first = {} /\ resent = [s \in Segs |-> 0]
  /\ arriving = None
  /\ delivered = {}

-----------------------------------------------------------------------------
Monus_Wraps(a, b) == a - b                   \* mutant: the test for zero is missing
Monus(a, b) == IF a > b THEN a - b ELSE 0    \* "if (m_nInFlight > 0) m_nInFlight--"
AtLeast(a, b) == IF a >= b THEN a ELSE b

Pending(s) == s \in first \/ resent[s] > 0
InMap(s)   == info[s] # "Absent"

\* the event loop is between two handlers: no schedulePackets() is running
\* and the Data being handed out has been given to every Interest it matches
Calm == started /\ ~isStopping /\ avail = 0 /\ (arriving # None => ~Pending(arriving))

NextSegmentNo_Twice == IF nextSegmentNo = content.excluded   \* mutant
                       THEN nextSegmentNo + 2 ELSE nextSegmentNo

\* getNextSegmentNo()
NextSegmentNo == IF nextSegmentNo = content.excluded THEN nextSegmentNo + 1 ELSE nextSegmentNo

\* the increment of getNextSegmentNo(), capped: it happens even when nothing is sent
AfterSegment(s) == IF s > MaxSegmentNo THEN s ELSE s + 1

\* cancel() and doCancel(). What stays pending in the Face is of no account:
\* every handler returns at once when isStopping().
Cancel ==
  /\ isStopping' = TRUE
  /\ info' = [s \in Segs |-> "Absent"]
  /\ first' = {} /\ resent' = [s \in Segs |-> 0]
  /\ avail' = 0 /\ arriving' = None

\* onFailure()
OnFailure == Cancel /\ failure' = "posted"

SchedulePackets_All(size, inFlight) == avail' = size   \* mutant: in flight forgotten

\* schedulePackets(): how many packets the loop still has to send
SchedulePackets(size, inFlight) == avail' = Monus(size, inFlight)

\* the entries cancelInFlightSegmentsGreaterThan(s) erases
InMapAbove(s) == {t \in Segs : t > s /\ InMap(t)}

\* sendInterest(s, false) while not stopping
SendFirst(s) ==
  /\ info' = [info EXCEPT ![s] = IF @ = "Absent" THEN "FirstTimeSent" ELSE @]
  /\ first' = first \cup {s}
  /\ highInterest' = s
  /\ nInFlight' = nInFlight + 1

\* the early returns of sendInterest() for a segment that was never requested
MaySendFirst(s, known, last) == ~(known /\ s > last) /\ ~hasFailure /\ s <= MaxSegmentNo

\* run(): the segment found by version discovery counts as received
Run ==
  LET known == content.excluded \in content.final
      last  == IF known THEN content.last ELSE 0
      s     == NextSegmentNo
  IN  /\ ~started
      /\ started' = TRUE
      /\ hasFinalBlockId' = known /\ lastSegmentNo' = last
      /\ nReceived' = 1
      /\ delivered' = {content.excluded}
      /\ nextSegmentNo' = AfterSegment(s)
      /\ IF MaySendFirst(s, known, last)
         THEN SendFirst(s)
         ELSE UNCHANGED <<info, first, highInterest, nInFlight>>
      /\ UNCHANGED <<content, endVars, retxQueue, retxCount, failVars, windVars, highData,
                     avail, resent, arriving>>

\* handleFail(s); f and r are the Face's pending Interests at the call
HandleFail(s, f, r) ==
  \/ /\ hasFinalBlockId /\ s <= lastSegmentNo
     /\ OnFailure
     /\ UNCHANGED <<nInFlight, failVars>>
  \/ /\ hasFinalBlockId /\ s > lastSegmentNo
     /\ first' = f /\ resent' = r
     /\ UNCHANGED <<info, nInFlight, failVars, endVars>>
  \/ /\ ~hasFinalBlockId /\ \A t \in Segs \ {s} : ~InMap(t)
     /\ OnFailure
     /\ UNCHANGED <<nInFlight, failVars>>
  \/ /\ ~hasFinalBlockId /\ \E t \in Segs \ {s} : InMap(t)
     /\ info' = [t \in Segs |-> IF t >= s THEN "Absent" ELSE info[t]]
     /\ first' = f \ InMapAbove(s) /\ resent' = r
     /\ nInFlight' = Monus(nInFlight, 1 + Cardinality(InMapAbove(s)))
     /\ hasFailure' = TRUE /\ failedSegNo' = s
     /\ UNCHANGED endVars

\* one iteration of schedulePackets() that sends a segment never requested
SendNext ==
  LET s == NextSegmentNo IN
  /\ avail > 0 /\ retxQueue = << >>
  /\ nextSegmentNo' = AfterSegment(s)
  /\ IF MaySendFirst(s, hasFinalBlockId, lastSegmentNo)
     THEN SendFirst(s)
     ELSE UNCHANGED <<info, first, highInterest, nInFlight>>
  /\ avail' = avail - 1
  /\ UNCHANGED <<content, started, finalVars, endVars, retxQueue, retxCount, nReceived,
                 failVars, windVars, highData, resent, arriving, delivered>>

\* one iteration that pops a segment no longer in the map
SkipRetx ==
  /\ avail > 0 /\ retxQueue # << >> /\ ~InMap(Head(retxQueue))
  /\ retxQueue' = Tail(retxQueue)
  /\ UNCHANGED <<content, started, finalVars, endVars, info, retxCount, nextSegmentNo,
                 nInFlight, nReceived, failVars, windVars, highVars, avail, netVars,
                 arriving, delivered>>

Withdraw_Not(s) == first        \* mutant: removePendingInterest() is not called
Withdraw(s)     == first \ {s}

(* One iteration that pops a segment of the map, sendInterest(s, true): the
   recorded Interest is withdrawn and another one expressed, whose id is not
   recorded. The limit is looked at from the second retransmission on. *)
Retransmit ==
  LET s == Head(retxQueue)
      n == retxCount[s] + 1
      exhausted == n > 1 /\ n > MaxRetries
  IN  /\ avail > 0 /\ retxQueue # << >> /\ InMap(s)
      /\ retxQueue' = Tail(retxQueue)
      /\ retxCount' = [retxCount EXCEPT ![s] = n]
      /\ \/ /\ ~exhausted
            /\ info' = [info EXCEPT ![s] = "Retransmitted"]
            /\ first' = Withdraw(s)
            /\ resent' = [resent EXCEPT ![s] = @ + 1]
            /\ nInFlight' = nInFlight + 1
            /\ avail' = avail - 1
            /\ UNCHANGED <<endVars, failVars, arriving>>
         \/ /\ exhausted
            /\ HandleFail(s, first, resent)
            /\ IF isStopping' THEN TRUE ELSE avail' = avail - 1 /\ UNCHANGED arriving
      /\ UNCHANGED <<content, started, finalVars, nextSegmentNo, nReceived, windVars,
                     highVars, delivered>>

-----------------------------------------------------------------------------
IncreaseWindow == window' \in Increased(window) /\ UNCHANGED recPoint
DecreaseWindow == window' \in Decreased(window)

\* mutant: a reaction to every timeout
HandleTimeout_EveryTime(count) ==
  /\ recPoint' = highInterest /\ DecreaseWindow
  /\ nInFlight' = Monus(nInFlight, count)
  /\ SchedulePackets(Cwnd(window'), nInFlight')

\* handleTimeout(count): at most one reaction per window, then schedule
HandleTimeout(count) ==
  /\ IF DisableCwa \/ highData > recPoint
     THEN recPoint' = highInterest /\ DecreaseWindow
     ELSE UNCHANGED windVars
  /\ nInFlight' = Monus(nInFlight, count)
  /\ SchedulePackets(Cwnd(window'), nInFlight')

\* one pending Interest for s leaves the Face, satisfied, nacked or expired
FirstWithout(s)  == first \ {s}
ResentWithout(s) == IF s \in first THEN resent ELSE [resent EXCEPT ![s] = @ - 1]
TakeOne(s) == Pending(s) /\ first' = FirstWithout(s) /\ resent' = ResentWithout(s)

(* checkRto(): the retransmission timers of s and perhaps of other segments
   have expired. The map is unordered, so they join the queue in any order. *)
Timed == {s \in Segs : info[s] \in {"FirstTimeSent", "Retransmitted"}}

CheckRto(s) ==
  /\ "Rto" \in Events
  /\ Calm
  /\ \E T \in SUBSET Timed :
       /\ s \in T
       /\ \E q \in SetToSeqs(T) : retxQueue' = retxQueue \o q
       /\ info' = [t \in Segs |-> IF t \in T THEN "InRetxQueue" ELSE info[t]]
       /\ HandleTimeout(Cardinality(T))
  /\ arriving' = None
  /\ UNCHANGED <<content, started, finalVars, endVars, retxCount, nextSegmentNo, nReceived,
                 failVars, highVars, netVars, delivered>>

\* mutant: the segment changes state but does not join the queue
Requeue_NotQueued(s) ==
  /\ info' = [info EXCEPT ![s] = "InRetxQueue"]
  /\ HandleTimeout(1)
  /\ UNCHANGED <<endVars, failVars, retxQueue>>

\* what handleLifetimeExpiration() and a congestion Nack do for s
Requeue(s) ==
  /\ retxQueue' = Append(retxQueue, s)
  /\ info' = [info EXCEPT ![s] = "InRetxQueue"]
  /\ HandleTimeout(1)
  /\ UNCHANGED <<endVars, failVars>>

Unanswered(s) ==
  /\ arriving' = None
  /\ UNCHANGED <<content, started, finalVars, retxCount, nextSegmentNo, nReceived,
                 highVars, delivered>>

HandleLifetimeExpiration(s) ==
  /\ "Lifetime" \in Events
  /\ Calm /\ TakeOne(s)
  /\ Requeue(s)
  /\ Unanswered(s)

HandleNack(s) ==
  /\ Calm
  /\ \/ /\ "Duplicate" \in Events
        /\ TakeOne(s)
        /\ UNCHANGED <<endVars, failVars, windVars, retxQueue, info, nInFlight, avail>>
     \/ /\ "Congestion" \in Events
        /\ TakeOne(s)
        /\ Requeue(s)
     \/ /\ "Other" \in Events
        /\ Pending(s)
        /\ HandleFail(s, FirstWithout(s), ResentWithout(s))
        /\ avail' = 0
        /\ UNCHANGED <<windVars, retxQueue>>
  /\ Unanswered(s)

AllReceived_Early(known, n, last) == known /\ n >= last   \* mutant: off by one

\* n segments were received, the one of version discovery among them
AllReceived(known, n, last) == known /\ n - 1 >= last

\* m_segmentInfo keeps a retransmitted segment, to ignore a second copy
StateAfterData(state) == IF state = "Retransmitted" THEN "RetxReceived" ELSE "Absent"

\* handleData() for one of the pending Interests that match the Data of s
HandleData(s) ==
  LET learn == ~hasFinalBlockId /\ s \in content.final
      known == hasFinalBlockId \/ learn
      last  == IF learn THEN content.last ELSE lastSegmentNo
      above == IF learn THEN InMapAbove(last) ELSE {}
      base  == Monus(nInFlight, Cardinality(above))
      kept  == [t \in Segs |-> IF t \in above THEN "Absent" ELSE info[t]]
      state == IF InMap(s) \/ IgnoresUnknown THEN info[s]
               ELSE "FirstTimeSent"                   \* m_segmentInfo[s] creates
      goesOn == /\ first' = FirstWithout(s) \ above /\ resent' = ResentWithout(s)
                /\ arriving' = s
                /\ UNCHANGED isStopping
  IN  /\ Calm \/ (started /\ ~isStopping /\ avail = 0 /\ arriving = s)
      /\ s \in Segments /\ Pending(s)
      /\ hasFinalBlockId' = known /\ lastSegmentNo' = last
      /\ IF learn /\ hasFailure /\ last >= failedSegNo
         THEN /\ OnFailure
              /\ UNCHANGED <<nInFlight, nReceived, failVars, windVars, highData, delivered>>
         ELSE /\ hasFailure' = (hasFailure /\ ~learn)
              /\ highData' = AtLeast(highData, s)
              /\ UNCHANGED <<failedSegNo, failure>>
              /\ IF state \in {"RetxReceived", "Absent"}
                 THEN /\ info' = [kept EXCEPT ![s] = "Absent"]
                      /\ nInFlight' = base
                      /\ goesOn
                      /\ UNCHANGED <<nReceived, windVars, avail, delivered>>
                 ELSE /\ nReceived' = nReceived + 1
                      /\ nInFlight' = IF state = "InRetxQueue" THEN base ELSE Monus(base, 1)
                      /\ delivered' = delivered \cup {s}
                      /\ IncreaseWindow
                      /\ IF AllReceived(known, nReceived', last)
                         THEN Cancel
                         ELSE /\ info' = [kept EXCEPT ![s] = StateAfterData(state)]
                              /\ SchedulePackets(Cwnd(window'), nInFlight')
                              /\ goesOn
      /\ UNCHANGED <<content, started, retxQueue, retxCount, nextSegmentNo, highInterest>>

\* the posted m_onFailure runs; Consumer::onFailure throws out of the event loop
CallOnFailure ==
  /\ failure = "posted"
  /\ failure' = "called"
  /\ UNCHANGED <<content, started, finalVars, isStopping, info, retxQueue, retxCount,
                 nextSegmentNo, nInFlight, nReceived, failVars, windVars, highVars, avail,
                 netVars, arriving, delivered>>

Next ==
  \/ Run
  \/ SendNext \/ SkipRetx \/ Retransmit
  \/ \E s \in Segs : CheckRto(s) \/ HandleLifetimeExpiration(s) \/ HandleNack(s) \/ HandleData(s)
  \/ CallOnFailure

(* The running loop goes on; an expired retransmission timer is noticed, for
   checkRto() reschedules itself; every pending Interest is answered or
   expires; posted handlers run. *)
Answered(s) == HandleData(s) \/ HandleNack(s) \/ HandleLifetimeExpiration(s)

Fairness ==
  /\ WF_vars(Run) /\ WF_vars(SendNext \/ SkipRetx \/ Retransmit) /\ WF_vars(CallOnFailure)
  /\ \A s \in Segs : WF_vars(CheckRto(s)) /\ WF_vars(Answered(s))

Spec == Init /\ [][Next]_vars /\ Fairness

-----------------------------------------------------------------------------
(* schedulePackets() sends within the window by the pipeline's own count: what
   it may still send and what is in flight never exceed m_cwnd together, also
   after a segment failed in the middle of the loop. *)
LoopInWindow == avail > 0 => avail + nInFlight <= Cwnd(window)

(* No step of a running pipeline raises m_nInFlight above the window, however
   losses, failures and late Data have moved both. *)
WindowRespected == [][started /\ nInFlight' > nInFlight => nInFlight' <= Cwnd(window)]_vars

(* A segment of the content marked InRetxQueue is in m_retxQueue: no order of
   timers, expirations, Nacks and Data leaves it marked but not queued, where
   checkRto() would ignore it for ever. *)
RetxQueueCovers ==
  \A s \in Segments :
    info[s] = "InRetxQueue" => \E i \in 1 .. Len(retxQueue) : retxQueue[i] = s

(* A segment whose recorded Interest is pending has no other Interest pending:
   the id sendInterest() keeps is stale only after it was withdrawn. *)
RecordedOrResent == \A s \in first : resent[s] = 0

(* As long as no segment has failed, each segment of the content that was
   stepped past is delivered or still watched, by a timer or by the queue. *)
NothingForgotten ==
  started /\ ~isStopping /\ ~hasFailure =>
    \A s \in Segments :
      s < nextSegmentNo /\ s \notin delivered =>
        info[s] \in {"FirstTimeSent", "InRetxQueue", "Retransmitted"}

\* m_nReceived counts every segment once, though Data may come twice
ReceivedOnce == nReceived = Cardinality(delivered)

(* The pipeline stops without a failure only when "all segments have been
   received" (the comment in handleData() and the summary it prints). *)
DoneMeansComplete == isStopping /\ failure = "no" => Segments \subseteq delivered

\* the pipeline fetches until everything is received or an error occurs
Termination == <>(isStopping /\ failure # "posted")

\* a failure that is set aside is revoked by a FinalBlockId or reported
FailureIsReported == hasFailure ~> (isStopping \/ ~hasFailure)

Contract == INSTANCE SegmentTransfer WITH
  outcome <- IF ~started THEN "idle"
             ELSE IF failure # "no" THEN "failed"
             ELSE IF isStopping THEN "complete"
             ELSE "running"

(* The pipeline implements the contract of PipelineInterests. It does as long as
   no segment is retransmitted a second time. *)
ContractSpec == Contract!Spec
============================================================================
