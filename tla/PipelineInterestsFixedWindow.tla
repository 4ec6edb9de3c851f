------------------- MODULE PipelineInterestsFixedWindow -------------------
(***************************************************************************)
(* tools/chunks/catchunks/pipeline-interests-fixed-window.cpp on top of    *)
(* its base class pipeline-interests.cpp: MaxPipelineSize fetchers, each   *)
(* replaced by the fetcher of the next segment when its Data arrives.      *)
(*                                                                         *)
(* Everything runs on one io_service thread, so a handler is one atomic    *)
(* action; what interleaves is the order in which the Face delivers Data,  *)
(* Nacks and lifetime expirations, the backoff timers, and the posted      *)
(* failure callback.                                                       *)
(***************************************************************************)
EXTENDS DataFetcher, FiniteSets

CONSTANTS MaxPipelineSize,     \* m_options.maxPipelineSize
          Contents             \* what producers publish: the content is one of these

ASSUME FixedWindowAssumption ==
  /\ MaxPipelineSize \in Nat \ {0}
  /\ \A c \in Contents : /\ c.last \in Nat
                         /\ c.final \subseteq 0 .. c.last
                         /\ c.excluded \in 0 .. c.last

Pipes == 0 .. MaxPipelineSize - 1

VARIABLES
  content,          \* segments 0..content.last, those in content.final carry FinalBlockId,
                    \* content.excluded was received by version discovery
  fetchers,         \* m_segmentFetchers
  nextSegmentNo,    \* m_nextSegmentNo
  hasFinalBlockId,  \* m_hasFinalBlockId
  lastSegmentNo,    \* m_lastSegmentNo
  hasFailure,       \* m_hasFailure
  isStopping,       \* m_isStopping
  started,          \* run() was called
  failure,          \* the m_onFailure callback: "no", "posted" or "called"
  delivered         \* history: segments handed to m_onData, the excluded one from the start

vars == <<content, fetchers, nextSegmentNo, hasFinalBlockId, lastSegmentNo,
          hasFailure, isStopping, started, failure, delivered>>

Segments == 0 .. content.last

TypeOK ==
  /\ content \in Contents
  /\ fetchers \in [Pipes -> Fetchers]
  /\ nextSegmentNo \in Nat
  /\ hasFinalBlockId \in BOOLEAN
  /\ lastSegmentNo \in Nat
  /\ hasFailure \in BOOLEAN
  /\ isStopping \in BOOLEAN
  /\ started \in BOOLEAN
  /\ failure \in {"no", "posted", "called"}
  /\ delivered \in SUBSET Segments

Init ==
  /\ content \in Contents
  /\ fetchers = [p \in Pipes |-> NoFetcher]
  /\ nextSegmentNo = 0
  /\ hasFinalBlockId = FALSE
  /\ lastSegmentNo = 0
  /\ hasFailure = FALSE
  /\ isStopping = FALSE
  /\ started = FALSE
  /\ failure = "no"
  /\ delivered = {}

-----------------------------------------------------------------------------
SkipExcluded_Not(s)   == s                                           \* mutant
SkipExcluded_Twice(s) == IF s = content.excluded THEN s + 2 ELSE s   \* mutant

\* m_nextSegmentNo once it has stepped over the excluded segment
SkipExcluded(s) == IF s = content.excluded THEN s + 1 ELSE s

\* cancel() and doCancel(): every fetcher is cancelled and dropped
DropFetchers == fetchers' = [p \in Pipes |-> NoFetcher]

\* onFailure() while not stopping
Fail == isStopping' = TRUE /\ failure' = "posted" /\ DropFetchers

MoreToFetch_Strict(s, known, last) == ~known \/ s < last            \* mutant
MoreToFetch(s, known, last) == ~known \/ s <= last

\* fetchNextSegment(p) for the pipe elements fs, with `known' and `last' the
\* values of m_hasFinalBlockId and m_lastSegmentNo
FetchNextSegment(p, fs, known, last) ==
  IF hasFailure
  THEN Fail /\ UNCHANGED nextSegmentNo
  ELSE LET s == SkipExcluded(nextSegmentNo)
           more == MoreToFetch(s, known, last)
       IN  /\ fetchers' = IF more THEN [fs EXCEPT ![p] = Fetch(s)] ELSE fs
           /\ nextSegmentNo' = IF more THEN s + 1 ELSE s
           /\ UNCHANGED <<isStopping, failure>>

(* run(): the segment found by version discovery is excluded, and doRun()
   starts one fetcher per pipe element until a known last segment is passed.
   Element p gets the p-th of the segments that are not excluded. *)
Run ==
  LET known   == content.excluded \in content.final
      nth(p)  == IF p < content.excluded THEN p ELSE p + 1
      asked   == {p \in Pipes : ~known \/ nth(p) <= content.last}
  IN  /\ ~started
      /\ started' = TRUE
      /\ delivered' = {content.excluded}
      /\ hasFinalBlockId' = known
      /\ lastSegmentNo' = IF known THEN content.last ELSE 0
      /\ fetchers' = [p \in Pipes |-> IF p \in asked THEN Fetch(nth(p)) ELSE NoFetcher]
      /\ nextSegmentNo' = IF asked = Pipes
                          THEN nth(MaxPipelineSize - 1) + 1
                          ELSE nth(Cardinality(asked))
      /\ UNCHANGED <<content, hasFailure, isStopping, failure>>

\* an element of fs gave up on a segment of the content
LostSegment(fs, last) == \E q \in Pipes : HasError(fs[q]) /\ fs[q].seg <= last

\* handleData(): a matching Data reaches the fetcher of element p
ReceiveData(p) ==
  LET s     == fetchers[p].seg
      learn == ~hasFinalBlockId /\ s \in content.final
      last  == IF learn THEN content.last ELSE lastSegmentNo
      got   == [fetchers EXCEPT ![p] = HandleData(@)]
      kept  == [q \in Pipes |-> IF learn /\ got[q].seg > last THEN Cancel(got[q]) ELSE got[q]]
  IN  /\ fetchers[p].phase = "pending"
      /\ s \in Segments
      /\ delivered' = delivered \cup {s}
      /\ hasFinalBlockId' = (hasFinalBlockId \/ learn)
      /\ lastSegmentNo' = last
      /\ IF learn /\ LostSegment(got, last)
         THEN Fail /\ UNCHANGED nextSegmentNo
         ELSE FetchNextSegment(p, kept, hasFinalBlockId \/ learn, last)
      /\ UNCHANGED <<content, hasFailure, started>>

\* !areAllFetchersStopped: an element at or before the failed segment still runs
OthersRunning(fs, s) == \E q \in Pipes : fs[q].seg <= s /\ IsRunning(fs[q])

\* handleFail() for element p, whose fetcher g has just entered "error"
HandleFail(p, g) ==
  LET fs == [fetchers EXCEPT ![p] = g]
      kept == [q \in Pipes |-> IF fs[q].seg > g.seg THEN Cancel(fs[q]) ELSE fs[q]]
  IN  \/ /\ hasFinalBlockId /\ g.seg <= lastSegmentNo
         /\ Fail /\ UNCHANGED hasFailure
      \/ /\ hasFinalBlockId /\ g.seg > lastSegmentNo
         /\ fetchers' = fs
         /\ UNCHANGED <<hasFailure, isStopping, failure>>
      \/ /\ ~hasFinalBlockId /\ ~OthersRunning(fs, g.seg)
         /\ Fail /\ UNCHANGED hasFailure
      \/ /\ ~hasFinalBlockId /\ OthersRunning(fs, g.seg)
         /\ fetchers' = kept
         /\ hasFailure' = TRUE
         /\ UNCHANGED <<isStopping, failure>>

\* a Nack or a timeout turned the fetcher of element p into g
Retried(p, g) ==
  /\ IF HasError(g)
     THEN HandleFail(p, g)
     ELSE fetchers' = [fetchers EXCEPT ![p] = g] /\ UNCHANGED <<hasFailure, isStopping, failure>>
  /\ UNCHANGED <<content, nextSegmentNo, hasFinalBlockId, lastSegmentNo, started, delivered>>

ReceiveNack(p) ==
  /\ fetchers[p].phase = "pending"
  /\ \E why \in Reasons : Retried(p, HandleNack(fetchers[p], why))

LifetimeExpires(p) ==
  /\ fetchers[p].phase = "pending"
  /\ Retried(p, HandleTimeout(fetchers[p]))

BackoffElapses(p) ==
  /\ fetchers[p].phase = "backoff"
  /\ Retried(p, ExpressInterest(fetchers[p]))

\* the posted m_onFailure runs; Consumer::onFailure throws out of the event loop
CallOnFailure ==
  /\ failure = "posted"
  /\ failure' = "called"
  /\ UNCHANGED <<content, fetchers, nextSegmentNo, hasFinalBlockId, lastSegmentNo,
                 hasFailure, isStopping, started, delivered>>

-----------------------------------------------------------------------------
Next ==
  \/ Run
  \/ \E p \in Pipes : \/ ReceiveData(p)
                      \/ ReceiveNack(p)
                      \/ LifetimeExpires(p)
                      \/ BackoffElapses(p)
  \/ CallOnFailure

(* The Face answers every pending Interest with Data, a Nack or, when its
   lifetime is over, a timeout; timers fire; posted handlers run. *)
Answered(p) == ReceiveData(p) \/ ReceiveNack(p) \/ LifetimeExpires(p)

Fairness ==
  /\ WF_vars(Run)
  /\ \A p \in Pipes : WF_vars(Answered(p)) /\ WF_vars(BackoffElapses(p))
  /\ WF_vars(CallOnFailure)

Spec == Init /\ [][Next]_vars /\ Fairness

-----------------------------------------------------------------------------
Quiescent == started /\ ~isStopping /\ \A p \in Pipes : ~IsRunning(fetchers[p])

(* No two pipe elements fetch the same segment, and none fetches a segment
   that was delivered or is the one version discovery already received, so
   handleData() hands each segment over once. *)
FetchedOnce ==
  \A p, q \in Pipes :
    IsRunning(fetchers[p]) =>
      /\ fetchers[p].seg \notin delivered
      /\ p # q /\ IsRunning(fetchers[q]) => fetchers[p].seg # fetchers[q].seg

(* While the pipeline runs, each segment it has stepped past is delivered, in
   the hands of a fetcher, or known to lie beyond the end: none is skipped by
   the excluded-segment rule or lost when fetchers are cancelled or fail. *)
NoneSkipped ==
  started /\ ~isStopping =>
    \A s \in 0 .. nextSegmentNo - 1 :
      \/ s \in delivered
      \/ hasFinalBlockId /\ s > lastSegmentNo
      \/ \E p \in Pipes : fetchers[p].seg = s /\ IsRunning(fetchers[p])
      \/ ~hasFinalBlockId /\ hasFailure

(* With finite retries the transfer always ends: quiet, or with the failure
   callback called. No element waits for a refill that never comes. *)
Termination == <>[](Quiescent \/ failure = "called")

(* With unlimited retries (-r -1) nothing ends by exhaustion. If each existing
   segment is answered with Data sooner or later, and one of them carries the
   FinalBlockId, the transfer still ends. *)
ReliableSpec == Spec /\ \A p \in Pipes : SF_vars(ReceiveData(p))
TerminationUnlimited == content.final # {} => Termination

Contract == INSTANCE SegmentTransfer WITH
  outcome <- IF ~started THEN "idle"
             ELSE IF failure # "no" THEN "failed"
             ELSE IF Quiescent THEN "complete"
             ELSE "running"

(* The pipeline implements the contract of PipelineInterests: it never goes
   quiet with a segment missing, never delivers after it failed. *)
ContractSpec == Contract!Spec
===========================================================================
