----------------------------- MODULE Catchunks -----------------------------
(***************************************************************************)
(* ndncatchunks and the producers of the content: main() chooses the       *)
(* version discovery and the pipeline, discovery finds a Data of some      *)
(* version, the consumer retrieves and writes that version.                *)
(*                                                                         *)
(* A discovery Interest is answered by a producer, or by a cache with any  *)
(* segment of a version that was once served, or with another              *)
(* application's Data. Once discovery is over the producers are no longer  *)
(* looked at: what they published does not change, and whether the         *)
(* pipeline gets it is up to its contract.                                 *)
(***************************************************************************)
EXTENDS Consumer, Producer, DiscoverVersion

CONSTANT StrayData   \* Data of other applications, under the prefix

VARIABLE pipeline   \* what main() hands to the consumer: the "fixed" window pipeline,
                    \* one with a congestion "window", or "null"

mainVars == <<producers, discoveryVars, pipeline>>
systemVars == <<allVars, mainVars>>

StrayAssumption ==
  \A d \in StrayData : ~IsVersion(d.comp) \/ ~IsSegment(d.seg)
ASSUME StrayAssumption

\* the bound on contents leaves room for every input
ASSUME InputsFit == \A i \in Inputs : Len(i) <= (MaxLastSegment + 1) * MaxSegmentSize

SystemInit ==
  /\ ConsumerInit /\ ProducerInit /\ DiscoveryInit
  /\ pipeline = "null"

-----------------------------------------------------------------------------
WindowPipelines == {"aimd", "cubic", "tcpbic"}

Options == [discover : {"fixed", "iterative", "other"},
            pipeline : {"fixed", "other"} \cup WindowPipelines,
            versioned : BOOLEAN,                  \* the name ends with a version
            inRange : BOOLEAN,                    \* pipeline size and both retries
            debug : {"no", "opens", "fails"}]     \* the log files asked for

UsageError(o) ==
  \/ o.discover = "fixed" /\ ~o.versioned
  \/ ~o.inRange
  \/ o.discover = "other"
  \/ o.pipeline = "other"

DebugFileFails(o) == o.pipeline \in WindowPipelines /\ o.debug = "fails"

\* the Cubic pipeline is moved to `pipeline` where its log files are opened only
PipelineMade(o) ==
  CASE o.pipeline = "fixed"                    -> "fixed"
    [] o.pipeline = "cubic" /\ o.debug = "no" -> "null"
    [] OTHER                                   -> "window"

Exits(r) == result' = r /\ UNCHANGED <<vars, nextToPrint, buffered, output>>

\* main() up to Consumer::run(), which starts the discovery
Main ==
  /\ type = "none" /\ result = "running"
  /\ \E o \in Options :
       \/ UsageError(o) /\ Exits("usage") /\ UNCHANGED mainVars
       \/ ~UsageError(o) /\ DebugFileFails(o) /\ Exits("debugFile") /\ UNCHANGED mainVars
       \* BOOST_ASSERT(pipeline != nullptr), in a build with assertions
       \/ ~UsageError(o) /\ PipelineMade(o) = "null" /\ Exits("crashed") /\ UNCHANGED mainVars
       \/ /\ ~UsageError(o) /\ ~DebugFileFails(o)
          /\ pipeline' = PipelineMade(o)
          /\ \E v \in IF o.discover = "fixed" THEN Versions ELSE {0} : RunDiscovery(o.discover, v)
          /\ UNCHANGED <<producers, allVars>>

-----------------------------------------------------------------------------
\* onDiscoverySuccess of the Data d, with the content that its version has
DiscoverySucceeds(d) ==
  IF pipeline = "null"
  THEN Exits("crashed")                       \* m_pipeline->run() or cancel()
  ELSE IF ~IsSegment(d.seg)
  THEN Exits("failure")                       \* toSegment() throws
  ELSE LET last == FinalBlock(producers[d.comp].store)
       IN  \E n \in SUBSET (0 .. last) : StartPipeline([last |-> last, excluded |-> d.seg, nacks |-> n])

DiscoverySignals_Ignored ==   \* mutant: nothing is connected to onDiscoveryFailure
  CASE signal' = "success" -> DiscoverySucceeds(found')
    [] signal' = "failure" -> Exits("success")
    [] OTHER               -> UNCHANGED allVars
\* Consumer's part in a step of the discovery
DiscoverySignals ==
  CASE signal' = "success" -> DiscoverySucceeds(found')
    [] signal' = "failure" -> DiscoveryFails
    [] OTHER               -> UNCHANGED allVars

DiscoveryStep(A) ==
  result = "running" /\ A /\ DiscoverySignals /\ UNCHANGED <<producers, pipeline>>

ProducerAnswers(v) ==
  \E s \in OnInterest(v, 0) : DiscoveryStep(HandleData([comp |-> v, seg |-> s]))

CacheAnswers(v) ==
  /\ producers[v].status \in {"serving", "stopped"}
  /\ \E s \in 0 .. FinalBlock(producers[v].store) : DiscoveryStep(HandleData([comp |-> v, seg |-> s]))

OthersAnswer(d) == DiscoveryStep(HandleData(d))

DiscoveryNacked == \E r \in Searching!Reasons : DiscoveryStep(HandleNack(r))
DiscoveryTimesOut == DiscoveryStep(HandleTimeout)
DiscoveryBacksOff == DiscoveryStep(BackoffEnds)

ProducerSteps ==
  /\ signal = "none" /\ result = "running"
  /\ \E v \in Versions :
       \/ \E i \in Inputs : StartProducer(v, i)
       \/ RegisterSucceeds(v) \/ OnRegisterFailed(v) \/ Stop(v)
  /\ UNCHANGED <<allVars, discoveryVars, pipeline>>

TransferSteps ==
  /\ \/ \E s \in Segments : OnData(s)
     \/ PipelineEnds \/ OnFailure \/ Return
  /\ UNCHANGED mainVars

SystemNext ==
  \/ Main
  \/ \E v \in Versions : ProducerAnswers(v) \/ CacheAnswers(v)
  \/ \E d \in StrayData : OthersAnswer(d)
  \/ DiscoveryNacked \/ DiscoveryTimesOut \/ DiscoveryBacksOff
  \/ ProducerSteps
  \/ TransferSteps

\* a transfer or the program ends; only the fixed window pipeline is known to end any transfer
TransferEnds ==
  /\ TransferSteps
  /\ outcome = "running" => pipeline = "fixed"
  /\ outcome' # outcome \/ result' # result

(* Fairness: the program starts; a pending Interest is answered, nacked or
   expires, and a backoff ends; a transfer by the fixed window pipeline ends,
   for its retries are limited as those of the discovery are, and the program
   after any transfer. A pipeline with a congestion window can keep a transfer
   for ever, and nothing makes anybody publish. *)
SystemSpec ==
  /\ SystemInit /\ [][SystemNext]_systemVars
  /\ WF_systemVars(Main)
  /\ WF_systemVars(DiscoveryTimesOut \/ DiscoveryBacksOff \/ DiscoveryNacked)
  /\ WF_systemVars(TransferEnds)

-----------------------------------------------------------------------------
\* the bytes of a sequence of segments
Concat(segs) ==
  LET bytes[n \in 0 .. Len(segs)] == IF n = 0 THEN << >> ELSE bytes[n - 1] \o segs[n]
  IN  bytes[Len(segs)]

(* A program that ends with exit code 0 has written, byte for byte, what the
   producer of the version that discovery chose has read. *)
RoundTrip ==
  result = "success" =>
    LET p == producers[found.comp]
    IN  Concat([i \in 1 .. Len(output) |-> p.store[output[i] + 1]]) = p.input

(* "declares the largest discovered version to be the latest": as long as no
   other application has answered, the version the iterative discovery settles
   for is the largest that has answered, in whatever order the producers and
   caches did. *)
LargestReported ==
  strayExcludes = {} => \A v \in answered : v <= found.comp

(* "DiscoverVersion's user is notified once": when it has been, no Interest and
   no backoff is left that could notify it again. *)
NotifiedOnce == signal # "none" => ~Searching!IsRunning(fetcher)

(* The program ends, whatever answers and whatever is lost, but for two cases:
   other applications' Data keep answering an iterative discovery that has
   found no version, for their components are not excluded then; or a pipeline
   with a congestion window never ends its transfer. *)
Termination ==
  \/ <>(result # "running")
  \/ []<><<\E d \in StrayData : StrayBeforeVersion(d)>>_systemVars
  \/ <>[](outcome = "running" /\ pipeline = "window")

(* What surrounds the consumer - options, discovery, producers - leaves it a
   consumer: what was proved of Consumer holds of the whole program. *)
ConsumerPart == INSTANCE Consumer WITH
  result <- IF result \in {"usage", "debugFile", "crashed"} THEN "failure" ELSE result
StillAConsumer == ConsumerPart!ConsumerSpec

(* BOOST_ASSERT(pipeline != nullptr): the consumer runs with a pipeline. *)
PipelineNotNull == type # "none" => pipeline # "null"
=============================================================================
