------------------------------ MODULE Consumer ------------------------------
(***************************************************************************)
(* tools/chunks/catchunks/consumer.cpp, with the main program around it:   *)
(* it starts the pipeline on the segment that version discovery found,     *)
(* buffers the segments the pipeline hands over, and writes them in order. *)
(*                                                                         *)
(* The pipeline is any one that keeps the contract SegmentTransfer. Data   *)
(* is validated by ValidatorNull (ndncatchunks.cpp), which accepts at once *)
(* and calls onDataValidated() before validate() returns. An exception     *)
(* leaves the event loop and ends the program.                             *)
(***************************************************************************)
EXTENDS SegmentTransfer, SequencesExt

CONSTANTS MaxLastSegment,  \* bound: the largest content has segments 0..MaxLastSegment
          AtMostOnce       \* the pipeline hands no segment over twice

ASSUME ConsumerAssumption == MaxLastSegment \in Nat /\ AtMostOnce \in BOOLEAN

VARIABLES nextToPrint,  \* m_nextToPrint
          buffered,     \* m_bufferedData, the segment numbers
          output,       \* history: the segments written to m_outputStream
          result        \* "running", or how the program ended: "success" (exit code 0),
                        \* "appNack" (3), "failure" (1)

consumerVars == <<nextToPrint, buffered, output, result>>
allVars == <<vars, consumerVars>>

\* a content also has segments that are application level Nacks
ContentsTo(n) == [last : {n}, excluded : 0 .. n, nacks : SUBSET (0 .. n)]
Contents == UNION {ContentsTo(n) : n \in 0 .. MaxLastSegment}
NoContent == [last |-> 0, excluded |-> 0, nacks |-> {}]

ConsumerInit ==
  /\ content = NoContent
  /\ Init
  /\ nextToPrint = 0
  /\ buffered = {}
  /\ output = << >>
  /\ result = "running"

-----------------------------------------------------------------------------
\* the loop stops at the first segment that is missing from buf
Contiguous_Gaps(buf, m) == \E s \in buf : m <= s + 1   \* mutant: gaps are not seen
Contiguous(buf, m) == \A s \in nextToPrint .. m - 1 : s \in buf

\* the segments of T in the order in which a map keeps them
InMapOrder(T) ==
  CHOOSE q \in SetToSeqs(T) : \A i, j \in DOMAIN q : i < j => q[i] < q[j]

\* writeInOrderData() with m_bufferedData = buf, a map ordered by segment: it
\* looks at the first entry only, so one below m_nextToPrint stops it
WriteInOrderData(buf) ==
  \/ /\ \E s \in buf : s < nextToPrint
     /\ buffered' = buf
     /\ UNCHANGED <<nextToPrint, output>>
  \/ /\ \A s \in buf : s >= nextToPrint
     /\ \E m \in {nextToPrint} \cup {s + 1 : s \in buf} :
          /\ Contiguous(buf, m) /\ ~Contiguous(buf, m + 1)
          /\ nextToPrint' = m
          /\ buffered' = {s \in buf : s >= m}
          /\ output' = output \o InMapOrder({s \in buf : s < m})

Buffer_Last(s) == {s}                    \* mutant: keeps the last segment only
Buffer(s) == buffered \cup {s}

\* onDataValidated()
OnDataValidated(s, isNack) ==
  IF isNack
  THEN result' = "appNack" /\ UNCHANGED <<nextToPrint, buffered, output>>
  ELSE WriteInOrderData(Buffer(s)) /\ UNCHANGED result

\* startPipeline(): validates the segment found by discovery and runs the pipeline
StartPipeline(c) ==
  /\ result = "running"
  /\ content' = c
  /\ Start
  /\ OnDataValidated(c.excluded, c.excluded \in c.nacks)

\* onDiscoveryFailure
DiscoveryFails ==
  /\ result = "running" /\ outcome = "idle"
  /\ result' = "failure"
  /\ UNCHANGED <<vars, nextToPrint, buffered, output>>

\* the pipeline's data callback
OnData(s) ==
  /\ result = "running"
  /\ AtMostOnce => s \notin delivered
  /\ Deliver(s)
  /\ OnDataValidated(s, s \in content.nacks)

\* the pipeline ends between two segments
PipelineEnds ==
  /\ result = "running"
  /\ End
  /\ UNCHANGED consumerVars

\* the pipeline's failure callback
OnFailure ==
  /\ result = "running" /\ outcome = "failed"
  /\ result' = "failure"
  /\ UNCHANGED <<vars, nextToPrint, buffered, output>>

\* face.processEvents() returns, for nothing is left to do, and main() with it
Return ==
  /\ result = "running" /\ outcome = "complete"
  /\ result' = "success"
  /\ UNCHANGED <<vars, nextToPrint, buffered, output>>

ConsumerNext ==
  \/ \E c \in Contents : StartPipeline(c)
  \/ DiscoveryFails
  \/ \E s \in Segments : OnData(s)
  \/ PipelineEnds \/ OnFailure \/ Return

ConsumerSpec == ConsumerInit /\ [][ConsumerNext]_allVars

-----------------------------------------------------------------------------
(* What was written, m_outputStream read back, is exactly the segments below m_nextToPrint, each
   once and in order, whatever the order in which they arrived. *)
WrittenInOrder ==
  /\ Len(output) = nextToPrint
  /\ \A i \in 1 .. Len(output) : output[i] = i - 1

(* A segment that arrived is either written or waits in the buffer for an
   earlier one: none is dropped, and none that could be written is withheld. *)
NoneLostNorWithheld ==
  result = "running" =>
    /\ delivered = buffered \cup (0 .. nextToPrint - 1)
    /\ nextToPrint \notin buffered

(* A program that ends with exit code 0 has written the whole content. *)
SuccessMeansWritten == result = "success" => nextToPrint = content.last + 1
=============================================================================
