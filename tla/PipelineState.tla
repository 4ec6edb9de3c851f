--------------------------- MODULE PipelineState ---------------------------
(***************************************************************************)
(* The state that the pipelines with a congestion window share: the Aimd,  *)
(* the Cubic and the TcpBic pipeline are copies of one program that differ *)
(* in what they make of the window.                                        *)
(***************************************************************************)
EXTENDS Integers

CONSTANTS
  Contents,         \* what producers publish: the content is one of these
  MaxSegmentNo,     \* bound: no segment above it is requested
  DisableCwa,       \* m_options.disableCwa
  MaxRetries,       \* m_options.maxRetriesOnTimeoutOrNack
  Events            \* what the network does besides delivering Data

EventKinds == {"Rto", "Lifetime", "Congestion", "Duplicate", "Other"}

ASSUME PipelineAssumption ==
  /\ MaxSegmentNo \in Nat
  /\ \A c \in Contents : /\ c.last \in 0 .. MaxSegmentNo
                         /\ c.final \subseteq 0 .. c.last
                         /\ c.excluded \in 0 .. c.last
  /\ DisableCwa \in BOOLEAN
  /\ MaxRetries \in Int
  /\ Events \subseteq EventKinds

VARIABLES
  content,          \* segments 0..content.last, those in content.final carry FinalBlockId,
                    \* content.excluded was received by version discovery
  started,          \* run() was called
  hasFinalBlockId,  \* m_hasFinalBlockId
  lastSegmentNo,    \* m_lastSegmentNo
  isStopping,       \* m_isStopping
  failure,          \* the m_onFailure callback: "no", "posted" or "called"
  info,             \* m_segmentInfo, the states only
  retxQueue,        \* m_retxQueue
  retxCount,        \* m_retxCount, 0 for a segment without an entry
  nextSegmentNo,    \* m_nextSegmentNo
  nInFlight,        \* m_nInFlight
  nReceived,        \* m_nReceived
  hasFailure,       \* m_hasFailure
  failedSegNo,      \* m_failedSegNo
  highData,         \* m_highData
  highInterest,     \* m_highInterest
  recPoint,         \* m_recPoint
  window,           \* m_cwnd, m_ssthresh and what else describes the congestion window
  avail,            \* availableWindowSize of the running schedulePackets(), 0 outside it
  first, resent,    \* the Face's pending Interests
  arriving,         \* the segment whose Data the Face is handing out
  delivered         \* history: the segments handed to m_onData and the excluded one
============================================================================
