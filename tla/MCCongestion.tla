---------------------------- MODULE MCCongestion ----------------------------
EXTENDS CongestionPipelines

CONSTANTS MaxLastSegment   \* bound: the largest content has segments 0..MaxLastSegment

\* contents of several segments: none, the last one or all carry FinalBlockId,
\* and version discovery received the first or the last
SeveralSegments ==
  UNION {[last : {n}, final : {{}, {n}, 0 .. n}, excluded : {0, n}] : n \in 1 .. MaxLastSegment}
=============================================================================
