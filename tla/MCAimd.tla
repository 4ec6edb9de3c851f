------------------------------- MODULE MCAimd -------------------------------
EXTENDS PipelineInterestsAimd, AimdWindow

CONSTANTS MaxLastSegment   \* bound: the largest content has segments 0..MaxLastSegment

\* every content, and every choice of the segments that carry FinalBlockId
AllContents ==
  UNION {[last : {n}, final : SUBSET (0 .. n), excluded : 0 .. n] : n \in 0 .. MaxLastSegment}

\* contents of several segments whose end is known from version discovery on,
\* as putchunks publishes them
EndKnown == {c \in AllContents : c.last > 0 /\ c.excluded \in c.final}
=============================================================================
