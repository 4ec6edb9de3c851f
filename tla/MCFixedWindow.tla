--------------------------- MODULE MCFixedWindow ---------------------------
EXTENDS PipelineInterestsFixedWindow

CONSTANTS MaxLastSegment   \* bound: the largest content has segments 0..MaxLastSegment

\* every content, and every choice of the segments that carry FinalBlockId
AllContents ==
  UNION {[last : {n}, final : SUBSET (0 .. n), excluded : 0 .. n] : n \in 0 .. MaxLastSegment}

\* those where no segment, one segment or every segment carries it
PlainContents == {c \in AllContents : Cardinality(c.final) <= 1 \/ c.final = 0 .. c.last}
=============================================================================
