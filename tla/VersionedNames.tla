--------------------------- MODULE VersionedNames ---------------------------
(***************************************************************************)
(* Names prefix/comp/seg under the prefix of a content, as the producer    *)
(* makes them and the discovery reads them. A component is a number, in    *)
(* the canonical order; some are versions, the others belong to other      *)
(* applications. A last component in StraySegments is no segment number.   *)
(***************************************************************************)
EXTENDS Integers

CONSTANTS Versions, StraySegments

ASSUME NamesAssumption == Versions \subseteq Nat

IsVersion(c) == c \in Versions
IsSegment(s) == s \notin StraySegments
=============================================================================
