-------------------------- MODULE SegmentTransfer --------------------------
(***************************************************************************)
(* What PipelineInterests promises its user (pipeline-interests.hpp), with *)
(* no pipeline in it: the segments of the content are handed over in any   *)
(* order, each at least once; the transfer ends either complete, which it  *)
(* can only be when no segment is missing, or failed; and nothing is       *)
(* handed over once it has ended.                                          *)
(***************************************************************************)
EXTENDS Naturals

VARIABLES content,    \* the segments 0..content.last, of which run() is given
                      \* content.excluded; without a meaning before run()
          delivered,  \* the segments the user holds
          outcome     \* "idle", "running", "complete" or "failed"

vars == <<content, delivered, outcome>>

Segments == 0 .. content.last

Init ==
  /\ delivered = {}
  /\ outcome = "idle"

\* the transfer may end with the very step that delivers a segment
Ends == \/ outcome' \in {"running", "failed"}
        \/ outcome' = "complete" /\ delivered' = Segments'

\* run(data): its argument says what the content is
Start ==
  /\ outcome = "idle"
  /\ content'.excluded \in Segments'
  /\ delivered' = {content'.excluded}
  /\ Ends

Deliver(s) ==
  /\ outcome = "running"
  /\ UNCHANGED content
  /\ delivered' = delivered \cup {s}
  /\ Ends

End ==
  /\ outcome = "running"
  /\ UNCHANGED <<content, delivered>>
  /\ Ends

Next == Start \/ (\E s \in Segments : Deliver(s)) \/ End

Spec == Init /\ [][Next]_vars
============================================================================
