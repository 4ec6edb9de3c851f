----------------------- MODULE PipelineInterestsTcpBic -----------------------
(***************************************************************************)
(* tools/chunks/catchunks/pipeline-interests-tcpbic.cpp: a copy of the     *)
(* Aimd pipeline whose window is that of Reno TCP below LOW_WINDOW and     *)
(* searches for a target from there on.                                    *)
(*                                                                         *)
(* m_beta, resetToInitial and m_initialWindow are never initialised: the   *)
(* last two keep whatever value they have, and once m_beta was used the    *)
(* window and the bracket of the search may be anything.                   *)
(***************************************************************************)
EXTENDS PipelineState, Integers

CONSTANTS
  MaxCwnd,          \* bound: the congestion window does not grow past it
  InitCwnds,        \* m_options.initCwnd is one of these
  InitSsthresh      \* m_options.initSsthresh

CONSTANTS
  LOW_WINDOW,       \* 14 in the code, where MAX_INCREMENT is 16
  Garbage           \* bound: the integer parts of m_initialWindow, and of the windows that
                    \* m_beta makes, are among these; 0 also stands for what is negative

BicWindows == [cwnd : 0 .. MaxCwnd, ssthresh : {InitSsthresh} \cup 0 .. MaxCwnd,
               resetToInitial : BOOLEAN, initialWindow : Garbage, betaUsed : BOOLEAN]
BicInitWindows == [cwnd : InitCwnds, ssthresh : {InitSsthresh},
                   resetToInitial : BOOLEAN, initialWindow : Garbage, betaUsed : {FALSE}]
BicCwnd(w) == w.cwnd

\* increaseWindow(): below LOW_WINDOW a whole step up to m_ssthresh and the
\* fraction 1/m_cwnd above it, which takes a window between 1 and 2 past 2; from
\* there on a step towards the target, which is 0 at first, so that the window
\* may lose a segment, and never more than MAX_INCREMENT/m_cwnd upwards
BicGrowth(w) ==
  LET c == w.cwnd IN
  IF c = 0 \/ (c >= LOW_WINDOW /\ w.betaUsed) THEN Garbage \cup {c, c + 1}
  ELSE IF c >= LOW_WINDOW THEN (c - 1) .. (c + 2)
  ELSE IF c < w.ssthresh \/ c = 1 THEN {c + 1}
  ELSE {c, c + 1}

BicIncreased(w) == {[w EXCEPT !.cwnd = IF c <= MaxCwnd THEN c ELSE MaxCwnd] : c \in BicGrowth(w)}

\* decreaseWindow() before it looks at resetToInitial
BicHalved(w) ==
  IF w.cwnd >= LOW_WINDOW
  THEN {[w EXCEPT !.cwnd = c, !.betaUsed = TRUE] : c \in Garbage}
  ELSE {[w EXCEPT !.cwnd = @ \div 2, !.ssthresh = w.cwnd \div 2]}

BicDecreased(w) ==
  IF w.resetToInitial
  THEN {[v EXCEPT !.cwnd = w.initialWindow, !.ssthresh = v.cwnd \div 2] : v \in BicHalved(w)}
  ELSE BicHalved(w)

Aimd == INSTANCE PipelineInterestsAimd WITH
  Windows <- BicWindows, InitWindows <- BicInitWindows,
  Cwnd <- BicCwnd, Increased <- BicIncreased, Decreased <- BicDecreased,
  IgnoresUnknown <- FALSE

-----------------------------------------------------------------------------
(* The handlers are those of the Aimd pipeline, line by line. *)

Init       == Aimd!Init
Run        == Aimd!Run
SendNext   == Aimd!SendNext
SkipRetx   == Aimd!SkipRetx
Retransmit == Aimd!Retransmit
CheckRto(s) == Aimd!CheckRto(s)
HandleLifetimeExpiration(s) == Aimd!HandleLifetimeExpiration(s)
HandleNack(s) == Aimd!HandleNack(s)
HandleData(s) == Aimd!HandleData(s)
CallOnFailure == Aimd!CallOnFailure
============================================================================
