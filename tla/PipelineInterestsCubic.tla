----------------------- MODULE PipelineInterestsCubic -----------------------
(***************************************************************************)
(* tools/chunks/catchunks/pipeline-interests-cubic.cpp: a copy of the Aimd *)
(* pipeline whose window grows along a cubic function of the time since    *)
(* the last reduction, and whose handleData() ignores the Data of a        *)
(* segment that is not in m_segmentInfo.                                   *)
(*                                                                         *)
(* cwnd and ssthresh are the integer parts of m_cwnd and m_ssthresh, whole *)
(* says that m_cwnd is known to have no fraction. Time, and with it the    *)
(* epoch, K and the origin of the cubic function, is left out: they only   *)
(* say by how much m_cwnd grows.                                           *)
(***************************************************************************)
EXTENDS PipelineState, Integers

CONSTANTS
  MaxCwnd,          \* bound: the congestion window does not grow past it
  InitCwnds,        \* m_options.initCwnd is one of these
  InitSsthresh      \* m_options.initSsthresh

CubicWindows     == [cwnd : 0 .. MaxCwnd, whole : BOOLEAN,
                     ssthresh : {InitSsthresh} \cup 2 .. MaxCwnd]
CubicInitWindows == [cwnd : InitCwnds, whole : {TRUE}, ssthresh : {InitSsthresh}]
CubicCwnd(w)     == w.cwnd

\* cubicUpdate(): towards the target when that is above m_cwnd, else by 0.01/m_cwnd
CubicUpdate(w) == {[w EXCEPT !.cwnd = c, !.whole = FALSE] : c \in w.cwnd .. MaxCwnd}

\* increaseWindow()
CubicIncreased(w) ==
  IF w.cwnd < w.ssthresh /\ w.cwnd < MaxCwnd
  THEN {[w EXCEPT !.cwnd = @ + 1]}
  ELSE CubicUpdate(w)

\* four fifths, rounded down, of a window of at least w.cwnd and, unless it is
\* whole, below w.cwnd + 1
FourFifths(w) == (4 * w.cwnd) \div 5 .. (IF w.whole THEN 4 * w.cwnd ELSE 4 * w.cwnd + 3) \div 5

\* mutant: m_cwnd * cubicBeta
CubicDecreased_Beta(w) ==
  {[cwnd |-> w.cwnd \div 5, whole |-> FALSE, ssthresh |-> 2]}

\* decreaseWindow() with cubicBeta = 1/5
CubicDecreased(w) ==
  {[cwnd |-> c, whole |-> FALSE, ssthresh |-> IF c >= 2 THEN c ELSE 2] : c \in FourFifths(w)}

CubicIgnoresUnknown_Not == FALSE   \* mutant: as in the Aimd pipeline

\* handleData() looks the segment up before it uses the entry
CubicIgnoresUnknown == TRUE

Aimd == INSTANCE PipelineInterestsAimd WITH
  Windows <- CubicWindows, InitWindows <- CubicInitWindows,
  Cwnd <- CubicCwnd, Increased <- CubicIncreased, Decreased <- CubicDecreased,
  IgnoresUnknown <- CubicIgnoresUnknown

-----------------------------------------------------------------------------
(* The handlers are those of the Aimd pipeline, line by line. *)

Init       == Aimd!Init
Run        == Aimd!Run
SendNext   == Aimd!SendNext
SkipRetx   == Aimd!SkipRetx
Retransmit == Aimd!Retransmit
CheckRto(s) == Aimd!CheckRto(s)
HandleLifetimeExpiration(s) == Aimd!HandleLifetimeExpiration(s)
HandleNack(s) == Aimd!HandleNack(s)
HandleData(s) == Aimd!HandleData(s)
CallOnFailure == Aimd!CallOnFailure
============================================================================
