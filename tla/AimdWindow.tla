---------------------------- MODULE AimdWindow ----------------------------
(***************************************************************************)
(* The congestion window of pipeline-interests-aimd.cpp: the integer part  *)
(* of m_cwnd, and m_ssthresh.                                              *)
(***************************************************************************)
EXTENDS Naturals

CONSTANTS
  MaxCwnd,          \* bound: the congestion window does not grow past it
  InitCwnd,         \* m_options.initCwnd
  InitSsthresh,     \* m_options.initSsthresh
  ResetCwndToInit   \* m_options.resetCwndToInit

ASSUME AimdWindowAssumption ==
  /\ InitCwnd \in Nat \ {0} /\ MaxCwnd \in Nat /\ InitCwnd <= MaxCwnd /\ 2 <= MaxCwnd
  /\ InitSsthresh \in Nat
  /\ ResetCwndToInit \in BOOLEAN

AimdWindows     == [cwnd : 1 .. MaxCwnd, ssthresh : {InitSsthresh} \cup 2 .. MaxCwnd]
AimdInitWindows == {[cwnd |-> InitCwnd, ssthresh |-> InitSsthresh]}
AimdCwnd(w)     == w.cwnd

\* increaseWindow(): a whole step in slow start; in congestion avoidance the
\* fraction added to m_cwnd may or may not complete the next integer
AimdIncreased(w) ==
  LET next == w.cwnd + 1
      grows == IF w.cwnd < w.ssthresh THEN {next} ELSE {w.cwnd, next}
  IN  {[w EXCEPT !.cwnd = IF c <= MaxCwnd THEN c ELSE MaxCwnd] : c \in grows}

\* decreaseWindow(), mdCoef = 1/2: the integer part of m_cwnd / 2 depends on
\* the integer part of m_cwnd only
AimdDecreased(w) ==
  LET half == IF w.cwnd \div 2 >= 2 THEN w.cwnd \div 2 ELSE 2
  IN  {[cwnd |-> IF ResetCwndToInit THEN InitCwnd ELSE half, ssthresh |-> half]}
============================================================================
