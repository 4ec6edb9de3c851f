---------------------------- MODULE DataFetcher ----------------------------
(***************************************************************************)
(* tools/chunks/catchunks/data-fetcher.cpp: one Interest, expressed and    *)
(* re-expressed until Data arrives or a retry budget is used up.           *)
(*                                                                         *)
(* A fetcher is a record, so that a user of the class can hold several.    *)
(* Its phase joins the two flags of the code with what the Face and the    *)
(* scheduler hold for it:                                                  *)
(*   "pending"  running, its Interest is in the Face                       *)
(*   "backoff"  running, a scheduled event will express the Interest again *)
(*   "stopped"  m_isStopped: Data was received, or the user cancelled it   *)
(*   "error"    m_hasError: the failure callback was called                *)
(* "none" is the user's null pointer.                                      *)
(***************************************************************************)
EXTENDS Integers

CONSTANTS MaxNackRetries,      \* m_maxNackRetries, -1 is unlimited
          MaxTimeoutRetries,   \* m_maxTimeoutRetries, -1 is unlimited
          MaxBackoffExp        \* the first n with 2^n ms above MAX_CONGESTION_BACKOFF_TIME

MAX_RETRIES_INFINITE == -1

ASSUME RetriesAssumption ==
  /\ MaxNackRetries \in Nat \cup {MAX_RETRIES_INFINITE}
  /\ MaxTimeoutRetries \in Nat \cup {MAX_RETRIES_INFINITE}
  /\ MaxBackoffExp \in Nat \ {0}

Reasons == {"Duplicate", "Congestion", "Other"}   \* lp::NackReason, as the switch splits it
Phases  == {"none", "pending", "backoff", "stopped", "error"}

Fetchers == [seg : Nat, phase : Phases,
             nNacks : Nat, nTimeouts : Nat, nCongestionRetries : Nat]

NoFetcher == [seg |-> 0, phase |-> "none",
              nNacks |-> 0, nTimeouts |-> 0, nCongestionRetries |-> 0]

IsRunning(f) == f.phase \in {"pending", "backoff"}
HasError(f)  == f.phase = "error"

ExpressInterest(f) == [f EXCEPT !.phase = "pending", !.nCongestionRetries = 0]

Fetch(s) == ExpressInterest([NoFetcher EXCEPT !.seg = s])

Cancel_Forgets(f) == f    \* mutant: cancel() does not stop the fetcher
Cancel(f) == IF IsRunning(f) THEN [f EXCEPT !.phase = "stopped"] ELSE f

HandleData(f) == [f EXCEPT !.phase = "stopped"]

\* one more Nack or timeout, counted only against a finite budget
Count_Down(n, max)  == IF max = MAX_RETRIES_INFINITE THEN n ELSE n - 1    \* mutant
Count_Never(n, max) == n    \* mutant: a retry is not counted
Count(n, max)  == IF max = MAX_RETRIES_INFINITE THEN n ELSE n + 1
Within(n, max) == max = MAX_RETRIES_INFINITE \/ n <= max

ScheduleBackoff(f) ==
  [f EXCEPT !.phase = "backoff",
            !.nCongestionRetries = IF @ >= MaxBackoffExp THEN @ ELSE @ + 1]

HandleNack(f, reason) ==
  LET g == [f EXCEPT !.nNacks = Count(@, MaxNackRetries)]
      retry == Within(g.nNacks, MaxNackRetries)
  IN  CASE retry /\ reason = "Duplicate"  -> ExpressInterest(g)
        [] retry /\ reason = "Congestion" -> ScheduleBackoff(g)
        [] OTHER                          -> [g EXCEPT !.phase = "error"]

HandleTimeout(f) ==
  LET g == [f EXCEPT !.nTimeouts = Count(@, MaxTimeoutRetries)]
  IN  IF Within(g.nTimeouts, MaxTimeoutRetries)
      THEN ExpressInterest(g)
      ELSE [g EXCEPT !.phase = "error"]
============================================================================
