-------------------------------- MODULE Ping --------------------------------
(***************************************************************************)
(* tools/ping/client: ndnping sends Interests at an interval, counts what  *)
(* comes back and ends after the last answer, or after SIGINT. Ping p is   *)
(* the p-th Interest; sequence numbers, round trip times and output are    *)
(* left out.                                                               *)
(*                                                                         *)
(* A signal_set (Boost.Asio) is waited for ("armed"), has its handler in   *)
(* the queue of the event loop because the signal came ("fired"), or is    *)
(* neither ("off"). cancel() ends a wait; a handler that is already in the *)
(* queue still runs, as for a signal.                                      *)
(***************************************************************************)
EXTENDS Integers, FiniteSets

CONSTANT MaxSent   \* bound: an unlimited client sends no more pings than this

VARIABLES
  nPings,        \* m_options.nPings, -1 without a limit
  nSent,         \* m_nSent of Ping
  nOutstanding,  \* m_nOutstanding
  pending,       \* the pings whose Interest is in the Face
  nextPing,      \* m_nextPingEvent is scheduled
  statistics,    \* the counts of StatisticsCollector
  intWait,       \* m_signalSetInt
  quitWait,      \* m_signalSetQuit
  nFinishes,     \* history: how often afterFinish was emitted
  result         \* "started", "running", or the exit code: "0", "1" or "2"

pingVars == <<nPings, nSent, nOutstanding, pending, nextPing, statistics, intWait, quitWait,
              nFinishes, result>>

Waits == {"armed", "fired", "off"}

NoStatistics == [nSent |-> 0, nReceived |-> 0, nNacked |-> 0]

\* nPings as main() leaves it: without -c there is no limit, and a count must be positive
ClientOptions == {-1} \cup (Nat \ {0})

PingInit ==
  /\ nPings \in ClientOptions
  /\ nSent = 0 /\ nOutstanding = 0
  /\ pending = {}
  /\ nextPing = FALSE
  /\ statistics = NoStatistics
  /\ intWait = "armed" /\ quitWait = "armed"
  /\ nFinishes = 0
  /\ result = "started"

LastSent == nPings > 0 /\ nSent = nPings

-----------------------------------------------------------------------------
Cancelled(wait) == IF wait = "armed" THEN "off" ELSE wait

Cancel_KeepsInt ==   \* mutant: the wait for SIGINT is not cancelled
  UNCHANGED intWait /\ quitWait' = Cancelled(quitWait) /\ nextPing' = FALSE
\* Runner::cancel(), which stops the pings and no longer waits for signals
Cancel ==
  /\ intWait' = Cancelled(intWait) /\ quitWait' = Cancelled(quitWait)
  /\ nextPing' = FALSE

Finish_AtZero(n, scheduled) ==   \* mutant: --m_nOutstanding > 0
  /\ nOutstanding' = n - 1
  /\ IF n - 1 > 0
     THEN nextPing' = scheduled /\ UNCHANGED <<nFinishes, intWait, quitWait>>
     ELSE nFinishes' = nFinishes + 1 /\ Cancel
\* finish(), with n outstanding and the next ping scheduled or not: afterFinish
\* is connected to Runner::cancel()
Finish(n, scheduled) ==
  /\ nOutstanding' = n - 1
  /\ IF n - 1 >= 0
     THEN nextPing' = scheduled /\ UNCHANGED <<nFinishes, intWait, quitWait>>
     ELSE nFinishes' = nFinishes + 1 /\ Cancel

\* performPing(), called by start() and by its own event
PerformPing ==
  /\ result = "started" \/ (result = "running" /\ nextPing)
  /\ nPings < 0 => nSent < MaxSent
  /\ result' = "running"
  /\ nSent' = nSent + 1
  /\ pending' = pending \cup {nSent'}
  /\ IF nPings < 0 \/ nSent' < nPings
     THEN /\ nOutstanding' = nOutstanding + 1
          /\ nextPing' = TRUE
          /\ UNCHANGED <<nFinishes, intWait, quitWait>>
     ELSE Finish(nOutstanding + 1, FALSE)
  /\ UNCHANGED <<nPings, statistics>>

\* the StatisticsCollector, told of one ping
Record(received, nacked) ==
  statistics' = [nSent     |-> statistics.nSent + 1,
                 nReceived |-> statistics.nReceived + received,
                 nNacked   |-> statistics.nNacked + nacked]

\* what the handlers have in common
Answered(p) ==
  /\ result = "running" /\ p \in pending
  /\ pending' = pending \ {p}
  /\ Finish(nOutstanding, nextPing)
  /\ UNCHANGED <<nPings, nSent, result>>

OnData(p)    == Answered(p) /\ Record(1, 0)
OnNack_Received(p) == Answered(p) /\ Record(1, 0)   \* mutant: counted as received
OnNack(p)    == Answered(p) /\ Record(0, 1)
OnTimeout(p) == Answered(p) /\ Record(0, 0)

-----------------------------------------------------------------------------
Counters == <<nPings, nSent, nOutstanding, pending, statistics, nFinishes, result>>

\* the user presses Ctrl-C or Ctrl-\; nothing happens while nobody waits for it
SigInt  == result = "running" /\ intWait = "armed" /\ intWait' = "fired"
           /\ UNCHANGED <<Counters, quitWait, nextPing>>
SigQuit == result = "running" /\ quitWait = "armed" /\ quitWait' = "fired"
           /\ UNCHANGED <<Counters, intWait, nextPing>>

AfterIntSignal ==
  /\ result = "running" /\ intWait = "fired"
  /\ intWait' = "off" /\ quitWait' = Cancelled(quitWait)
  /\ nextPing' = FALSE
  /\ UNCHANGED Counters

\* prints a summary and waits for the next SIGQUIT
AfterQuitSignal ==
  /\ result = "running" /\ quitWait = "fired"
  /\ quitWait' = "armed"
  /\ UNCHANGED <<Counters, intWait, nextPing>>

\* the Face loses its connection: processEvents() throws
FaceFails ==
  /\ result = "running"
  /\ result' = "2"
  /\ UNCHANGED <<nPings, nSent, nOutstanding, pending, nextPing, statistics, intWait, quitWait,
                 nFinishes>>

\* processEvents() returns, for nothing is left to wait for
Return ==
  /\ result = "running"
  /\ pending = {} /\ ~nextPing /\ intWait = "off" /\ quitWait = "off"
  /\ result' = IF statistics.nReceived = statistics.nSent THEN "0" ELSE "1"
  /\ UNCHANGED <<nPings, nSent, nOutstanding, pending, nextPing, statistics, intWait, quitWait,
                 nFinishes>>
=============================================================================
