----------------------------- MODULE PingSystem -----------------------------
(***************************************************************************)
(* An ndnping client and an ndnpingserver with a network between them that *)
(* loses, delays and reorders Interests and Data, and nacks Interests. Its *)
(* caches may hold Data for any ping: of an earlier client that counted    *)
(* from the same number (-n), stale if -a allows it, or brought back by    *)
(* this very ping on another path. An answer of theirs does not pass the   *)
(* server, and can be a second one.                                        *)
(***************************************************************************)
EXTENDS Ping, PingServer

CONSTANTS NPings, NMaxPings,   \* the values of both options that are looked at
          MaxServed            \* bound: the server answers no other client's Interests beyond it

ASSUME PingAssumption ==
  /\ NPings \subseteq ClientOptions
  /\ NMaxPings \subseteq ServerOptions
  /\ MaxSent \in Nat

VARIABLES requests,   \* the pings whose Interest is on its way to the server
          replies,    \* the pings whose Data is on its way back
          inTime      \* history: the pings answered by Data before they timed out or were nacked

vars == <<pingVars, serverVars, requests, replies, inTime>>

ClientTypeOK ==
  /\ nPings \in NPings
  /\ nSent \in Nat /\ nOutstanding \in Int
  /\ pending \subseteq 1 .. nSent
  /\ nextPing \in BOOLEAN
  /\ statistics \in [nSent : Nat, nReceived : Nat, nNacked : Nat]
  /\ intWait \in Waits /\ quitWait \in Waits
  /\ nFinishes \in 0 .. 1
  /\ result \in {"started", "running", "0", "1", "2"}

ServerTypeOK ==
  /\ nMaxPings \in NMaxPings
  /\ served \in Nat
  /\ filter \in {"registering", "set", "removing", "gone"}
  /\ serverInt \in Waits
  /\ nServerFinishes \in 0 .. 1
  /\ serverResult \in {"running", "0", "1", "terminated"}

TypeOK ==
  /\ ClientTypeOK /\ ServerTypeOK
  /\ requests \subseteq 1 .. nSent /\ replies \subseteq 1 .. nSent
  /\ inTime \subseteq 1 .. nSent

Init ==
  /\ nPings \in NPings /\ nMaxPings \in NMaxPings
  /\ PingInit /\ ServerInit
  /\ requests = {} /\ replies = {} /\ inTime = {}

-----------------------------------------------------------------------------
\* at the interval: the Interest enters the network
SendPing ==
  /\ PerformPing
  /\ requests' = requests \cup {nSent'}
  /\ UNCHANGED <<serverVars, replies, inTime>>

Serve(p) ==
  /\ p \in requests
  /\ OnInterest
  /\ requests' = requests \ {p}
  /\ replies' = replies \cup {p}
  /\ UNCHANGED <<pingVars, inTime>>

\* a cache answers, whether or not the Interest also goes on to the server
CacheAnswers(p) ==
  /\ p \in requests
  /\ replies' = replies \cup {p}
  /\ requests' \in {requests, requests \ {p}}
  /\ UNCHANGED <<pingVars, serverVars, inTime>>

\* an Interest of another client
ServeOther ==
  /\ served < MaxServed
  /\ OnInterest
  /\ UNCHANGED <<pingVars, requests, replies, inTime>>

ReceiveData(p) ==
  /\ p \in replies
  /\ OnData(p)
  /\ replies' = replies \ {p}
  /\ inTime' = inTime \cup {p}
  /\ UNCHANGED <<serverVars, requests>>

ReceiveNack(p) ==
  /\ p \in requests
  /\ OnNack(p)
  /\ requests' = requests \ {p}
  /\ UNCHANGED <<serverVars, replies, inTime>>

TimesOut(p) == OnTimeout(p) /\ UNCHANGED <<serverVars, requests, replies, inTime>>

\* lost on the way, or Data for an Interest that was answered or has timed out
Lose(p) ==
  /\ \/ p \in requests /\ requests' = requests \ {p} /\ UNCHANGED replies
     \/ p \in replies  /\ replies' = replies \ {p}   /\ UNCHANGED requests
  /\ UNCHANGED <<pingVars, serverVars, inTime>>

ClientEvent ==
  /\ SigInt \/ SigQuit \/ AfterIntSignal \/ AfterQuitSignal \/ FaceFails \/ Return
  /\ UNCHANGED <<serverVars, requests, replies, inTime>>

ServerEvent ==
  /\ \/ Registered \/ OnRegisterFailed
     \/ ServerSigInt \/ ServerAfterIntSignal
     \/ FilterRemoved \/ ServerFaceFails \/ ServerReturns
  /\ UNCHANGED <<pingVars, requests, replies, inTime>>

Next ==
  \/ SendPing
  \/ \E p \in 1 .. nSent : Serve(p) \/ CacheAnswers(p) \/ ReceiveData(p) \/ ReceiveNack(p)
                            \/ TimesOut(p) \/ Lose(p)
  \/ ServeOther
  \/ ClientEvent
  \/ ServerEvent

(* Fairness: timers expire and the event loops run the handlers in their
   queues; no signal, no Interest and no Data has to come. *)
Spec ==
  /\ Init /\ [][Next]_vars
  /\ WF_vars(SendPing) /\ WF_vars(\E p \in 1 .. nSent : TimesOut(p))
  /\ WF_vars(ClientEvent /\ AfterIntSignal) /\ WF_vars(ClientEvent /\ AfterQuitSignal)
  /\ WF_vars(ClientEvent /\ Return)
  /\ WF_vars(ServerEvent /\ ServerAfterIntSignal) /\ WF_vars(ServerEvent /\ FilterRemoved)
  /\ WF_vars(ServerEvent /\ ServerReturns)

-----------------------------------------------------------------------------
(* m_nOutstanding is the number of pending pings, less one once the last ping
   was sent: the extra decrement by performPing() is what lets only the answer
   to the very last pending ping end the program. *)
OutstandingCounts ==
  nOutstanding = Cardinality(pending) - (IF LastSent THEN 1 ELSE 0)

(* afterFinish is emitted exactly once: when all pings were sent and none is
   pending, in whatever order Data, Nacks and timeouts came. *)
FinishedOnce == nFinishes = IF LastSent /\ pending = {} THEN 1 ELSE 0

(* Each ping sent is either pending or in the statistics, once. *)
StatisticsAccount ==
  /\ statistics.nSent + Cardinality(pending) = nSent
  /\ statistics.nReceived + statistics.nNacked <= statistics.nSent

(* The exit code tells whether every ping was answered in time: Data that
   comes after the timeout or the Nack of its ping, or a second time, neither
   repairs it nor stands for another ping. *)
ExitCodeTruthful == result \in {"0", "1"} => (result = "0" <=> inTime = 1 .. nSent)

(* The server ends once, with the Interest that reaches its limit, although it
   may answer some more before the Face has removed its filter. *)
ServerFinishesOnce ==
  nServerFinishes = IF nMaxPings > 0 /\ served >= nMaxPings THEN 1 ELSE 0

(* A client with a number of pings, or one that is interrupted, ends - unless
   the handler of a SIGQUIT was in the queue when the waits were cancelled: it
   waits for the next SIGQUIT, and the program with it. *)
WaitsAgain == (nFinishes > 0 \/ intWait = "off") /\ quitWait # "off"
ClientEnds ==
  (nPings > 0 \/ intWait = "fired") ~> (result \in {"0", "1", "2"} \/ WaitsAgain)

(* A server that has reached its limit or was interrupted ends - unless the
   interrupt came during the registration and the library does not withdraw
   that: then the server goes on, and waits for no signal any more. *)
NotWithdrawn == serverInt = "off" /\ filter \in {"registering", "set"}
ServerEnds ==
  (nServerFinishes > 0 \/ serverInt = "fired") ~> (serverResult # "running" \/ NotWithdrawn)
=============================================================================
