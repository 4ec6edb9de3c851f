----------------------------- MODULE PingServer -----------------------------
(***************************************************************************)
(* tools/ping/server: ndnpingserver answers every Interest under its       *)
(* prefix, up to a limit, until SIGINT. The Face takes the filter away     *)
(* some time after unsetInterestFilter(): an Interest that comes before    *)
(* that is still answered.                                                 *)
(***************************************************************************)
EXTENDS Integers

VARIABLES
  nMaxPings,     \* m_options.nMaxPings, 0 without a limit
  served,        \* m_nPings, the Interests answered
  filter,        \* of the prefix: "registering", "set", "removing" or "gone"
  serverInt,     \* m_signalSetInt: "armed", "fired" or "off"
  nServerFinishes,  \* history: how often afterFinish was emitted
  serverResult   \* "running", the exit code "0" or "1", or "terminated" by an exception
                 \* that is not caught

serverVars == <<nMaxPings, served, filter, serverInt, nServerFinishes, serverResult>>

\* nMaxPings as main() leaves it: without -p there is no limit, and a maximum is at least 1
ServerOptions == Nat

ServerInit ==
  /\ nMaxPings \in ServerOptions
  /\ served = 0
  /\ filter = "registering"
  /\ serverInt = "armed"
  /\ nServerFinishes = 0
  /\ serverResult = "running"

\* stop(): unsetInterestFilter() need not withdraw a registration whose result is pending
GiveUpFilter ==
  \/ filter \in {"registering", "gone"} /\ UNCHANGED filter
  \/ filter # "gone" /\ filter' = "removing"

ServerCancel_KeepsInt ==   \* mutant: the wait for SIGINT is not cancelled
  UNCHANGED serverInt /\ GiveUpFilter
\* Runner::cancel()
ServerCancel ==
  /\ serverInt' = IF serverInt = "fired" THEN "fired" ELSE "off"
  /\ GiveUpFilter

Registered ==
  /\ serverResult = "running" /\ filter = "registering"
  /\ filter' = "set"
  /\ UNCHANGED <<nMaxPings, served, serverInt, nServerFinishes, serverResult>>

\* throws a string, and run() catches exceptions only
OnRegisterFailed ==
  /\ serverResult = "running" /\ filter = "registering"
  /\ serverResult' = "terminated"
  /\ UNCHANGED <<nMaxPings, served, filter, serverInt, nServerFinishes>>

OnInterest_AtLeast ==      \* mutant: the limit is compared with <= instead of ==
  /\ serverResult = "running" /\ filter \in {"set", "removing"}
  /\ served' = served + 1
  /\ IF nMaxPings > 0 /\ nMaxPings <= served'
     THEN nServerFinishes' = nServerFinishes + 1 /\ ServerCancel
     ELSE UNCHANGED <<nServerFinishes, filter, serverInt>>
  /\ UNCHANGED <<nMaxPings, serverResult>>
\* answers the Interest; the one that reaches the limit ends the server
OnInterest ==
  /\ serverResult = "running" /\ filter \in {"set", "removing"}
  /\ served' = served + 1
  /\ IF nMaxPings > 0 /\ nMaxPings = served'
     THEN nServerFinishes' = nServerFinishes + 1 /\ ServerCancel
     ELSE UNCHANGED <<nServerFinishes, filter, serverInt>>
  /\ UNCHANGED <<nMaxPings, serverResult>>

ServerSigInt ==
  /\ serverResult = "running" /\ serverInt = "armed"
  /\ serverInt' = "fired"
  /\ UNCHANGED <<nMaxPings, served, filter, nServerFinishes, serverResult>>

ServerAfterIntSignal ==
  /\ serverResult = "running" /\ serverInt = "fired"
  /\ serverInt' = "off"
  /\ GiveUpFilter
  /\ UNCHANGED <<nMaxPings, served, nServerFinishes, serverResult>>

\* the Face has removed the filter
FilterRemoved ==
  /\ serverResult = "running" /\ filter = "removing"
  /\ filter' = "gone"
  /\ UNCHANGED <<nMaxPings, served, serverInt, nServerFinishes, serverResult>>

\* the Face loses its connection: processEvents() throws
ServerFaceFails ==
  /\ serverResult = "running"
  /\ serverResult' = "1"
  /\ UNCHANGED <<nMaxPings, served, filter, serverInt, nServerFinishes>>

ServerReturns ==
  /\ serverResult = "running" /\ filter = "gone" /\ serverInt = "off"
  /\ serverResult' = "0"
  /\ UNCHANGED <<nMaxPings, served, filter, serverInt, nServerFinishes>>
=============================================================================
