----------------------------- MODULE Ping_proof -----------------------------
(***************************************************************************)
(* For every number of pings, limit of the server and order of the events: *)
(* what ndnping and ndnpingserver count agrees with what they did. The     *)
(* inductive invariant has a part about each program and one that relates  *)
(* the client's count of answers to the pings they answered.               *)
(***************************************************************************)
EXTENDS PingSystem, FiniteSetTheorems, TLAPS

\* the client before start(), and its exit code
Phases ==
  /\ result = "started" => nSent = 0 /\ pending = {} /\ ~nextPing
  /\ result \in {"0", "1"} =>
       pending = {} /\ (result = "0" <=> statistics.nReceived = statistics.nSent)

\* no ping is scheduled beyond the last one
Scheduled ==
  /\ nPings > 0 => nSent <= nPings
  /\ nextPing => ~LastSent

ClientInv ==
  /\ ClientTypeOK /\ Phases /\ Scheduled
  /\ OutstandingCounts /\ FinishedOnce /\ StatisticsAccount

ServerInv == ServerTypeOK /\ ServerFinishesOnce

NetInv ==
  /\ requests \subseteq 1 .. nSent /\ replies \subseteq 1 .. nSent
  /\ inTime \subseteq (1 .. nSent) \ pending
  /\ Cardinality(inTime) = statistics.nReceived

IInv == ClientInv /\ ServerInv /\ NetInv

-----------------------------------------------------------------------------
(* A set of pings is finite, and so is counted by a natural number. *)
LEMMA PingsCounted ==
  ASSUME NEW n \in Nat, NEW S \in SUBSET (1 .. n)
  PROVE  /\ IsFiniteSet(S) /\ Cardinality(S) \in Nat
         /\ Cardinality(S) = 0 <=> S = {}
  <1>1. IsFiniteSet(1 .. n) BY FS_Interval
  <1>2. IsFiniteSet(S) BY <1>1, FS_Subset
  <1> QED BY <1>2, FS_CardinalityType, FS_EmptySet

(* The next ping adds one to the set. *)
LEMMA PingAdded ==
  ASSUME NEW n \in Nat, NEW S \in SUBSET (1 .. n)
  PROVE  Cardinality(S \cup {n + 1}) = Cardinality(S) + 1
  <1>1. n + 1 \notin S OBVIOUS
  <1> QED BY <1>1, PingsCounted, FS_AddElement

(* A ping is counted once, in the set or out of it. *)
LEMMA PingRemoved ==
  ASSUME NEW n \in Nat, NEW S \in SUBSET (1 .. n), NEW p \in S
  PROVE  Cardinality(S \ {p}) = Cardinality(S) - 1
  <1> QED BY PingsCounted, FS_RemoveElement

-----------------------------------------------------------------------------
(* Each step of the client keeps its part of the invariant. *)
LEMMA PerformPingKeeps ==
  ASSUME PingAssumption, ClientInv, PerformPing
  PROVE  ClientInv'
  <1> DEFINE c == Cardinality(pending)
  <1> USE DEF ClientTypeOK
  <1>1. ClientTypeOK /\ Phases /\ Scheduled /\ OutstandingCounts /\ FinishedOnce /\ StatisticsAccount
    BY DEF ClientInv
  <1>2. nPings \in Int \ {0} BY <1>1 DEF PingAssumption, ClientOptions
  <1>3. ~LastSent /\ (nPings > 0 => nSent < nPings)
    BY <1>1, <1>2 DEF PerformPing, Phases, Scheduled, LastSent
  <1>4. /\ nSent' = nSent + 1 /\ pending' = pending \cup {nSent + 1}
        /\ nPings' = nPings /\ statistics' = statistics /\ result' = "running"
    BY DEF PerformPing
  <1>5. c \in Nat /\ Cardinality(pending') = c + 1 /\ pending' # {}
    BY <1>1, <1>4, PingAdded, PingsCounted
  <1>6. nOutstanding = c /\ nFinishes = 0
    BY <1>1, <1>3, <1>5 DEF OutstandingCounts, FinishedOnce, LastSent
  <1>7. /\ nOutstanding' = c + 1 - (IF LastSent' THEN 1 ELSE 0)
        /\ nextPing' \in BOOLEAN /\ (nextPing' => ~LastSent')
        /\ UNCHANGED <<nFinishes, intWait, quitWait>>
    <2>1. CASE nPings < 0 \/ nSent' < nPings
      <3>1. ~LastSent' BY <2>1, <1>1, <1>2, <1>4 DEF LastSent
      <3>2. /\ nOutstanding' = nOutstanding + 1 /\ nextPing' = TRUE
            /\ UNCHANGED <<nFinishes, intWait, quitWait>>
        BY <2>1 DEF PerformPing
      <3> QED BY <3>1, <3>2, <1>5, <1>6 DEF LastSent
    <2>2. CASE ~(nPings < 0 \/ nSent' < nPings)
      <3>1. LastSent' BY <2>2, <1>1, <1>2, <1>3, <1>4 DEF LastSent
      <3>2. Finish(nOutstanding + 1, FALSE) BY <2>2 DEF PerformPing
      <3>3. /\ nOutstanding' = nOutstanding + 1 - 1 /\ nextPing' = FALSE
            /\ UNCHANGED <<nFinishes, intWait, quitWait>>
        BY <3>2, <1>5, <1>6 DEF Finish
      <3> QED BY <3>1, <3>3, <1>5, <1>6 DEF LastSent
    <2> QED BY <2>1, <2>2
  <1>8. ClientTypeOK' BY <1>1, <1>2, <1>4, <1>5, <1>7
  <1>9. Phases' BY <1>4 DEF Phases
  <1>10. Scheduled'
    <2>1. nPings' > 0 => nSent' <= nPings' BY <1>1, <1>2, <1>3, <1>4
    <2>2. nextPing' => ~LastSent' BY <1>7
    <2> QED BY <2>1, <2>2 DEF Scheduled
  <1>11. OutstandingCounts' BY <1>5, <1>7 DEF OutstandingCounts
  <1>12. FinishedOnce' BY <1>5, <1>6, <1>7 DEF FinishedOnce
  <1>13. StatisticsAccount' BY <1>1, <1>4, <1>5 DEF StatisticsAccount
  <1> QED BY <1>8, <1>9, <1>10, <1>11, <1>12, <1>13 DEF ClientInv

\* an answer, a Nack or a timeout of one ping
LEMMA AnsweredKeeps ==
  ASSUME ClientInv, NEW p, Answered(p),
         NEW received \in {0, 1}, NEW nacked \in {0, 1}, received + nacked <= 1,
         Record(received, nacked)
  PROVE  ClientInv'
  <1> DEFINE c == Cardinality(pending)
  <1> USE DEF ClientTypeOK
  <1>1. ClientTypeOK /\ Phases /\ Scheduled /\ OutstandingCounts /\ FinishedOnce /\ StatisticsAccount
    BY DEF ClientInv
  <1>2. /\ result = "running" /\ p \in pending /\ pending' = pending \ {p}
        /\ nPings' = nPings /\ nSent' = nSent /\ result' = result
        /\ Finish(nOutstanding, nextPing)
    BY DEF Answered
  <1>3. LastSent' = LastSent BY <1>2 DEF LastSent
  <1>4. c \in Nat \ {0} /\ Cardinality(pending') = c - 1
    BY <1>1, <1>2, PingRemoved, PingsCounted
  <1>5. pending' = {} <=> c = 1
    <2>1. pending' \in SUBSET (1 .. nSent) BY <1>1, <1>2
    <2>2. Cardinality(pending') = 0 <=> pending' = {} BY <2>1, <1>1, PingsCounted
    <2> QED BY <2>2, <1>4
  <1>6. nOutstanding = c - (IF LastSent THEN 1 ELSE 0) /\ nFinishes = 0
    <2>1. pending # {} BY <1>2
    <2> QED BY <2>1, <1>1 DEF OutstandingCounts, FinishedOnce
  <1>7. /\ nOutstanding' = nOutstanding - 1
        /\ nFinishes' = IF LastSent' /\ pending' = {} THEN 1 ELSE 0
        /\ nextPing' \in BOOLEAN /\ (nextPing' => nextPing)
        /\ intWait' \in Waits /\ quitWait' \in Waits
    <2>1. CASE nOutstanding - 1 >= 0
      <3>1. ~(LastSent' /\ pending' = {}) BY <2>1, <1>3, <1>4, <1>5, <1>6 DEF LastSent
      <3>2. nOutstanding' = nOutstanding - 1 /\ UNCHANGED <<nextPing, nFinishes, intWait, quitWait>>
        BY <2>1, <1>2 DEF Finish
      <3> QED BY <3>1, <3>2, <1>1, <1>6, Zenon
    <2>2. CASE ~(nOutstanding - 1 >= 0)
      <3>1. LastSent' /\ pending' = {} BY <2>2, <1>3, <1>4, <1>5, <1>6 DEF LastSent
      <3>2. nOutstanding' = nOutstanding - 1 /\ nFinishes' = nFinishes + 1 /\ Cancel
        BY <2>2, <1>2 DEF Finish
      <3>3. nextPing' = FALSE /\ intWait' \in Waits /\ quitWait' \in Waits
        BY <3>2, <1>1 DEF Cancel, Cancelled, Waits
      <3>4. nFinishes' = 1 BY <3>2, <1>6
      <3> QED BY <3>1, <3>2, <3>3, <3>4, Zenon
    <2> QED BY <2>1, <2>2
  <1>8. /\ statistics' \in [nSent : Nat, nReceived : Nat, nNacked : Nat]
        /\ statistics'.nSent = statistics.nSent + 1
        /\ statistics'.nReceived + statistics'.nNacked
             = statistics.nReceived + statistics.nNacked + received + nacked
    BY <1>1 DEF Record
  <1>9. ClientTypeOK' BY <1>1, <1>2, <1>6, <1>7, <1>8, <1>4
  <1>10. Phases' BY <1>2 DEF Phases
  <1>11. Scheduled'
    <2>1. nPings' > 0 => nSent' <= nPings' BY <1>1, <1>2 DEF Scheduled
    <2>2. nextPing' => ~LastSent' BY <1>1, <1>3, <1>7 DEF Scheduled
    <2> QED BY <2>1, <2>2 DEF Scheduled
  <1>12. OutstandingCounts' BY <1>3, <1>4, <1>6, <1>7 DEF OutstandingCounts
  <1>13. FinishedOnce' BY <1>7 DEF FinishedOnce
  <1>14. StatisticsAccount' BY <1>1, <1>2, <1>4, <1>8 DEF StatisticsAccount
  <1> QED BY <1>9, <1>10, <1>11, <1>12, <1>13, <1>14 DEF ClientInv

(* Signals, the end and a failure of the Face leave the counts alone. *)
LEMMA ClientEventKeeps ==
  ASSUME ClientInv, ClientEvent
  PROVE  ClientInv' /\ UNCHANGED <<nSent, statistics>>
  <1> USE DEF ClientTypeOK
  <1>1. ClientTypeOK /\ Phases /\ Scheduled /\ OutstandingCounts /\ FinishedOnce /\ StatisticsAccount
    BY DEF ClientInv
  <1>2. UNCHANGED <<nPings, nSent, nOutstanding, pending, statistics, nFinishes>>
    BY DEF ClientEvent, SigInt, SigQuit, AfterIntSignal, AfterQuitSignal, FaceFails, Return,
           Counters
  <1>3. intWait' \in Waits /\ quitWait' \in Waits /\ nextPing' \in {nextPing, FALSE}
    BY <1>1 DEF ClientEvent, SigInt, SigQuit, AfterIntSignal, AfterQuitSignal, FaceFails, Return,
                Counters, Cancelled, Waits
  <1>4. /\ result = "running" /\ result' \in {"running", "0", "1", "2"}
        /\ result' \in {"0", "1"} =>
             pending = {} /\ (result' = "0" <=> statistics.nReceived = statistics.nSent)
    BY DEF ClientEvent, SigInt, SigQuit, AfterIntSignal, AfterQuitSignal, FaceFails, Return,
           Counters
  <1>5. ClientTypeOK' BY <1>1, <1>2, <1>3, <1>4
  <1>6. Phases' BY <1>2, <1>4 DEF Phases
  <1>7. Scheduled'
    <2>1. LastSent' = LastSent BY <1>2 DEF LastSent
    <2>2. nextPing' => nextPing BY <1>3, Zenon
    <2> QED BY <2>1, <2>2, <1>1, <1>2 DEF Scheduled
  <1>8. OutstandingCounts' /\ FinishedOnce' /\ StatisticsAccount'
    BY <1>1, <1>2 DEF OutstandingCounts, FinishedOnce, StatisticsAccount, LastSent
  <1> QED BY <1>2, <1>5, <1>6, <1>7, <1>8 DEF ClientInv

(* What the client does not touch. *)
LEMMA ClientUnchanged ==
  ASSUME ClientInv, UNCHANGED pingVars
  PROVE  ClientInv'
  BY DEF ClientInv, pingVars, ClientTypeOK, Phases, Scheduled, OutstandingCounts, FinishedOnce,
         StatisticsAccount, LastSent

-----------------------------------------------------------------------------
(* The limit of the server is met once, for the Interests come one by one. *)
LEMMA OnInterestKeeps ==
  ASSUME PingAssumption, ServerInv, OnInterest
  PROVE  ServerInv' /\ served' = served + 1
  <1>1. nMaxPings \in Nat /\ served \in Nat /\ served' = served + 1 /\ nMaxPings' = nMaxPings
    BY DEF PingAssumption, ServerOptions, ServerInv, ServerTypeOK, OnInterest
  <1>2. nServerFinishes' = IF nMaxPings > 0 /\ served' >= nMaxPings THEN 1 ELSE 0
    BY <1>1 DEF ServerInv, ServerFinishesOnce, OnInterest
  <1>3. ServerTypeOK'
    BY <1>1, <1>2 DEF ServerInv, ServerTypeOK, OnInterest, ServerCancel, GiveUpFilter, Waits
  <1> QED BY <1>1, <1>2, <1>3 DEF ServerInv, ServerFinishesOnce

\* registration, signals and the end of the server
LEMMA ServerEventKeeps ==
  ASSUME ServerInv, ServerEvent
  PROVE  ServerInv' /\ UNCHANGED served
  <1> USE DEF ServerInv, ServerEvent, Registered, OnRegisterFailed, ServerSigInt,
              ServerAfterIntSignal, GiveUpFilter, FilterRemoved, ServerFaceFails, ServerReturns
  <1>1. UNCHANGED <<nMaxPings, served, nServerFinishes>> OBVIOUS
  <1>2. ServerTypeOK' BY <1>1 DEF ServerTypeOK, Waits
  <1> QED BY <1>1, <1>2 DEF ServerFinishesOnce

\* a step of the client or of the network leaves the server alone
LEMMA ServerUnchanged ==
  ASSUME ServerInv, UNCHANGED serverVars
  PROVE  ServerInv'
  BY DEF ServerInv, ServerTypeOK, ServerFinishesOnce, serverVars

-----------------------------------------------------------------------------
\* the invariant holds at the start
LEMMA InitIInv == ASSUME PingAssumption, Init PROVE IInv
  <1>1. nPings \in Int \ {0} /\ nMaxPings \in Nat BY DEF Init, PingAssumption, ClientOptions, ServerOptions
  <1>2. ClientTypeOK
    <2>1. NoStatistics \in [nSent : Nat, nReceived : Nat, nNacked : Nat] BY DEF NoStatistics
    <2>2. nextPing \in BOOLEAN BY DEF Init, PingInit
    <2> QED BY <2>1, <2>2 DEF Init, PingInit, ClientTypeOK, Waits
  <1>3. Phases BY DEF Init, PingInit, Phases
  <1>4. ~LastSent BY <1>1 DEF Init, PingInit, LastSent
  <1>5. Scheduled BY <1>1, <1>4 DEF Init, PingInit, Scheduled
  <1>6. Cardinality({}) = 0 BY FS_EmptySet
  <1>7. OutstandingCounts BY <1>4, <1>6 DEF Init, PingInit, OutstandingCounts
  <1>8. FinishedOnce BY <1>4 DEF Init, PingInit, FinishedOnce
  <1>9. StatisticsAccount BY <1>6 DEF Init, PingInit, StatisticsAccount, NoStatistics
  <1>10. ServerInv BY <1>1 DEF Init, ServerInit, ServerInv, ServerTypeOK, ServerFinishesOnce, Waits
  <1>11. NetInv BY <1>6 DEF Init, PingInit, ServerInit, NetInv, NoStatistics
  <1> QED BY <1>2, <1>3, <1>5, <1>7, <1>8, <1>9, <1>10, <1>11 DEF ClientInv, IInv

(* Data that is received is counted once and its ping is pending no more, so
   that a second Data of it finds no Interest. *)
LEMMA NetKeeps ==
  ASSUME IInv, Next, nSent' \in Nat, nSent' >= nSent
  PROVE  NetInv'
  <1>1. /\ nSent \in Nat /\ pending \subseteq 1 .. nSent
        /\ requests \subseteq 1 .. nSent /\ replies \subseteq 1 .. nSent
        /\ statistics \in [nSent : Nat, nReceived : Nat, nNacked : Nat]
        /\ inTime \in SUBSET (1 .. nSent) /\ inTime \cap pending = {}
        /\ Cardinality(inTime) = statistics.nReceived
    BY DEF IInv, ClientInv, NetInv, ClientTypeOK
  <1>2. ASSUME UNCHANGED inTime, statistics'.nReceived = statistics.nReceived,
               requests' \subseteq 1 .. nSent', replies' \subseteq 1 .. nSent',
               pending' \cap (1 .. nSent) \subseteq pending
        PROVE  NetInv'
    BY <1>1, <1>2 DEF NetInv
  <1>3. CASE SendPing
    <2>1. /\ nSent' = nSent + 1 /\ pending' = pending \cup {nSent + 1}
          /\ requests' = requests \cup {nSent + 1} /\ UNCHANGED <<replies, inTime, statistics>>
      BY <1>3 DEF SendPing, PerformPing
    <2>2. pending' \cap (1 .. nSent) \subseteq pending BY <1>1, <2>1
    <2>3. requests' \subseteq 1 .. nSent' /\ replies' \subseteq 1 .. nSent' BY <1>1, <2>1
    <2> QED BY <1>2, <2>1, <2>2, <2>3
  <1>4. ASSUME NEW p \in 1 .. nSent, ReceiveData(p) PROVE NetInv'
    <2>1. /\ p \in pending /\ pending' = pending \ {p}
          /\ inTime' = inTime \cup {p} /\ replies' \subseteq replies
          /\ UNCHANGED <<nSent, requests>>
      BY <1>4 DEF ReceiveData, OnData, Answered
    <2>2. statistics'.nReceived = statistics.nReceived + 1
      BY <1>4 DEF ReceiveData, OnData, Record
    <2>3. IsFiniteSet(inTime) /\ p \notin inTime BY <1>1, <2>1, PingsCounted
    <2>4. Cardinality(inTime') = Cardinality(inTime) + 1 BY <2>1, <2>3, FS_AddElement
    <2> QED BY <1>1, <2>1, <2>2, <2>4 DEF NetInv
  <1>5. ASSUME NEW p \in 1 .. nSent, ReceiveNack(p) \/ TimesOut(p) PROVE NetInv'
    <2>1. /\ requests' \subseteq requests /\ pending' \subseteq pending
          /\ UNCHANGED <<nSent, replies, inTime>>
      BY <1>5 DEF ReceiveNack, OnNack, TimesOut, OnTimeout, Answered
    <2>2. statistics'.nReceived = statistics.nReceived
      BY <1>1, <1>5 DEF ReceiveNack, OnNack, TimesOut, OnTimeout, Record
    <2> QED BY <1>1, <1>2, <2>1, <2>2
  <1>6. ASSUME NEW p \in 1 .. nSent, Serve(p) \/ CacheAnswers(p) \/ Lose(p) PROVE NetInv'
    <2>1. /\ UNCHANGED <<nSent, pending, statistics, inTime>>
          /\ requests' \subseteq requests /\ replies' \subseteq replies \cup {p}
      BY <1>6 DEF Serve, CacheAnswers, Lose, pingVars
    <2> QED BY <1>1, <1>2, <2>1
  <1>7. CASE ServeOther \/ ServerEvent
    <2>1. UNCHANGED <<nSent, pending, statistics, requests, replies, inTime>>
      BY <1>7 DEF ServeOther, ServerEvent, pingVars
    <2> QED BY <1>1, <1>2, <2>1
  <1>8. CASE ClientEvent
    <2>1. UNCHANGED <<nSent, statistics>> BY <1>8, ClientEventKeeps DEF IInv
    <2>2. UNCHANGED <<pending, requests, replies, inTime>>
      BY <1>8 DEF ClientEvent, SigInt, SigQuit, AfterIntSignal, AfterQuitSignal, FaceFails,
                  Return, Counters
    <2> QED BY <1>1, <1>2, <2>1, <2>2
  <1> QED BY <1>3, <1>4, <1>5, <1>6, <1>7, <1>8 DEF Next

(* Every step keeps the invariant. *)
LEMMA NextIInv == ASSUME PingAssumption, IInv, Next PROVE IInv'
  <1> USE DEF IInv
  <1>1. ClientInv' /\ nSent' >= nSent
    <2>0. nSent \in Nat BY DEF ClientInv, ClientTypeOK
    <2>1. CASE SendPing
      <3>1. PerformPing BY <2>1 DEF SendPing
      <3>2. nSent' = nSent + 1 BY <3>1 DEF PerformPing
      <3>3. ClientInv' BY <3>1, PerformPingKeeps
      <3> QED BY <2>0, <3>2, <3>3
    <2>2. ASSUME NEW p \in 1 .. nSent, ReceiveData(p) \/ ReceiveNack(p) \/ TimesOut(p)
          PROVE  ClientInv' /\ nSent' >= nSent
      <3>1. Answered(p) /\ (Record(1, 0) \/ Record(0, 1) \/ Record(0, 0))
        BY <2>2 DEF ReceiveData, ReceiveNack, TimesOut, OnData, OnNack, OnTimeout
      <3>2. nSent' = nSent BY <3>1 DEF Answered
      <3>3. ASSUME NEW r \in {0, 1}, NEW n \in {0, 1}, r + n <= 1, Record(r, n) PROVE ClientInv'
        BY <3>1, <3>3, AnsweredKeeps
      <3> QED BY <2>0, <3>1, <3>2, <3>3
    <2>3. CASE ClientEvent BY <2>0, <2>3, ClientEventKeeps
    <2>4. ASSUME UNCHANGED pingVars PROVE ClientInv' /\ nSent' >= nSent
      BY <2>0, <2>4, ClientUnchanged DEF pingVars
    <2>5. \/ SendPing \/ ClientEvent \/ UNCHANGED pingVars
          \/ \E p \in 1 .. nSent : ReceiveData(p) \/ ReceiveNack(p) \/ TimesOut(p)
      BY DEF Next, Serve, CacheAnswers, ServeOther, Lose, ServerEvent
    <2> QED BY <2>1, <2>2, <2>3, <2>4, <2>5
  <1>2. ServerInv'
    <2>1. CASE OnInterest BY <2>1, OnInterestKeeps
    <2>2. CASE ServerEvent BY <2>2, ServerEventKeeps
    <2>3. CASE UNCHANGED serverVars BY <2>3, ServerUnchanged
    <2> QED BY <2>1, <2>2, <2>3
         DEF Next, SendPing, Serve, CacheAnswers, ServeOther, ReceiveData, ReceiveNack, TimesOut, Lose,
             ClientEvent
  <1>3. NetInv'
    BY <1>1, NetKeeps DEF ClientInv, ClientTypeOK
  <1> QED BY <1>1, <1>2, <1>3

\* a step that changes nothing keeps the invariant
LEMMA StutterIInv == ASSUME IInv, UNCHANGED vars PROVE IInv'
  <1>1. UNCHANGED pingVars /\ UNCHANGED serverVars /\ UNCHANGED <<requests, replies, inTime>>
    BY DEF vars
  <1>2. ClientInv' /\ ServerInv' BY <1>1, ClientUnchanged, ServerUnchanged DEF IInv
  <1>3. NetInv' BY <1>1 DEF IInv, NetInv, pingVars, serverVars
  <1> QED BY <1>2, <1>3 DEF IInv

(* The counts of both programs agree with what they did in every behaviour. *)
THEOREM Counted == Spec => []IInv
  <1>1. Init => IInv BY PingAssumption, InitIInv
  <1>2. IInv /\ [Next]_vars => IInv' BY PingAssumption, NextIInv, StutterIInv
  <1> QED BY <1>1, <1>2, PTL DEF Spec

(* Every variable of the client and the server has its type. *)
THEOREM TypeCorrect == Spec => []TypeOK
  <1>1. IInv => TypeOK BY DEF IInv, ClientInv, ServerInv, NetInv, TypeOK
  <1> QED BY <1>1, Counted, PTL

(* m_nOutstanding follows the pending pings whatever the order of the answers. *)
THEOREM Outstanding == Spec => []OutstandingCounts
  <1>1. IInv => OutstandingCounts BY DEF IInv, ClientInv
  <1> QED BY <1>1, Counted, PTL

(* ndnping emits afterFinish when its last answer is in, and only then. *)
THEOREM Finished == Spec => []FinishedOnce
  <1>1. IInv => FinishedOnce BY DEF IInv, ClientInv
  <1> QED BY <1>1, Counted, PTL

(* Every ping is pending or counted once by the StatisticsCollector. *)
THEOREM Accounted == Spec => []StatisticsAccount
  <1>1. IInv => StatisticsAccount BY DEF IInv, ClientInv
  <1> QED BY <1>1, Counted, PTL

(* ndnping returns 0 exactly when Data came in time for each of its pings,
   however late, lost or repeated the other answers were. *)
THEOREM ExitCode == Spec => []ExitCodeTruthful
  <1>1. ASSUME IInv, result \in {"0", "1"} PROVE result = "0" <=> inTime = 1 .. nSent
    <2>1. /\ nSent \in Nat /\ pending = {}
          /\ statistics \in [nSent : Nat, nReceived : Nat, nNacked : Nat]
          /\ result = "0" <=> statistics.nReceived = statistics.nSent
          /\ statistics.nSent + Cardinality(pending) = nSent
      BY <1>1 DEF IInv, ClientInv, ClientTypeOK, Phases, StatisticsAccount
    <2>2. Cardinality(pending) = 0 BY <2>1, FS_EmptySet
    <2>3. inTime \subseteq 1 .. nSent /\ Cardinality(inTime) = statistics.nReceived
      BY <1>1 DEF IInv, NetInv
    <2>4. IsFiniteSet(1 .. nSent) /\ Cardinality(1 .. nSent) = nSent
      BY <2>1, FS_Interval
    <2>5. Cardinality(inTime) = nSent <=> inTime = 1 .. nSent
      BY <2>3, <2>4, FS_Subset
    <2> QED BY <2>1, <2>2, <2>3, <2>5
  <1>2. IInv => ExitCodeTruthful BY <1>1 DEF ExitCodeTruthful
  <1> QED BY <1>2, Counted, PTL

(* The server emits afterFinish with the Interest that reaches its limit, and
   never again, although more Interests may come. *)
THEOREM ServerFinished == Spec => []ServerFinishesOnce
  <1>1. IInv => ServerFinishesOnce BY DEF IInv, ServerInv
  <1> QED BY <1>1, Counted, PTL
=============================================================================
