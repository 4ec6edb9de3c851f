------------------------ MODULE CongestionPipelines ------------------------
(***************************************************************************)
(* The Cubic and the TcpBic pipeline, of which ndncatchunks runs the one   *)
(* its option pipeline-type names.                                         *)
(***************************************************************************)
EXTENDS PipelineState, Integers, FiniteSets

CONSTANTS
  CubicMaxCwnd, BicMaxCwnd,    \* bounds of the two windows
  CubicInitCwnds, BicInitCwnds,
  InitSsthresh, LOW_WINDOW, Garbage

ASSUME CongestionAssumption ==
  /\ CubicMaxCwnd \in Nat /\ 2 <= CubicMaxCwnd /\ CubicInitCwnds \subseteq 1 .. CubicMaxCwnd
  /\ BicMaxCwnd \in Nat /\ 2 <= BicMaxCwnd /\ BicInitCwnds \subseteq 1 .. BicMaxCwnd
  /\ InitSsthresh \in Nat
  /\ LOW_WINDOW \in Nat /\ 3 <= LOW_WINDOW   \* 14 in the code
  /\ Garbage \subseteq 0 .. BicMaxCwnd

VARIABLES pipelineType,   \* "cubic" or "tcpbic"
          network         \* "lossy": Interests and Data get lost, and nothing else goes wrong;
                          \* "faulty": the network also answers with Nacks, or so late that
                          \* the lifetime of the Interest has expired

C == INSTANCE PipelineInterestsCubic WITH MaxCwnd <- CubicMaxCwnd, InitCwnds <- CubicInitCwnds
B == INSTANCE PipelineInterestsTcpBic WITH MaxCwnd <- BicMaxCwnd, InitCwnds <- BicInitCwnds

Segs == 0 .. MaxSegmentNo
Segments == 0 .. content.last

vars == <<C!Aimd!vars, pipelineType, network>>

Init ==
  /\ network \in {"lossy", "faulty"}
  /\ \/ pipelineType = "cubic" /\ C!Init
     \/ pipelineType = "tcpbic" /\ B!Init

Cubic  == pipelineType = "cubic" /\ UNCHANGED <<pipelineType, network>>
TcpBic == pipelineType = "tcpbic" /\ UNCHANGED <<pipelineType, network>>

Run == \/ Cubic /\ C!Run
       \/ TcpBic /\ B!Run

\* an iteration of the loop of schedulePackets()
SendPacket == \/ Cubic /\ (C!SendNext \/ C!SkipRetx \/ C!Retransmit)
              \/ TcpBic /\ (B!SendNext \/ B!SkipRetx \/ B!Retransmit)

CheckRto(s) == \/ Cubic /\ C!CheckRto(s)
               \/ TcpBic /\ B!CheckRto(s)

Answered(s) ==
  \/ Cubic /\ \/ C!HandleData(s)
              \/ network = "faulty" /\ (C!HandleNack(s) \/ C!HandleLifetimeExpiration(s))
  \/ TcpBic /\ \/ B!HandleData(s)
               \/ network = "faulty" /\ (B!HandleNack(s) \/ B!HandleLifetimeExpiration(s))

CallOnFailure == \/ Cubic /\ C!CallOnFailure
                 \/ TcpBic /\ B!CallOnFailure

Next == Run \/ SendPacket \/ CallOnFailure \/ \E s \in Segs : CheckRto(s) \/ Answered(s)

\* as for the Aimd pipeline
Fairness ==
  /\ WF_vars(Run) /\ WF_vars(SendPacket) /\ WF_vars(CallOnFailure)
  /\ \A s \in Segs : WF_vars(CheckRto(s)) /\ WF_vars(Answered(s))

Spec == Init /\ [][Next]_vars /\ Fairness

-----------------------------------------------------------------------------
(* With conservative window adaptation the window never closes: it is not
   reduced a second time before it has grown. A pipeline whose window is below
   one segment sends nothing any more. For TcpBic, as long as the members that
   are never initialised have had no say. *)
WindowStaysOpen ==
  ~DisableCwa /\ (pipelineType = "tcpbic" => ~window.resetToInitial /\ ~window.betaUsed)
    => window.cwnd >= 1

\* on a network that only loses packets, no segment is queued twice
Faithful == pipelineType = "cubic" /\ network = "lossy"

(* On such a network the Cubic pipeline counts every segment once, however often
   it was sent - what the lookup in handleData() adds to the Aimd pipeline - so
   that "all segments have been received", the comment in handleData(), is true
   when it stops without a failure. *)
ReceivedOnce == Faithful => nReceived = Cardinality(delivered)

(* The Cubic pipeline ends when the end of the content is known from version
   discovery on: neither a closed window nor a lost segment makes it wait for
   ever. *)
Termination ==
  pipelineType = "cubic" /\ content.excluded \in content.final
    => <>(isStopping /\ failure # "posted")
============================================================================
