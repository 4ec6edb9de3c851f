------------------------------ MODULE Producer ------------------------------
(***************************************************************************)
(* tools/chunks/putchunks: ndnputchunks reads its input, publishes it in   *)
(* segments under one version, and answers Interests until it is stopped.  *)
(* There is one producer for each version; a version that was not given in *)
(* the name is the time at which the program started.                      *)
(***************************************************************************)
EXTENDS VersionedNames, Sequences

CONSTANTS Inputs,           \* what a producer may read, sequences of bytes
          MaxSegmentSize    \* m_maxSegmentSize

\* that the size is not zero is checked by main()
ASSUME ProducerAssumption ==
  /\ MaxSegmentSize \in Nat \ {0}
  /\ \A i \in Inputs : i \in Seq({i[k] : k \in DOMAIN i})

VARIABLE producers   \* by version: what was read, m_store, and what the process is doing

NoProducer == [status |-> "absent", input |-> << >>, store |-> << >>]

ProducerInit == producers = [v \in Versions |-> NoProducer]

-----------------------------------------------------------------------------
\* read(): the i-th block of the input, shorter than the others at the end
Block(input, i) ==
  LET first == (i - 1) * MaxSegmentSize + 1
      last  == IF i * MaxSegmentSize > Len(input) THEN Len(input) ELSE i * MaxSegmentSize
  IN  SubSeq(input, first, last)

\* populateStore(): an empty input has one empty segment
PopulateStore_Whole(input) ==      \* mutant: a last block that is not full is dropped
  [i \in 1 .. Len(input) \div MaxSegmentSize |-> Block(input, i)]
PopulateStore(input) ==
  IF input = << >>
  THEN << << >> >>
  ELSE [i \in 1 .. (Len(input) + MaxSegmentSize - 1) \div MaxSegmentSize |-> Block(input, i)]

\* the FinalBlockId in every segment
FinalBlock(store) == Len(store) - 1

\* the constructor: the store is ready before the prefix is being registered
StartProducer(v, input) ==
  /\ producers[v].status = "absent"
  /\ producers' = [producers EXCEPT ![v] =
       [status |-> "registering", input |-> input, store |-> PopulateStore(input)]]

ToStatus(v, from, to) ==
  /\ producers[v].status = from
  /\ producers' = [producers EXCEPT ![v].status = to]

RegisterSucceeds(v) == ToStatus(v, "registering", "serving")

\* onRegisterFailed() shuts the Face down, which ends run()
OnRegisterFailed(v) == ToStatus(v, "registering", "failed")

\* the process is killed
Stop(v) == ToStatus(v, "serving", "stopped")

\* onInterest(): the segment that answers an Interest for segment s of version v;
\* an Interest that names no segment is answered with the first one
OnInterest(v, s) ==
  IF producers[v].status = "serving" /\ s < Len(producers[v].store) THEN {s} ELSE {}
=============================================================================
