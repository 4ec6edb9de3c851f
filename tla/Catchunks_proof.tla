-------------------------- MODULE Catchunks_proof --------------------------
(***************************************************************************)
(* Theorems about Catchunks, for every set of versions and of inputs, any  *)
(* segment size, any Data of other applications and any retry budgets. The *)
(* argument has four parts: what populateStore() cuts apart concatenates   *)
(* to what was read; an invariant links producers, discovery and consumer; *)
(* each step of the program is a step of the consumer, or main() ends the  *)
(* program; so the invariants of Consumer_proof hold of the program too.   *)
(***************************************************************************)
EXTENDS Catchunks, Consumer_proof

\* the number of blocks of size M that L bytes need
LEMMA BlockCount ==
  ASSUME NEW L \in Nat, L # 0, NEW M \in Nat, M # 0, NEW N, N = (L + M - 1) \div M
  PROVE  N \in Nat /\ N >= 1 /\ N * M >= L /\ (N - 1) * M < L
  OBVIOUS

\* K blocks of size M that hold L bytes are not too few
LEMMA BlockBound ==
  ASSUME NEW L \in Nat, L # 0, NEW M \in Nat, M # 0, NEW K \in Nat, L <= K * M
  PROVE  (L + M - 1) \div M <= K
  OBVIOUS

\* where the n-th block ends
EndOf(n, L) == IF n * MaxSegmentSize > L THEN L ELSE n * MaxSegmentSize

\* two adjacent parts of a sequence make up one
LEMMA SubSeqJoin ==
  ASSUME NEW B, NEW s \in Seq(B), NEW e \in Nat, NEW f \in Nat, e <= f, f <= Len(s)
  PROVE  SubSeq(s, 1, e) \o SubSeq(s, e + 1, f) = SubSeq(s, 1, f)
<1> DEFINE p == SubSeq(s, 1, e)
           b == SubSeq(s, e + 1, f)
           w == SubSeq(s, 1, f)
<1>1. Len(s) \in Nat /\ \A i \in 1 .. Len(s) : s[i] \in B
  BY LenProperties
<1>2. p \in Seq(B) /\ Len(p) = e /\ \A i \in 1 .. e : p[i] = s[i]
  BY <1>1, SubSeqProperties
<1>3. b \in Seq(B) /\ Len(b) = f - e /\ \A i \in 1 .. f - e : b[i] = s[e + i]
  BY <1>1, SubSeqProperties
<1>4. w \in Seq(B) /\ Len(w) = f /\ \A i \in 1 .. f : w[i] = s[i]
  BY <1>1, SubSeqProperties
<1> HIDE DEF p, b, w
<1>5. /\ p \o b \in Seq(B)
      /\ Len(p \o b) = Len(p) + Len(b)
      /\ \A i \in 1 .. Len(p) + Len(b) : (p \o b)[i] = IF i <= Len(p) THEN p[i] ELSE b[i - Len(p)]
  BY <1>2, <1>3, ConcatProperties
<1>6. Len(p \o b) = f
  BY <1>2, <1>3, <1>5
<1>7. ASSUME NEW i \in 1 .. f PROVE (p \o b)[i] = w[i]
  <2>1. i \in 1 .. Len(p) + Len(b)
    BY <1>2, <1>3
  <2>2. (p \o b)[i] = IF i <= e THEN p[i] ELSE b[i - e]
    BY <1>2, <1>5, <2>1
  <2>3. CASE i <= e
    BY <1>2, <1>4, <2>2, <2>3
  <2>4. CASE ~(i <= e)
    <3>1. PICK j \in 1 .. f - e : j = i - e /\ e + j = i
      BY <2>4, i - e \in 1 .. f - e
    <3> QED
      BY <1>3, <1>4, <2>2, <2>4, <3>1
  <2> QED
    BY <2>3, <2>4
<1>8. p \o b = w
  BY <1>4, <1>5, <1>6, <1>7, SeqEqual
<1> QED
  BY <1>8 DEF p, b, w

\* the first n blocks are the first bytes of the input, up to where the n-th ends
LEMMA BlocksJoin ==
  ASSUME NEW B, NEW s \in Seq(B), NEW n \in Nat, NEW k, k = n + 1,
         n * MaxSegmentSize < Len(s)
  PROVE  SubSeq(s, 1, EndOf(n, Len(s))) \o Block(s, k) = SubSeq(s, 1, EndOf(k, Len(s)))
<1> DEFINE L == Len(s)
           M == MaxSegmentSize
           e == n * M
           f == EndOf(k, L)
<1>1. M \in Nat /\ M # 0 /\ L \in Nat
  BY ProducerAssumption, LenProperties
<1>2. e \in Nat /\ e < L /\ k * M = e + M /\ EndOf(n, L) = e /\ (k - 1) * M = e
  BY <1>1 DEF EndOf
<1>3. f \in Nat /\ e <= f /\ f <= L
  BY <1>1, <1>2 DEF EndOf
<1>4. Block(s, k) = SubSeq(s, e + 1, f)
  <2>1. Block(s, k) = SubSeq(s, (k - 1) * M + 1, f)
    BY DEF Block, EndOf
  <2>2. (k - 1) * M = e
    BY <1>2
  <2> HIDE DEF f, e
  <2> QED
    BY <2>1, <2>2, Zenon
<1> HIDE DEF e, f, L
<1>5. SubSeq(s, 1, e) \o SubSeq(s, e + 1, f) = SubSeq(s, 1, f)
  BY <1>2, <1>3, SubSeqJoin DEF L
<1> QED
  BY <1>2, <1>4, <1>5, Zenon DEF L, f

\* what populateStore() cut apart Concat puts together again
LEMMA StoreRoundTrip ==
  ASSUME NEW s \in Inputs
  PROVE  /\ Concat(PopulateStore(s)) = s
         /\ Len(PopulateStore(s)) \in 1 .. MaxLastSegment + 1
         /\ PopulateStore(s) = [i \in 1 .. Len(PopulateStore(s)) |-> PopulateStore(s)[i]]
<1> DEFINE L == Len(s)
           M == MaxSegmentSize
           B == {s[k] : k \in DOMAIN s}
           t == PopulateStore(s)
           rec(g) == g = [n \in 0 .. Len(t) |-> IF n = 0 THEN << >> ELSE g[n - 1] \o t[n]]
<1>1. s \in Seq(B) /\ M \in Nat /\ M # 0 /\ L \in Nat
  <2>1. s \in Seq(B)
    BY ProducerAssumption
  <2> HIDE DEF B
  <2> QED
    BY <2>1, ProducerAssumption, LenProperties
<1>2. ASSUME NEW N \in Nat, Len(t) = N,
             NEW w, DOMAIN w = 0 .. N, w = [n \in 0 .. N |-> w[n]], w[0] = << >>,
             \A n \in 0 .. N - 1 : w[n + 1] = w[n] \o t[n + 1]
      PROVE  Concat(t) = w[N]
  <2> HIDE DEF t
  <2>1. rec(w)
    <3>1. ASSUME NEW n \in 0 .. N PROVE w[n] = IF n = 0 THEN << >> ELSE w[n - 1] \o t[n]
      <4>1. CASE n = 0
        BY <1>2, <4>1
      <4>2. CASE n # 0
        <5>1. PICK m \in 0 .. N - 1 : m = n - 1 /\ m + 1 = n
          BY <4>2, n - 1 \in 0 .. N - 1
        <5> QED
          BY <1>2, <4>2, <5>1
      <4> QED
        BY <4>1, <4>2
    <3> QED
      BY <1>2, <3>1
  <2>2. PICK g : rec(g) /\ Concat(t) = g[Len(t)]
    <3>1. rec(CHOOSE g : rec(g))
      BY <2>1
    <3>2. Concat(t) = (CHOOSE g : rec(g))[Len(t)]
      BY DEF Concat
    <3> QED
      BY <3>1, <3>2
  <2>3. \A n \in Nat : n <= N => g[n] = w[n]
    <3> DEFINE S == {n \in Nat : n <= N => g[n] = w[n]}
    <3>1. \A n \in 0 .. N : g[n] = IF n = 0 THEN << >> ELSE g[n - 1] \o t[n]
      BY <1>2, <2>2
    <3> HIDE DEF rec
    <3>2. 0 \in S
      BY <1>2, <3>1
    <3>3. ASSUME NEW n \in Nat, n \in S PROVE n + 1 \in S
      <4> SUFFICES ASSUME n + 1 <= N PROVE g[n + 1] = w[n + 1]
        OBVIOUS
      <4>1. g[n] = w[n] /\ n \in 0 .. N - 1
        BY <3>3
      <4>2. PICK k \in 0 .. N : k = n + 1 /\ k # 0 /\ k - 1 = n
        BY <4>1, n + 1 \in 0 .. N
      <4>3. g[k] = g[n] \o t[k]
        BY <3>1, <4>2
      <4> QED
        BY <1>2, <4>1, <4>2, <4>3
    <3> HIDE DEF S
    <3>4. Nat \subseteq S
      BY <3>2, <3>3, NatSetInduction
    <3> QED
      BY <3>4 DEF S
  <2> HIDE DEF rec
  <2> QED
    BY <1>2, <2>2, <2>3
<1>3. CASE s = << >>
  <2>1. t = << << >> >> /\ Len(t) = 1 /\ t[1] = << >>
    BY <1>3 DEF PopulateStore
  <2> DEFINE w == [n \in 0 .. 1 |-> << >>]
  <2>2. << >> \o << >> = << >>
    BY EmptySeq, ConcatEmptySeq
  <2>3. \A n \in 0 .. 1 - 1 : w[n + 1] = w[n] \o t[n + 1]
    BY <2>1, <2>2
  <2>4. Concat(t) = w[1]
    <3>1. w[0] = << >> /\ DOMAIN w = 0 .. 1 /\ w = [n \in 0 .. 1 |-> w[n]]
      OBVIOUS
    <3> HIDE DEF t, w
    <3> QED
      BY <1>2, <2>1, <2>3, <3>1
  <2>5. t = [i \in 1 .. 1 |-> t[i]]
    BY <2>1
  <2>6. w[1] = << >> /\ 1 \in 1 .. MaxLastSegment + 1
    BY ConsumerAssumption
  <2> HIDE DEF w, t
  <2> QED
    BY <1>3, <2>1, <2>4, <2>6, <2>5 DEF t
<1>4. CASE s # << >>
  <2> DEFINE N == (L + M - 1) \div M
             w == [n \in 0 .. N |-> SubSeq(s, 1, EndOf(n, L))]
  <2>1. t = [i \in 1 .. N |-> Block(s, i)]
    BY <1>4 DEF PopulateStore
  <2>2. L # 0
    BY <1>1, <1>4, EmptySeq
  <2>3. N \in Nat /\ N >= 1 /\ N * M >= L /\ (N - 1) * M < L
    BY <1>1, <2>2, BlockCount
  <2>4. Len(t) = N
    <3>1. t \in [1 .. N -> {Block(s, i) : i \in 1 .. N}]
      BY <2>1
    <3> HIDE DEF t, N
    <3> QED
      BY <2>3, <3>1, SequenceOfLength
  <2>5. N <= MaxLastSegment + 1
    <3>1. MaxLastSegment + 1 \in Nat /\ L <= (MaxLastSegment + 1) * M
      BY InputsFit, ConsumerAssumption
    <3> HIDE DEF L, M
    <3> QED
      BY <1>1, <2>2, <3>1, BlockBound
  <2>6. ASSUME NEW n \in 0 .. N - 1 PROVE n \in Nat /\ n * M < L
    <3> HIDE DEF N
    <3>1. n \in Nat /\ n <= N - 1 /\ N - 1 \in Nat
      BY <2>3
    <3>2. n * M <= (N - 1) * M
      BY <1>1, <3>1
    <3> QED
      BY <1>1, <2>3, <3>1, <3>2
  <2>7. /\ \A n \in 0 .. N : w[n] = SubSeq(s, 1, EndOf(n, L))
        /\ 0 \in 0 .. N /\ N \in 0 .. N
    <3>1. N \in Nat
      BY <2>3
    <3> HIDE DEF N, L
    <3>2. \A n \in 0 .. N : w[n] = SubSeq(s, 1, EndOf(n, L))
      BY Zenon
    <3> HIDE DEF w
    <3> QED
      BY <3>1, <3>2
  <2>8. w[0] = << >>
    <3>1. EndOf(0, L) = 0
      BY <1>1 DEF EndOf
    <3>2. SubSeq(s, 1, 0) = << >>
      BY SubSeqEmpty
    <3>3. w[0] = SubSeq(s, 1, EndOf(0, L))
      <4> HIDE DEF N, L, w
      <4> QED
        BY <2>7
    <3> HIDE DEF N, L, w
    <3> QED
      BY <3>1, <3>2, <3>3, Zenon
  <2>9. \A n \in 0 .. N - 1 : w[n + 1] = w[n] \o t[n + 1]
    <3> SUFFICES ASSUME NEW n \in 0 .. N - 1 PROVE w[n + 1] = w[n] \o t[n + 1]
      OBVIOUS
    <3> HIDE DEF N
    <3>1. PICK k \in 1 .. N : k = n + 1
      BY <2>3, n + 1 \in 1 .. N
    <3>2. t[k] = Block(s, k)
      BY <2>1
    <3>3. w[n] = SubSeq(s, 1, EndOf(n, L)) /\ w[k] = SubSeq(s, 1, EndOf(k, L))
      <4>1. n \in 0 .. N /\ k \in 0 .. N
        BY <2>3, <3>1
      <4> HIDE DEF w, L
      <4> QED
        BY <2>7, <4>1
    <3> HIDE DEF w, t, B
    <3>4. SubSeq(s, 1, EndOf(n, L)) \o Block(s, k) = SubSeq(s, 1, EndOf(k, L))
      BY <1>1, <2>6, <3>1, BlocksJoin
    <3> QED
      BY <3>1, <3>2, <3>3, <3>4
  <2>10. w[N] = s
    <3>1. EndOf(N, L) = L
      BY <1>1, <2>3 DEF EndOf
    <3>2. w[N] = SubSeq(s, 1, EndOf(N, L))
      <4> HIDE DEF N, L, w
      <4> QED
        BY <2>7
    <3>3. SubSeq(s, 1, L) = s
      BY <1>1, SubSeqFull
    <3> HIDE DEF L, N, w
    <3> QED
      BY <3>1, <3>2, <3>3, Zenon
  <2>11. t = [i \in 1 .. N |-> t[i]]
    BY <2>1, Zenon
  <2>12. DOMAIN w = 0 .. N /\ w = [n \in 0 .. N |-> w[n]]
    OBVIOUS
  <2> HIDE DEF N, w, t
  <2>13. Concat(t) = w[N]
    BY <1>2, <2>3, <2>4, <2>8, <2>9, <2>12
  <2> QED
    BY <2>3, <2>4, <2>5, <2>10, <2>13, <2>11, ConsumerAssumption DEF t
<1> QED
  BY <1>3, <1>4

-----------------------------------------------------------------------------
\* a fetcher is a record with a phase
HasPhase(f) == "phase" \in DOMAIN f

\* what producer v has read can be, or could once be, had from it
Published(v) == producers[v].status \in {"serving", "stopped"}

\* d is a segment that some producer has published
IsPublished(d) == /\ d.comp \in Versions /\ Published(d.comp)
                  /\ d.seg \in 0 .. FinalBlock(producers[d.comp].store)

(* The inductive invariant, in three parts. The producers hold what they read: *)
Stores ==
  producers \in [Versions -> [status : {"absent", "registering", "serving", "failed", "stopped"},
                              input : Inputs \cup {<< >>},
                              store : {PopulateStore(i) : i \in Inputs} \cup {<< >>}]]
ReadStored ==
  \A v \in Versions : producers[v].status # "absent" =>
    producers[v].input \in Inputs /\ producers[v].store = PopulateStore(producers[v].input)

(* the discovery asks for newer versions than the one it found, a segment that it
   found was published, and it has nothing to wait for once it has notified: *)
Chosen == /\ type \in {"none", "fixed", "iterative"}
          /\ type = "none" => signal = "none" /\ fetcher.phase = "none"
          /\ type = "fixed" => wanted \in Versions
          /\ foundVersion \in BOOLEAN
          /\ HasPhase(fetcher)
          /\ foundVersion => type = "iterative"
Newest == /\ answered \subseteq Versions
          /\ ~foundVersion => answered = {}
          /\ foundVersion => found.comp \in Versions
          /\ foundVersion /\ strayExcludes = {} => excluded = Before(found.comp)
FoundPublished ==
  (foundVersion \/ signal = "success") /\ IsSegment(found.seg) => IsPublished(found)
DiscoveryInv == Chosen /\ Newest /\ LargestReported /\ NotifiedOnce /\ FoundPublished

(* the consumer retrieves what the discovery has found. *)
Retrieves ==
  /\ signal = "none" => outcome = "idle"
  /\ outcome # "idle" =>
       IsPublished(found) /\ content.last = FinalBlock(producers[found.comp].store)
  /\ result = "success" => outcome # "idle"

SystemInv == Stores /\ ReadStored /\ DiscoveryInv /\ Retrieves

-----------------------------------------------------------------------------
\* the operations of DataFetcher that the discovery uses keep a record a record
LEMMA PhasesStay ==
  /\ HasPhase(Searching!NoFetcher)
  /\ \A s : HasPhase(Searching!Fetch(s))
  /\ \A f : HasPhase(f) =>
       /\ HasPhase(Searching!HandleData(f))
       /\ HasPhase(Searching!ExpressInterest(f))
       /\ \A r : HasPhase(Searching!HandleNack(f, r))
       /\ HasPhase(Searching!HandleTimeout(f))
       /\ HasPhase(Confirming!HandleTimeout(f))
<1>1. /\ HasPhase(Searching!NoFetcher)
      /\ \A s : HasPhase(Searching!Fetch(s))
  BY DEF HasPhase, Searching!NoFetcher, Searching!Fetch, Searching!ExpressInterest
<1>2. ASSUME NEW f, HasPhase(f)
      PROVE  /\ HasPhase(Searching!HandleData(f))
             /\ HasPhase(Searching!ExpressInterest(f))
  BY <1>2 DEF HasPhase, Searching!HandleData, Searching!ExpressInterest
<1>3. ASSUME NEW f, HasPhase(f), NEW r
      PROVE  HasPhase(Searching!HandleNack(f, r))
  BY <1>3 DEF HasPhase, Searching!HandleNack, Searching!ExpressInterest, Searching!ScheduleBackoff
<1>4. ASSUME NEW f, HasPhase(f)
      PROVE  /\ HasPhase(Searching!HandleTimeout(f))
             /\ HasPhase(Confirming!HandleTimeout(f))
  BY <1>4 DEF HasPhase, Searching!HandleTimeout, Confirming!HandleTimeout,
              Searching!ExpressInterest, Confirming!ExpressInterest
<1> QED
  BY <1>1, <1>2, <1>3, <1>4

\* handling a Data that is stray, or was published, keeps the discovery's invariant
LEMMA HandleDataKeeps ==
  ASSUME DiscoveryInv, NEW d, HandleData(d), UNCHANGED producers,
         IsVersion(d.comp) /\ IsSegment(d.seg) => IsPublished(d)
  PROVE  DiscoveryInv' /\ signal = "none"
<1>1. fetcher.phase = "pending" /\ Matches(d) /\ UNCHANGED <<type, wanted>>
  BY DEF HandleData
<1>2. signal = "none"
  BY <1>1 DEF DiscoveryInv, NotifiedOnce, Searching!IsRunning
<1>3. CASE FixedHandleData(d)
  <2>1. type = "fixed" /\ ~foundVersion /\ wanted \in Versions /\ d.comp = wanted
    BY <1>1, <1>3 DEF FixedHandleData, DiscoveryInv, Chosen, Matches
  <2>2. UNCHANGED <<foundVersion, answered, producers>> /\ answered = {}
    BY <1>3, <2>1 DEF FixedHandleData, DiscoveryInv, Newest
  <2>3. signal' # "none" => found' = d /\ IsSegment(d.seg) /\ fetcher' = Searching!HandleData(fetcher)
    BY <1>2, <1>3 DEF FixedHandleData
  <2>4. Chosen' /\ Newest' /\ LargestReported'
    BY <1>1, <1>3, <2>1, <2>2, PhasesStay DEF FixedHandleData, DiscoveryInv, Chosen, Newest, LargestReported
  <2>5. NotifiedOnce'
    BY <2>3 DEF NotifiedOnce, DiscoveryInv, Chosen,
                Searching!IsRunning, Searching!HandleData, HasPhase
  <2>6. FoundPublished'
    BY <2>1, <2>2, <2>3 DEF FoundPublished, IsPublished, Published, IsVersion, IsSegment
  <2> QED
    BY <1>2, <2>4, <2>5, <2>6 DEF DiscoveryInv
<1>4. CASE IterativeHandleData(d)
  <2>1. type = "iterative" /\ UNCHANGED signal
    BY <1>4 DEF IterativeHandleData
  <2>2. NotifiedOnce'
    BY <1>2, <2>1 DEF NotifiedOnce
  <2>3. CASE IsVersion(d.comp)
    <3>1. /\ found' = d /\ foundVersion' /\ answered' = answered \cup {d.comp}
          /\ excluded' = Before(d.comp) \cup strayExcludes /\ UNCHANGED strayExcludes
      BY <1>4, <2>3 DEF IterativeHandleData
    <3>2. Chosen' /\ Newest'
      BY <1>1, <1>4, <2>1, <2>3, <3>1, PhasesStay
         DEF IterativeHandleData, DiscoveryInv, Chosen, Newest, IsVersion
    <3>3. LargestReported'
      <4> SUFFICES ASSUME strayExcludes = {}, NEW v \in answered \cup {d.comp} PROVE v <= d.comp
        BY <3>1 DEF LargestReported
      <4>0. d.comp \in Nat
        BY <2>3, NamesAssumption DEF IsVersion
      <4> SUFFICES ASSUME v \in answered PROVE v <= d.comp
        BY <4>0
      <4>1. foundVersion /\ v <= found.comp /\ found.comp \in Nat /\ v \in Nat
        BY NamesAssumption DEF DiscoveryInv, Newest, Chosen, LargestReported
      <4>2. d.comp \in Nat /\ d.comp \notin 0 .. found.comp
        BY <1>1, <2>1, <2>3, <4>1, NamesAssumption DEF DiscoveryInv, Newest, Before, Matches, IsVersion
      <4> QED
        BY <4>1, <4>2
    <3>4. FoundPublished'
      BY <2>3, <3>1 DEF FoundPublished, IsPublished, Published, IsSegment
    <3> QED
      BY <1>2, <2>2, <3>2, <3>3, <3>4 DEF DiscoveryInv
  <2>4. CASE ~IsVersion(d.comp)
    <3>1. /\ strayExcludes' = strayExcludes \cup {d.comp}
          /\ UNCHANGED <<found, foundVersion, answered>>
      BY <1>4, <2>4 DEF IterativeHandleData
    <3>2. Chosen' /\ Newest' /\ LargestReported'
      BY <1>1, <1>4, <2>1, <3>1, PhasesStay
         DEF IterativeHandleData, DiscoveryInv, Chosen, Newest, LargestReported
    <3>3. FoundPublished'
      BY <2>1, <3>1 DEF DiscoveryInv, FoundPublished, IsPublished, Published, IsSegment
    <3> QED
      BY <1>2, <2>2, <3>2, <3>3 DEF DiscoveryInv
  <2> QED
    BY <2>3, <2>4
<1> QED
  BY <1>3, <1>4 DEF HandleData

\* so do a Nack, a timeout and the end of a backoff
LEMMA RetriesKeep ==
  ASSUME DiscoveryInv, UNCHANGED producers,
         \/ \E r \in Searching!Reasons : HandleNack(r)
         \/ HandleTimeout
         \/ BackoffEnds
  PROVE  DiscoveryInv' /\ signal = "none"
<1>1. /\ fetcher.phase \in {"pending", "backoff"}
      /\ UNCHANGED <<type, wanted, excluded, strayExcludes, foundVersion, found, answered>>
  BY DEF HandleNack, HandleTimeout, BackoffEnds
<1>2. signal = "none"
  BY <1>1 DEF DiscoveryInv, NotifiedOnce, Searching!IsRunning
<1>3. signal' # "none" => Searching!HasError(fetcher')
  BY <1>2 DEF HandleNack, HandleTimeout, BackoffEnds
<1>4. NotifiedOnce'
  BY <1>3 DEF NotifiedOnce, Searching!IsRunning, Searching!HasError
<1>5. signal' = "success" => foundVersion
  BY <1>2 DEF HandleNack, HandleTimeout, BackoffEnds, OnTimeout
<1>6. type # "none" \/ signal' = "none"
  BY <1>1 DEF DiscoveryInv, Chosen
<1>7. HasPhase(fetcher')
  BY PhasesStay DEF DiscoveryInv, Chosen, HandleNack, HandleTimeout, BackoffEnds
<1>8. Chosen' /\ Newest' /\ LargestReported'
  BY <1>1, <1>6, <1>7 DEF DiscoveryInv, Chosen, Newest, LargestReported
<1>9. FoundPublished'
  BY <1>1, <1>5 DEF DiscoveryInv, FoundPublished, IsPublished, Published, IsSegment
<1> QED
  BY <1>2, <1>4, <1>8, <1>9 DEF DiscoveryInv

-----------------------------------------------------------------------------
(* A step of the program is one of the consumer, or main() ends the program
   before the consumer has retrieved anything. *)
ConsumerOrExit ==
  \/ [ConsumerNext]_allVars
  \/ /\ result = "running" /\ outcome = "idle"
     /\ \E r \in {"usage", "debugFile", "crashed", "failure"} : Exits(r)

\* a published segment names a content that is not too large
LEMMA PublishedContent ==
  ASSUME Stores, ReadStored, NEW d, IsPublished(d),
         NEW n \in SUBSET (0 .. FinalBlock(producers[d.comp].store))
  PROVE  [last |-> FinalBlock(producers[d.comp].store), excluded |-> d.seg, nacks |-> n]
           \in Contents
<1> DEFINE p == producers[d.comp]
           k == FinalBlock(p.store)
<1>1. p.input \in Inputs /\ p.store = PopulateStore(p.input) /\ d.seg \in 0 .. k
  BY DEF IsPublished, Published, ReadStored
<1>2. Len(p.store) \in 1 .. MaxLastSegment + 1
  BY <1>1, StoreRoundTrip
<1>3. k \in 0 .. MaxLastSegment
  BY <1>2, ConsumerAssumption DEF FinalBlock
<1> HIDE DEF k
<1>4. [last |-> k, excluded |-> d.seg, nacks |-> n] \in ContentsTo(k)
  BY <1>1 DEF ContentsTo, k
<1>5. [last |-> k, excluded |-> d.seg, nacks |-> n] \in Contents
  BY <1>3, <1>4 DEF Contents
<1> QED
  BY <1>5 DEF k

\* what the consumer makes of a step of the discovery
LEMMA SignalsKeep ==
  ASSUME SystemInv, DiscoveryInv', signal = "none", result = "running",
         DiscoverySignals, UNCHANGED producers
  PROVE  Retrieves' /\ ConsumerOrExit
<1>1. outcome = "idle"
  BY DEF SystemInv, Retrieves
<1>2. ASSUME NEW r \in {"usage", "debugFile", "crashed", "failure"}, Exits(r), signal' # "none"
      PROVE  Retrieves' /\ ConsumerOrExit
  BY <1>1, <1>2 DEF Retrieves, ConsumerOrExit, Exits, vars
<1>3. CASE signal' = "success"
  <2>1. DiscoverySucceeds(found')
    BY <1>3 DEF DiscoverySignals
  <2>2. CASE pipeline = "null" \/ ~IsSegment(found'.seg)
    BY <1>2, <1>3, <2>1, <2>2 DEF DiscoverySucceeds
  <2>3. CASE pipeline # "null" /\ IsSegment(found'.seg)
    <3> DEFINE k == FinalBlock(producers[found'.comp].store)
    <3>1. PICK n \in SUBSET (0 .. k) :
            StartPipeline([last |-> k, excluded |-> found'.seg, nacks |-> n])
      BY <2>1, <2>3 DEF DiscoverySucceeds
    <3>2. IsPublished(found)'
      BY <1>3, <2>3 DEF DiscoveryInv, FoundPublished, IsSegment
    <3>3. IsPublished(found')
      BY <3>2 DEF IsPublished, Published
    <3> DEFINE c == [last |-> k, excluded |-> found'.seg, nacks |-> n]
    <3>4. c \in Contents
      BY <3>3, PublishedContent DEF SystemInv
    <3>5. content' = c /\ result' # "success"
      BY <3>1 DEF StartPipeline, OnDataValidated
    <3>6. content'.last = FinalBlock(producers'[found'.comp].store)
      BY <3>5
    <3>7. Retrieves'
      BY <1>3, <3>2, <3>5, <3>6 DEF Retrieves
    <3>8. StartPipeline(c)
      BY <3>1
    <3> HIDE DEF c
    <3>9. ConsumerOrExit
      BY <3>4, <3>8 DEF ConsumerOrExit, ConsumerNext
    <3> QED
      BY <3>7, <3>9
  <2> QED
    BY <2>2, <2>3
<1>4. CASE signal' = "failure"
  <2>1. Exits("failure")
    BY <1>4 DEF DiscoverySignals, DiscoveryFails, Exits
  <2> QED
    BY <1>2, <1>4, <2>1
<1>5. CASE signal' \notin {"success", "failure"}
  <2>1. UNCHANGED allVars
    BY <1>5 DEF DiscoverySignals
  <2> QED
    BY <1>1, <2>1 DEF Retrieves, ConsumerOrExit, allVars, vars, consumerVars
<1> QED
  BY <1>3, <1>4, <1>5
\* in a step: what was published stays published
KeepsPublished ==
  \A w \in Versions : Published(w) => Published(w)' /\ producers'[w].store = producers[w].store

\* the producers' steps keep the invariant, and the consumer does not notice them
LEMMA ProducersKeep ==
  ASSUME SystemInv, ProducerSteps
  PROVE  SystemInv' /\ ConsumerOrExit
<1>1. /\ signal = "none"
      /\ UNCHANGED <<content, delivered, outcome, nextToPrint, buffered, output, result>>
      /\ UNCHANGED <<type, wanted, fetcher, excluded, strayExcludes, foundVersion, found, answered, signal>>
  BY DEF ProducerSteps, allVars, vars, consumerVars, discoveryVars
<1>2. PICK v \in Versions :
        \/ \E i \in Inputs : StartProducer(v, i)
        \/ RegisterSucceeds(v) \/ OnRegisterFailed(v) \/ Stop(v)
  BY DEF ProducerSteps
<1>3. /\ Stores' /\ ReadStored'
      /\ KeepsPublished
  <2>1. ASSUME NEW i \in Inputs, StartProducer(v, i)
        PROVE  Stores' /\ ReadStored' /\ KeepsPublished
    BY <2>1 DEF SystemInv, Stores, ReadStored, Published, KeepsPublished, StartProducer
  <2>2. CASE RegisterSucceeds(v) \/ OnRegisterFailed(v) \/ Stop(v)
    BY <2>2 DEF SystemInv, Stores, ReadStored, Published, KeepsPublished,
                RegisterSucceeds, OnRegisterFailed, Stop, ToStatus
  <2> QED
    BY <1>2, <2>1, <2>2
<1>4. IsPublished(found) => IsPublished(found)'
  BY <1>1, <1>3 DEF IsPublished, KeepsPublished
<1>5. DiscoveryInv'
  BY <1>1, <1>4 DEF SystemInv, DiscoveryInv, Chosen, Newest, LargestReported, NotifiedOnce, FoundPublished
<1>6. Retrieves'
  BY <1>1 DEF SystemInv, Retrieves
<1>7. ConsumerOrExit
  BY <1>1 DEF ConsumerOrExit, allVars, vars, consumerVars
<1> QED
  BY <1>3, <1>5, <1>6, <1>7 DEF SystemInv

\* main() starts a discovery that has not found anything, or ends the program
LEMMA MainKeeps ==
  ASSUME SystemInv, Main
  PROVE  SystemInv' /\ ConsumerOrExit
<1>1. type = "none" /\ result = "running" /\ signal = "none" /\ outcome = "idle"
  BY DEF Main, SystemInv, DiscoveryInv, Chosen, Retrieves
<1>2. CASE \E r \in {"usage", "debugFile", "crashed"} : Exits(r) /\ UNCHANGED mainVars
  <2>1. PICK r \in {"usage", "debugFile", "crashed"} : Exits(r) /\ UNCHANGED mainVars
    BY <1>2
  <2>2. ConsumerOrExit /\ outcome' = "idle" /\ result' = r
    BY <1>1, <2>1 DEF ConsumerOrExit, Exits, vars
  <2>3. UNCHANGED <<producers, type, wanted, fetcher, excluded, strayExcludes, foundVersion,
                    found, answered, signal>>
    BY <2>1 DEF mainVars, discoveryVars
  <2>4. Stores' /\ ReadStored' /\ DiscoveryInv'
    BY <2>3 DEF SystemInv, Stores, ReadStored, DiscoveryInv, Chosen, Newest, LargestReported,
                NotifiedOnce, FoundPublished, IsPublished, Published
  <2>5. Retrieves'
    BY <2>2 DEF Retrieves
  <2> QED
    BY <2>2, <2>4, <2>5 DEF SystemInv
<1>3. CASE \E o \in Options :
             /\ ~UsageError(o)
             /\ \E v \in IF o.discover = "fixed" THEN Versions ELSE {0} : RunDiscovery(o.discover, v)
             /\ UNCHANGED <<producers, allVars>>
  <2>0. PICK o \in Options :
          /\ ~UsageError(o)
          /\ \E v \in IF o.discover = "fixed" THEN Versions ELSE {0} : RunDiscovery(o.discover, v)
          /\ UNCHANGED <<producers, allVars>>
    BY <1>3
  <2>1. PICK v \in IF o.discover = "fixed" THEN Versions ELSE {0} :
          ~UsageError(o) /\ RunDiscovery(o.discover, v) /\ UNCHANGED <<producers, allVars>>
    BY <2>0
  <2>2. o.discover \in {"fixed", "iterative"}
    BY <2>1 DEF UsageError, Options
  <2>3. /\ type' = o.discover /\ wanted' = v /\ fetcher' = Searching!Fetch(0)
        /\ UNCHANGED <<producers, excluded, strayExcludes, foundVersion, found, answered, signal>>
        /\ UNCHANGED <<content, delivered, outcome, nextToPrint, buffered, output, result>>
    BY <2>1 DEF RunDiscovery, allVars, vars, consumerVars
  <2>4. ~foundVersion
    BY <1>1 DEF SystemInv, DiscoveryInv, Chosen
  <2>5. DiscoveryInv'
    BY <1>1, <2>1, <2>2, <2>3, <2>4, PhasesStay
       DEF SystemInv, DiscoveryInv, Chosen, Newest, LargestReported, NotifiedOnce, FoundPublished
  <2>6. Stores' /\ ReadStored' /\ Retrieves'
    BY <1>1, <2>3 DEF SystemInv, Stores, ReadStored, Retrieves
  <2>7. ConsumerOrExit
    BY <2>3 DEF ConsumerOrExit, allVars, vars, consumerVars
  <2> QED
    BY <2>5, <2>6, <2>7 DEF SystemInv
<1> QED
  BY <1>2, <1>3 DEF Main

\* the transfer is the consumer's, and retrieves what it began with
LEMMA TransferKeeps ==
  ASSUME SystemInv, TransferSteps
  PROVE  SystemInv' /\ ConsumerOrExit
<1>1. UNCHANGED <<producers, type, wanted, fetcher, excluded, strayExcludes, foundVersion,
                  found, answered, signal>>
  BY DEF TransferSteps, mainVars, discoveryVars
<1>2. Stores' /\ ReadStored' /\ DiscoveryInv'
  BY <1>1 DEF SystemInv, Stores, ReadStored, DiscoveryInv, Chosen, Newest, LargestReported,
              NotifiedOnce, FoundPublished, IsPublished, Published
<1>3. ASSUME content' = content, outcome \notin {"idle"}, outcome' # "idle"
      PROVE  Retrieves'
  BY <1>1, <1>3 DEF SystemInv, Retrieves, IsPublished, Published
<1>4. content' = content /\ outcome \notin {"idle"} /\ outcome' # "idle"
  BY DEF TransferSteps, OnData, Deliver, PipelineEnds, End, OnFailure, Return, Ends, vars
<1>5. ConsumerOrExit
  BY DEF TransferSteps, ConsumerOrExit, ConsumerNext
<1> QED
  BY <1>2, <1>3, <1>4, <1>5 DEF SystemInv

\* an answer, a Nack, a timeout or the end of a backoff
LEMMA DiscoveryKeeps ==
  ASSUME SystemInv,
         \/ \E v \in Versions : ProducerAnswers(v) \/ CacheAnswers(v)
         \/ \E d \in StrayData : OthersAnswer(d)
         \/ DiscoveryNacked \/ DiscoveryTimesOut \/ DiscoveryBacksOff
  PROVE  SystemInv' /\ ConsumerOrExit
<1>1. ASSUME NEW d, HandleData(d), IsVersion(d.comp) /\ IsSegment(d.seg) => IsPublished(d),
             result = "running", DiscoverySignals, UNCHANGED <<producers, pipeline>>
      PROVE  SystemInv' /\ ConsumerOrExit
  <2>1. DiscoveryInv' /\ signal = "none"
    BY <1>1, HandleDataKeeps DEF SystemInv
  <2> QED
    BY <1>1, <2>1, SignalsKeep DEF SystemInv, Stores, ReadStored
<1>2. ASSUME NEW v \in Versions, ProducerAnswers(v)
      PROVE  SystemInv' /\ ConsumerOrExit
  <2>1. PICK s \in OnInterest(v, 0) : DiscoveryStep(HandleData([comp |-> v, seg |-> s]))
    BY <1>2 DEF ProducerAnswers
  <2>2. s = 0 /\ producers[v].status = "serving" /\ 0 < Len(producers[v].store)
    BY <2>1 DEF OnInterest
  <2>3. producers[v].store \in {PopulateStore(i) : i \in Inputs}
    BY <2>2 DEF SystemInv, ReadStored
  <2>4. Len(producers[v].store) \in Nat
    BY <2>3, StoreRoundTrip, ConsumerAssumption
  <2>5. IsPublished([comp |-> v, seg |-> s])
    BY <2>2, <2>4 DEF IsPublished, Published, FinalBlock
  <2> QED
    BY <1>1, <2>1, <2>5 DEF DiscoveryStep
<1>3. ASSUME NEW v \in Versions, CacheAnswers(v)
      PROVE  SystemInv' /\ ConsumerOrExit
  <2>1. PICK s \in 0 .. FinalBlock(producers[v].store) :
          DiscoveryStep(HandleData([comp |-> v, seg |-> s]))
    BY <1>3 DEF CacheAnswers
  <2>2. IsPublished([comp |-> v, seg |-> s])
    BY <1>3 DEF CacheAnswers, IsPublished, Published
  <2> QED
    BY <1>1, <2>1, <2>2 DEF DiscoveryStep
<1>4. ASSUME NEW d \in StrayData, OthersAnswer(d)
      PROVE  SystemInv' /\ ConsumerOrExit
  BY <1>1, <1>4, StrayAssumption DEF OthersAnswer, DiscoveryStep, StrayAssumption
<1>5. CASE DiscoveryNacked \/ DiscoveryTimesOut \/ DiscoveryBacksOff
  <2>1. /\ \/ \E r \in Searching!Reasons : HandleNack(r)
           \/ HandleTimeout
           \/ BackoffEnds
        /\ result = "running" /\ DiscoverySignals /\ UNCHANGED <<producers, pipeline>>
    BY <1>5 DEF DiscoveryNacked, DiscoveryTimesOut, DiscoveryBacksOff, DiscoveryStep
  <2>2. DiscoveryInv' /\ signal = "none"
    BY <2>1, RetriesKeep DEF SystemInv
  <2> QED
    BY <2>1, <2>2, SignalsKeep DEF SystemInv, Stores, ReadStored
<1> QED
  BY <1>2, <1>3, <1>4, <1>5

\* the invariant holds when nothing has run yet
LEMMA InitSystemInv == SystemInit => SystemInv
<1> SUFFICES ASSUME SystemInit PROVE SystemInv
  OBVIOUS
<1>1. Stores /\ ReadStored
  BY DEF SystemInit, ProducerInit, NoProducer, Stores, ReadStored
<1>2. DiscoveryInv
  BY PhasesStay DEF SystemInit, DiscoveryInit, DiscoveryInv, Chosen, Newest, LargestReported, NotifiedOnce,
     FoundPublished, Searching!NoFetcher
<1>3. Retrieves
  BY DEF SystemInit, ConsumerInit, Init, Retrieves
<1> QED
  BY <1>1, <1>2, <1>3 DEF SystemInv

\* no step of the program, of the producers or of the network breaks it
LEMMA StepKeepsSystemInv == SystemInv /\ [SystemNext]_systemVars => SystemInv' /\ ConsumerOrExit
<1> SUFFICES ASSUME SystemInv, [SystemNext]_systemVars PROVE SystemInv' /\ ConsumerOrExit
  OBVIOUS
<1>1. CASE UNCHANGED systemVars
  <2>1. UNCHANGED <<content, delivered, outcome, nextToPrint, buffered, output, result, producers,
          type, wanted, fetcher, excluded, strayExcludes, foundVersion, found, answered, signal>>
    BY <1>1 DEF systemVars, allVars, vars, consumerVars, mainVars, discoveryVars
  <2>2. SystemInv'
    BY <2>1 DEF SystemInv, Stores, ReadStored, DiscoveryInv, Chosen, Newest, LargestReported,
                NotifiedOnce, FoundPublished, IsPublished, Published, Retrieves
  <2>3. ConsumerOrExit
    BY <2>1 DEF ConsumerOrExit, allVars, vars, consumerVars
  <2> QED
    BY <2>2, <2>3
<1> QED
  BY <1>1, MainKeeps, DiscoveryKeeps, ProducersKeep, TransferKeeps DEF SystemNext


-----------------------------------------------------------------------------
\* onDataValidated() of a program that runs is the consumer's
LEMMA ValidatedIsValidated ==
  ASSUME result = "running", NEW s, NEW isNack, OnDataValidated(s, isNack)
  PROVE  ConsumerPart!OnDataValidated(s, isNack)
<1>1. ASSUME NEW buf, WriteInOrderData(buf)
      PROVE  ConsumerPart!WriteInOrderData(buf)
  <2>1. ASSUME NEW T PROVE InMapOrder(T) = ConsumerPart!InMapOrder(T)
    <3>1. Cardinality(T) = ConsumerPart!Cardinality(T)
      BY Zenon DEF Cardinality, ConsumerPart!Cardinality
    <3>2. SetToSeqs(T) = ConsumerPart!SetToSeqs(T)
      BY <3>1, Zenon DEF SetToSeqs, ConsumerPart!SetToSeqs
    <3> QED
      BY <3>2, Zenon DEF InMapOrder, ConsumerPart!InMapOrder
  <2>2. ASSUME NEW m PROVE Contiguous(buf, m) <=> ConsumerPart!Contiguous(buf, m)
    BY DEF Contiguous, ConsumerPart!Contiguous
  <2>3. CASE /\ \E t \in buf : t < nextToPrint
             /\ buffered' = buf
             /\ UNCHANGED <<nextToPrint, output>>
    BY <2>3 DEF ConsumerPart!WriteInOrderData
  <2>4. CASE /\ \A t \in buf : t >= nextToPrint
             /\ \E m \in {nextToPrint} \cup {t + 1 : t \in buf} :
                  /\ Contiguous(buf, m) /\ ~Contiguous(buf, m + 1)
                  /\ nextToPrint' = m
                  /\ buffered' = {t \in buf : t >= m}
                  /\ output' = output \o InMapOrder({t \in buf : t < m})
    <3>1. PICK m \in {nextToPrint} \cup {t + 1 : t \in buf} :
                  /\ Contiguous(buf, m) /\ ~Contiguous(buf, m + 1)
                  /\ nextToPrint' = m
                  /\ buffered' = {t \in buf : t >= m}
                  /\ output' = output \o InMapOrder({t \in buf : t < m})
      BY <2>4
    <3>2. output' = output \o ConsumerPart!InMapOrder({t \in buf : t < m})
      BY <2>1, <3>1
    <3>3. ConsumerPart!Contiguous(buf, m) /\ ~ConsumerPart!Contiguous(buf, m + 1)
      BY <2>2, <3>1
    <3> QED
      BY <2>4, <3>1, <3>2, <3>3, Zenon DEF ConsumerPart!WriteInOrderData
  <2> QED
    BY <1>1, <2>3, <2>4, Zenon DEF WriteInOrderData
<1> QED
  BY <1>1 DEF OnDataValidated, ConsumerPart!OnDataValidated, Buffer, ConsumerPart!Buffer

\* so is startPipeline()
LEMMA StartIsStart ==
  ASSUME result = "running", NEW c, StartPipeline(c)
  PROVE  ConsumerPart!StartPipeline(c)
<1>1. ConsumerPart!Start
  BY DEF StartPipeline, Start, ConsumerPart!Start, Ends, ConsumerPart!Ends, Segments, ConsumerPart!Segments
<1> QED
  BY <1>1, ValidatedIsValidated DEF StartPipeline, ConsumerPart!StartPipeline


\* a program that ends before it retrieves anything ends as the consumer does
\* whose discovery fails; the other steps are the consumer's
LEMMA StepIsConsumers ==
  ConsumerOrExit => [ConsumerPart!ConsumerNext]_(ConsumerPart!allVars)
<1> SUFFICES ASSUME ConsumerOrExit PROVE [ConsumerPart!ConsumerNext]_(ConsumerPart!allVars)
  OBVIOUS
<1>1. ASSUME result = "running", outcome = "idle",
             NEW r \in {"usage", "debugFile", "crashed", "failure"}, Exits(r)
      PROVE  ConsumerPart!DiscoveryFails
  BY <1>1 DEF Exits, ConsumerPart!DiscoveryFails, ConsumerPart!vars, vars
<1>2. ASSUME NEW c \in Contents, StartPipeline(c)
      PROVE  ConsumerPart!StartPipeline(c) /\ c \in ConsumerPart!Contents
  BY <1>2, StartIsStart
     DEF StartPipeline, Contents, ContentsTo, ConsumerPart!Contents, ConsumerPart!ContentsTo
<1>3. ASSUME NEW s \in Segments, OnData(s)
      PROVE  ConsumerPart!OnData(s) /\ s \in ConsumerPart!Segments
  <2>1. ConsumerPart!OnDataValidated(s, s \in content.nacks)
    BY <1>3, ValidatedIsValidated DEF OnData
  <2>2. ConsumerPart!Deliver(s)
    BY <1>3 DEF OnData, Deliver, ConsumerPart!Deliver, Ends, ConsumerPart!Ends,
                Segments, ConsumerPart!Segments
  <2> QED
    BY <1>3, <2>1, <2>2 DEF OnData, ConsumerPart!OnData, Segments, ConsumerPart!Segments
<1>4. PipelineEnds => ConsumerPart!PipelineEnds
  BY DEF PipelineEnds, ConsumerPart!PipelineEnds, End, ConsumerPart!End, Ends, ConsumerPart!Ends,
         Segments, ConsumerPart!Segments, consumerVars, ConsumerPart!consumerVars
<1>5. /\ DiscoveryFails => ConsumerPart!DiscoveryFails
      /\ OnFailure => ConsumerPart!OnFailure
      /\ Return => ConsumerPart!Return
  BY DEF DiscoveryFails, OnFailure, Return, ConsumerPart!DiscoveryFails, ConsumerPart!OnFailure,
         ConsumerPart!Return, vars, ConsumerPart!vars
<1>6. UNCHANGED allVars => UNCHANGED ConsumerPart!allVars
  BY DEF allVars, vars, consumerVars, ConsumerPart!allVars, ConsumerPart!vars, ConsumerPart!consumerVars
<1> QED
  BY <1>1, <1>2, <1>3, <1>4, <1>5, <1>6 DEF ConsumerOrExit, ConsumerNext, ConsumerPart!ConsumerNext

\* the program begins as the consumer
LEMMA InitIsConsumers == SystemInit => ConsumerPart!ConsumerInit
  BY DEF SystemInit, ConsumerInit, ConsumerPart!ConsumerInit, Init, ConsumerPart!Init,
         NoContent, ConsumerPart!NoContent

(* The invariant always holds. *)
THEOREM SystemInductive == SystemSpec => []SystemInv
  BY InitSystemInv, StepKeepsSystemInv, PTL DEF SystemSpec

(* Discovery's user is notified at most once, whatever answers, is lost or is
   nacked: once it is, no Interest and no backoff could notify it again. *)
THEOREM NotifiesOnce == SystemSpec => []NotifiedOnce
<1>1. SystemInv => NotifiedOnce
  BY DEF SystemInv, DiscoveryInv
<1> QED
  BY <1>1, SystemInductive, PTL

(* The version the iterative discovery settles for is the largest that has
   answered, for every set of versions and every order of the answers, as long
   as no other application answers. *)
THEOREM ReportsLargest == SystemSpec => []LargestReported
<1>1. SystemInv => LargestReported
  BY DEF SystemInv, DiscoveryInv
<1> QED
  BY <1>1, SystemInductive, PTL

(* The options, the discovery and the producers leave the consumer a consumer:
   the whole program implements Consumer. *)
THEOREM ProgramIsConsumer == SystemSpec => StillAConsumer
  BY InitIsConsumers, StepIsConsumers, StepKeepsSystemInv, SystemInductive, PTL
     DEF SystemSpec, StillAConsumer, ConsumerPart!ConsumerSpec

-----------------------------------------------------------------------------
\* what the consumer's steps keep, the program's do
LEMMA ExitKeeps ==
  /\ Listed /\ ConsumerOrExit => Listed'
  /\ AtMostOnce /\ IInv /\ ConsumerOrExit => IInv'
<1>1. ASSUME NEW r \in {"usage", "debugFile", "crashed", "failure"}, Exits(r)
      PROVE  (Listed => Listed') /\ (IInv => IInv')
  BY <1>1 DEF Exits, vars, Listed, IInv, Sized, Promised, SuccessMeansWritten, Segments
<1> QED
  BY <1>1, StepLists, StepSplit DEF ConsumerOrExit

(* The invariants of Consumer_proof hold of the program. *)
THEOREM ProgramInductive ==
  /\ SystemSpec => []Listed
  /\ AtMostOnce /\ SystemSpec => []IInv
<1>1. SystemInit => Listed /\ IInv
  BY InitLists, InitSplit DEF SystemInit
<1>2. SystemSpec => []Listed
  BY <1>1, ExitKeeps, StepKeepsSystemInv, SystemInductive, PTL DEF SystemSpec
<1>3. ASSUME AtMostOnce PROVE SystemSpec => []IInv
  <2>1. IInv /\ ConsumerOrExit => IInv'
    BY <1>3, ExitKeeps
  <2> QED
    BY <1>1, <2>1, StepKeepsSystemInv, SystemInductive, PTL DEF SystemSpec
<1> QED
  BY <1>2, <1>3

\* the blocks written in order are the input that was cut into them
LEMMA SuccessRoundTrip == SystemInv /\ Listed /\ IInv => RoundTrip
<1> SUFFICES ASSUME SystemInv, Listed, IInv, result = "success"
             PROVE  LET p == producers[found.comp]
                    IN  Concat([i \in 1 .. Len(output) |-> p.store[output[i] + 1]]) = p.input
  BY DEF RoundTrip
<1> DEFINE p == producers[found.comp]
           t == PopulateStore(p.input)
<1>1. found.comp \in Versions /\ Published(found.comp) /\ content.last = FinalBlock(p.store)
  BY DEF SystemInv, Retrieves, IsPublished
<1>2. p.input \in Inputs /\ p.store = t
  BY <1>1 DEF SystemInv, ReadStored, Published
<1>3. Len(t) \in Nat /\ Concat(t) = p.input
  BY <1>2, StoreRoundTrip, ConsumerAssumption
<1>4. nextToPrint = Len(t)
  BY <1>1, <1>2, <1>3 DEF IInv, SuccessMeansWritten, FinalBlock
<1>5. output = [i \in 1 .. Len(t) |-> i - 1]
  BY <1>4 DEF Listed
<1>6. t = [i \in 1 .. Len(t) |-> t[i]]
  BY <1>2, StoreRoundTrip
<1>7. [i \in 1 .. Len(output) |-> p.store[output[i] + 1]] = t
  <2>1. Len(output) = Len(t)
    <3>1. output \in [1 .. Len(t) -> Nat]
      BY <1>3, <1>5
    <3> HIDE DEF t
    <3> QED
      BY <1>3, <3>1, SequenceOfLength
  <2>2. \A i \in 1 .. Len(t) : output[i] + 1 = i
    BY <1>3, <1>5
  <2> HIDE DEF t
  <2> QED
    BY <1>2, <1>6, <2>1, <2>2
<1> QED
  BY <1>2, <1>3, <1>7

(* The program writes the segments of the content in order, each once. *)
THEOREM ProgramWritesInOrder == SystemSpec => []WrittenInOrder
  BY ListedInOrder, ProgramInductive, PTL

(* The program holds every segment that arrived, and withholds none that it
   could write, with a pipeline that hands no segment over twice. *)
THEOREM ProgramHoldsSegments == AtMostOnce /\ SystemSpec => []NoneLostNorWithheld
<1>1. IInv => NoneLostNorWithheld
  BY DEF IInv, Split, SplitIn, Sized, NoneLostNorWithheld
<1> QED
  BY <1>1, ProgramInductive, PTL

(* A program that ends with exit code 0 has written every segment of the
   content, with a pipeline that hands no segment over twice. *)
THEOREM ProgramSuccessIsComplete == AtMostOnce /\ SystemSpec => []SuccessMeansWritten
<1>1. IInv => SuccessMeansWritten
  BY DEF IInv
<1> QED
  BY <1>1, ProgramInductive, PTL

(* A program that ends with exit code 0 has written, byte for byte, what the
   producer of the version that discovery chose has read: for every input and
   segment size, any producers and caches, and every order of the segments. *)
THEOREM ContentRoundTrip == AtMostOnce /\ SystemSpec => []RoundTrip
  BY SuccessRoundTrip, SystemInductive, ProgramInductive, PTL
=============================================================================
