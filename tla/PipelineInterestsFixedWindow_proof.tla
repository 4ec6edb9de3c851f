----------------- MODULE PipelineInterestsFixedWindow_proof -----------------
(***************************************************************************)
(* Theorems about PipelineInterestsFixedWindow, for every number of pipe   *)
(* elements, every set of contents and every number of retries.            *)
(***************************************************************************)
EXTENDS PipelineInterestsFixedWindow, TLAPS, FiniteSetTheorems

(* What the flags of the pipeline say about each other. *)
Bookkeeping ==
  /\ ~started => ~isStopping /\ ~hasFailure /\ ~hasFinalBlockId /\ delivered = {}
  /\ isStopping <=> failure # "no"
  /\ ~started \/ isStopping => \A p \in Pipes : ~IsRunning(fetchers[p])
  /\ started => content.excluded \in delivered
  /\ hasFinalBlockId => lastSegmentNo = content.last

(* Nothing from m_nextSegmentNo on was asked for, but for the excluded segment:
   a segment about to be fetched is a new one. *)
NewAhead ==
  /\ \A s \in delivered : s < nextSegmentNo \/ s = content.excluded
  /\ \A p \in Pipes : IsRunning(fetchers[p]) => fetchers[p].seg < nextSegmentNo

(* An element without work means that there is no more, or that a failure was
   set aside - which it is only as long as another element runs and the end is
   not known. *)
IdleForAReason ==
  started /\ ~isStopping =>
    /\ hasFailure => ~hasFinalBlockId /\ \E p \in Pipes : IsRunning(fetchers[p])
    /\ \A p \in Pipes :
         \/ IsRunning(fetchers[p])
         \/ hasFailure
         \/ hasFinalBlockId /\ nextSegmentNo > lastSegmentNo

IInv == TypeOK /\ Bookkeeping /\ NewAhead /\ FetchedOnce /\ NoneSkipped /\ IdleForAReason

-----------------------------------------------------------------------------
\* what each operation of a fetcher leaves it as
LEMMA FetcherOperations ==
  /\ NoFetcher \in Fetchers /\ ~IsRunning(NoFetcher)
  /\ \A s \in Nat : Fetch(s) \in Fetchers /\ Fetch(s).seg = s /\ IsRunning(Fetch(s))
  /\ \A f \in Fetchers :
       /\ Cancel(f) \in Fetchers /\ Cancel(f).seg = f.seg /\ ~IsRunning(Cancel(f))
       /\ HandleData(f) \in Fetchers /\ HandleData(f).seg = f.seg /\ ~IsRunning(HandleData(f))
<1> USE DEF Fetchers, Phases, IsRunning
<1>1. NoFetcher \in Fetchers /\ ~IsRunning(NoFetcher)
  BY DEF NoFetcher
<1>2. ASSUME NEW s \in Nat
      PROVE  Fetch(s) \in Fetchers /\ Fetch(s).seg = s /\ IsRunning(Fetch(s))
  BY DEF Fetch, ExpressInterest, NoFetcher
<1>3. ASSUME NEW f \in Fetchers
      PROVE  /\ Cancel(f) \in Fetchers /\ Cancel(f).seg = f.seg /\ ~IsRunning(Cancel(f))
             /\ HandleData(f) \in Fetchers /\ HandleData(f).seg = f.seg
             /\ ~IsRunning(HandleData(f))
  BY DEF Cancel, HandleData
<1> QED
  BY <1>1, <1>2, <1>3

\* what a Nack, a timeout or the end of a backoff makes of a fetcher: it goes
\* on with its segment, or it has an error
GoesOnOrFails(f, g) == g \in Fetchers /\ g.seg = f.seg /\ (IsRunning(g) <=> ~HasError(g))

\* a Nack, a timeout or the first Interest leave a fetcher going on or in error
LEMMA RetryOutcomes ==
  ASSUME NEW f \in Fetchers
  PROVE  /\ \A why \in Reasons : GoesOnOrFails(f, HandleNack(f, why))
         /\ GoesOnOrFails(f, HandleTimeout(f))
         /\ GoesOnOrFails(f, ExpressInterest(f))
<1> USE DEF Fetchers, Phases, IsRunning, HasError, GoesOnOrFails, ExpressInterest
<1>1. \A n \in Nat, max \in Int : Count(n, max) \in Nat
  BY DEF Count, MAX_RETRIES_INFINITE
<1>2. MaxNackRetries \in Int /\ MaxTimeoutRetries \in Int
  BY RetriesAssumption DEF MAX_RETRIES_INFINITE
<1>3. GoesOnOrFails(f, ExpressInterest(f))
  OBVIOUS
<1>4. GoesOnOrFails(f, HandleTimeout(f))
  <2> DEFINE g == [f EXCEPT !.nTimeouts = Count(@, MaxTimeoutRetries)]
  <2>1. g \in Fetchers /\ g.seg = f.seg
    BY <1>1, <1>2
  <2>2. HandleTimeout(f) \in {ExpressInterest(g), [g EXCEPT !.phase = "error"]}
    BY DEF HandleTimeout
  <2> HIDE DEF g
  <2>3. GoesOnOrFails(f, ExpressInterest(g)) /\ GoesOnOrFails(f, [g EXCEPT !.phase = "error"])
    BY <2>1
  <2> HIDE DEF GoesOnOrFails, ExpressInterest
  <2> QED
    BY <2>2, <2>3
<1>5. ASSUME NEW why \in Reasons
      PROVE  GoesOnOrFails(f, HandleNack(f, why))
  <2> DEFINE g == [f EXCEPT !.nNacks = Count(@, MaxNackRetries)]
             b == IF g.nCongestionRetries >= MaxBackoffExp THEN g.nCongestionRetries
                                                           ELSE g.nCongestionRetries + 1
  <2>1. g \in Fetchers /\ g.seg = f.seg /\ b \in Nat
    BY <1>1, <1>2, RetriesAssumption
  <2>2. HandleNack(f, why) \in {ExpressInterest(g), [g EXCEPT !.phase = "error"],
                                [g EXCEPT !.phase = "backoff", !.nCongestionRetries = b]}
    BY DEF HandleNack, ScheduleBackoff
  <2> HIDE DEF g, b
  <2>3. /\ GoesOnOrFails(f, ExpressInterest(g)) /\ GoesOnOrFails(f, [g EXCEPT !.phase = "error"])
        /\ GoesOnOrFails(f, [g EXCEPT !.phase = "backoff", !.nCongestionRetries = b])
    BY <2>1
  <2> HIDE DEF GoesOnOrFails, ExpressInterest
  <2> QED
    BY <2>2, <2>3
<1> QED
  BY <1>3, <1>4, <1>5

\* the segment to fetch next, or a later one in place of the excluded one
LEMMA SkippedTo ==
  ASSUME TypeOK
  PROVE  LET s == SkipExcluded(nextSegmentNo)
         IN  /\ s \in Nat /\ s # content.excluded
             /\ s = nextSegmentNo \/ (s = nextSegmentNo + 1 /\ nextSegmentNo = content.excluded)
  BY FixedWindowAssumption DEF TypeOK, SkipExcluded

-----------------------------------------------------------------------------
\* initially nothing was asked for and no element works
LEMMA InitIInv == Init => IInv
<1> SUFFICES ASSUME Init PROVE IInv
  OBVIOUS
<1>1. \A p \in Pipes : fetchers[p] = NoFetcher
  BY DEF Init
<1>2. TypeOK
  BY FetcherOperations DEF Init, TypeOK
<1>3. \A p \in Pipes : ~IsRunning(fetchers[p])
  BY <1>1, FetcherOperations
<1> QED
  BY <1>2, <1>3
     DEF Init, IInv, Bookkeeping, NewAhead, FetchedOnce, NoneSkipped, IdleForAReason

\* the elements that get a fetcher are the first ones, as many as there are
\* segments but the excluded one
LEMMA Asked ==
  ASSUME NEW c \in Contents,
         NEW asked, asked = {p \in Pipes : (IF p < c.excluded THEN p ELSE p + 1) <= c.last},
         asked # Pipes
  PROVE  /\ asked = 0 .. c.last - 1
         /\ Cardinality(asked) = c.last
<1>1. c.last \in Nat /\ c.excluded \in 0 .. c.last /\ MaxPipelineSize \in Nat
  BY FixedWindowAssumption
<1>2. \A p \in Nat : (IF p < c.excluded THEN p ELSE p + 1) <= c.last <=> p < c.last
  BY <1>1
<1>3. asked = {p \in Pipes : p < c.last}
  BY <1>2 DEF Pipes
<1>4. c.last < MaxPipelineSize
  BY <1>1, <1>3 DEF Pipes
<1>5. asked = 0 .. c.last - 1
  BY <1>1, <1>3, <1>4 DEF Pipes
<1>6. Cardinality(0 .. c.last - 1) = c.last
  <2>1. c.last - 1 \in Int /\ 0 \in Int
    BY <1>1
  <2> QED
    BY <1>1, <2>1, FS_Interval
<1> QED
  BY <1>5, <1>6

\* run() hands the first segments to the elements, one each
LEMMA RunKeeps ==
  ASSUME IInv, Run
  PROVE  IInv'
<1> DEFINE x      == content.excluded
           known  == x \in content.final
           nth(p) == IF p < x THEN p ELSE p + 1
           asked  == {p \in Pipes : ~known \/ nth(p) <= content.last}
           next   == IF asked = Pipes THEN nth(MaxPipelineSize - 1) + 1
                                      ELSE nth(Cardinality(asked))
<1>1. /\ content \in Contents /\ content' = content
      /\ content.last \in Nat /\ x \in 0 .. content.last /\ known \in BOOLEAN
      /\ MaxPipelineSize \in Nat \ {0}
  BY FixedWindowAssumption DEF IInv, TypeOK, Run
<1>2. /\ ~started /\ ~isStopping /\ ~hasFailure /\ failure = "no"
      /\ started' = TRUE /\ UNCHANGED <<hasFailure, isStopping, failure>>
  BY DEF IInv, TypeOK, Bookkeeping, Run
<1>3. /\ delivered' = {x} /\ hasFinalBlockId' = known
      /\ lastSegmentNo' = IF known THEN content.last ELSE 0
      /\ fetchers' = [p \in Pipes |-> IF p \in asked THEN Fetch(nth(p)) ELSE NoFetcher]
      /\ nextSegmentNo' = next
  BY DEF Run
<1>4. \A p \in Pipes : nth(p) \in Nat /\ nth(p) # x
  BY <1>1 DEF Pipes
<1>5. \A p, q \in Pipes : p # q => nth(p) # nth(q)
  BY <1>1 DEF Pipes
<1>6. \/ asked = Pipes /\ next = nth(MaxPipelineSize - 1) + 1
      \/ known /\ asked = 0 .. content.last - 1 /\ next = content.last + 1
  <2>1. CASE asked = Pipes
    BY <2>1
  <2>2. CASE asked # Pipes
    <3>1. known
      BY <2>2
    <3>2. asked = {p \in Pipes : nth(p) <= content.last}
      BY <3>1
    <3>3. asked = 0 .. content.last - 1 /\ Cardinality(asked) = content.last
      BY <1>1, <2>2, <3>2, Asked
    <3> QED
      BY <1>1, <2>2, <3>1, <3>3
  <2> QED
    BY <2>1, <2>2
<1>7. /\ next \in Nat
      /\ \A p \in asked : nth(p) < next
      /\ \A s \in 0 .. next - 1 : s = x \/ \E p \in asked : nth(p) = s
  <2>1. CASE asked = Pipes /\ next = nth(MaxPipelineSize - 1) + 1
    <3>1. \A p \in Pipes : nth(p) < next
      BY <1>1, <2>1 DEF Pipes
    <3>2. ASSUME NEW s \in 0 .. next - 1, s # x
          PROVE  \E p \in Pipes : nth(p) = s
      <4>1. CASE s < x
        <5>1. s \in Pipes
          BY <1>1, <2>1, <4>1 DEF Pipes
        <5> QED
          BY <4>1, <5>1
      <4>2. CASE s > x
        <5>1. s - 1 \in Pipes /\ nth(s - 1) = s
          BY <1>1, <2>1, <4>2 DEF Pipes
        <5> QED
          BY <5>1
      <4> QED
        BY <1>1, <3>2, <4>1, <4>2
    <3>3. next \in Nat
      BY <1>1, <2>1
    <3> QED
      BY <2>1, <3>1, <3>2, <3>3
  <2>2. CASE asked = 0 .. content.last - 1 /\ next = content.last + 1
    <3>1. next \in Nat
      BY <1>1, <2>2
    <3>2. \A p \in asked : nth(p) < next
      BY <1>1, <2>2
    <3>3. ASSUME NEW s \in 0 .. next - 1, s # x
          PROVE  \E p \in asked : nth(p) = s
      <4>1. CASE s < x
        BY <1>1, <2>2, <4>1
      <4>2. CASE s > x
        <5>1. s - 1 \in asked /\ nth(s - 1) = s
          BY <1>1, <2>2, <4>2
        <5> QED
          BY <5>1
      <4> QED
        BY <1>1, <3>3, <4>1, <4>2
    <3> QED
      BY <3>1, <3>2, <3>3
  <2> QED
    BY <1>6, <2>1, <2>2
<1> HIDE DEF next, asked, nth, known
<1>8. asked \subseteq Pipes /\ (asked # Pipes => known /\ next > content.last)
  BY <1>1, <1>6 DEF asked
<1>9. \A p \in Pipes :
        /\ p \in asked => fetchers'[p] = Fetch(nth(p))
        /\ p \notin asked => fetchers'[p] = NoFetcher
  BY <1>3
<1>10. \A p \in Pipes :
         /\ fetchers'[p] \in Fetchers
         /\ IsRunning(fetchers'[p]) <=> p \in asked
         /\ p \in asked => fetchers'[p].seg = nth(p)
  BY <1>4, <1>9, FetcherOperations
<1>11. next \in Nat
  BY <1>1, <1>7
<1>12. TypeOK'
  <2>1. fetchers' \in [Pipes -> Fetchers]
    BY <1>3, <1>10
  <2>2. delivered' \subseteq Segments'
    BY <1>1, <1>3 DEF Segments
  <2>3. lastSegmentNo' \in Nat
    BY <1>1, <1>3
  <2> QED
    BY <1>1, <1>2, <1>3, <1>11, <2>1, <2>2, <2>3 DEF IInv, TypeOK
<1>13. Bookkeeping'
  BY <1>1, <1>2, <1>3 DEF Bookkeeping
<1>14. NewAhead' /\ FetchedOnce'
  BY <1>1, <1>3, <1>4, <1>5, <1>7, <1>8, <1>10 DEF NewAhead, FetchedOnce
<1>15. NoneSkipped'
  BY <1>3, <1>7, <1>8, <1>10 DEF NoneSkipped
<1>16. IdleForAReason'
  BY <1>2, <1>3, <1>8, <1>10 DEF IdleForAReason
<1> QED
  BY <1>12, <1>13, <1>14, <1>15, <1>16 DEF IInv

\* onFailure() while the pipeline runs, in the middle of any handler: no
\* element works any more
LEMMA FailKeeps ==
  ASSUME IInv, started, Fail,
         UNCHANGED <<content, nextSegmentNo, hasFailure, started>>,
         delivered' \subseteq Segments, content.excluded \in delivered',
         \A s \in delivered' : s < nextSegmentNo \/ s = content.excluded,
         hasFinalBlockId' \in BOOLEAN, lastSegmentNo' \in Nat,
         hasFinalBlockId' => lastSegmentNo' = content.last
  PROVE  IInv'
<1>1. \A p \in Pipes : fetchers'[p] = NoFetcher
  BY DEF Fail, DropFetchers
<1>2. fetchers' \in [Pipes -> Fetchers] /\ \A p \in Pipes : ~IsRunning(fetchers'[p])
  BY <1>1, FetcherOperations DEF Fail, DropFetchers
<1>3. isStopping' /\ failure' = "posted"
  BY DEF Fail
<1>4. TypeOK'
  BY <1>2, <1>3 DEF IInv, TypeOK, Segments
<1> QED
  BY <1>2, <1>3, <1>4
     DEF IInv, Bookkeeping, NewAhead, FetchedOnce, NoneSkipped, IdleForAReason

\* fetchNextSegment() for an element that got its Data, after the elements
\* beyond a newly known end were cancelled
LEMMA RefillKeeps ==
  ASSUME IInv, started, ~hasFailure, NEW p \in Pipes, IsRunning(fetchers[p]),
         NEW fs \in [Pipes -> Fetchers], NEW known \in BOOLEAN, NEW last \in Nat,
         FetchNextSegment(p, fs, known, last),
         UNCHANGED <<content, hasFailure, started>>,
         fetchers[p].seg \in Segments, delivered' = delivered \cup {fetchers[p].seg},
         hasFinalBlockId' = known, lastSegmentNo' = last,
         known => last = content.last,
         hasFinalBlockId => known /\ last = lastSegmentNo,
         \A q \in Pipes :
           /\ fs[q].seg = fetchers[q].seg
           /\ IsRunning(fs[q]) => q # p /\ IsRunning(fetchers[q])
           /\ IsRunning(fetchers[q]) /\ q # p => IsRunning(fs[q]) \/ (known /\ fs[q].seg > last)
  PROVE  IInv'
<1> DEFINE s    == SkipExcluded(nextSegmentNo)
           more == MoreToFetch(s, known, last)
<1>1. /\ fetchers' = IF more THEN [fs EXCEPT ![p] = Fetch(s)] ELSE fs
      /\ nextSegmentNo' = IF more THEN s + 1 ELSE s
      /\ UNCHANGED <<isStopping, failure>>
  BY DEF FetchNextSegment
<1>2. /\ ~isStopping /\ content.excluded \in delivered
      /\ TypeOK /\ nextSegmentNo \in Nat /\ content.last \in Nat
      /\ \A q \in Pipes : fetchers[q].seg \in Nat
  BY FixedWindowAssumption DEF IInv, Bookkeeping, TypeOK, Fetchers
<1>3. /\ s \in Nat /\ s # content.excluded
      /\ s = nextSegmentNo \/ (s = nextSegmentNo + 1 /\ nextSegmentNo = content.excluded)
  BY <1>2, SkippedTo
<1>4. /\ Fetch(s) \in Fetchers /\ Fetch(s).seg = s /\ IsRunning(Fetch(s))
  BY <1>3, FetcherOperations
<1>5. ~more => known /\ s > last
  BY <1>3 DEF MoreToFetch
<1> HIDE DEF s, more
<1>6. \A q \in Pipes :
        \/ more /\ q = p /\ fetchers'[q] = Fetch(s)
        \/ (more => q # p) /\ fetchers'[q] = fs[q]
  BY <1>1
<1>7. fetchers[p].seg \notin delivered /\ fetchers[p].seg < nextSegmentNo
  BY DEF IInv, FetchedOnce, NewAhead
<1>8. s \notin delivered' /\ s >= nextSegmentNo
  BY <1>2, <1>3, <1>7 DEF IInv, NewAhead
<1>9. nextSegmentNo' \in Nat /\ nextSegmentNo' >= s /\ (more => nextSegmentNo' = s + 1)
  BY <1>1, <1>3
<1>10. TypeOK'
  <2>1. fetchers' \in [Pipes -> Fetchers]
    BY <1>1, <1>4
  <2> QED
    BY <1>1, <1>2, <1>9, <2>1 DEF TypeOK, Segments
<1>11. Bookkeeping'
  BY <1>1, <1>2 DEF IInv, Bookkeeping
<1>12. NewAhead'
  <2>1. \A t \in delivered' : t < nextSegmentNo' \/ t = content'.excluded
    BY <1>2, <1>3, <1>7, <1>9 DEF IInv, NewAhead, TypeOK, Segments
  <2>2. ASSUME NEW q \in Pipes, IsRunning(fetchers'[q])
        PROVE  fetchers'[q].seg < nextSegmentNo'
    <3>1. CASE more /\ fetchers'[q] = Fetch(s)
      BY <1>3, <1>4, <1>9, <3>1
    <3>2. CASE fetchers'[q] = fs[q]
      <4>1. fetchers[q].seg < nextSegmentNo /\ fetchers'[q].seg = fetchers[q].seg
        BY <2>2, <3>2 DEF IInv, NewAhead
      <4> QED
        BY <1>2, <1>3, <1>8, <1>9, <4>1
    <3> QED
      BY <1>6, <3>1, <3>2
  <2> QED
    BY <2>1, <2>2 DEF NewAhead
<1>13. FetchedOnce'
  <2>1. ASSUME NEW q \in Pipes, IsRunning(fetchers'[q]), fetchers'[q] = fs[q]
        PROVE  /\ q # p /\ IsRunning(fetchers[q]) /\ fetchers'[q].seg = fetchers[q].seg
               /\ fetchers'[q].seg \notin delivered' /\ fetchers'[q].seg # s
    <3>1. q # p /\ IsRunning(fetchers[q]) /\ fetchers'[q].seg = fetchers[q].seg
      BY <2>1
    <3>2. /\ fetchers[q].seg \notin delivered /\ fetchers[q].seg # fetchers[p].seg
          /\ fetchers[q].seg < nextSegmentNo
      BY <3>1 DEF IInv, FetchedOnce, NewAhead
    <3> QED
      BY <1>2, <1>3, <1>8, <3>1, <3>2
  <2>2. \A q, r \in Pipes :
          IsRunning(fetchers[q]) /\ IsRunning(fetchers[r]) /\ q # r =>
            fetchers[q].seg # fetchers[r].seg
    BY DEF IInv, FetchedOnce
  <2> QED
    BY <1>4, <1>6, <1>8, <2>1, <2>2 DEF FetchedOnce
<1>14. NoneSkipped'
  <2> SUFFICES ASSUME NEW t \in 0 .. nextSegmentNo' - 1
               PROVE  \/ t \in delivered'
                      \/ known /\ t > last
                      \/ \E q \in Pipes : fetchers'[q].seg = t /\ IsRunning(fetchers'[q])
    BY DEF NoneSkipped
  <2>1. CASE more /\ t = s
    BY <1>4, <1>6, <2>1
  <2>2. CASE t < nextSegmentNo
    <3>1. \/ t \in delivered
          \/ hasFinalBlockId /\ t > lastSegmentNo
          \/ \E q \in Pipes : fetchers[q].seg = t /\ IsRunning(fetchers[q])
      BY <1>2, <1>9, <2>2 DEF IInv, NoneSkipped
    <3>2. ASSUME NEW q \in Pipes, fetchers[q].seg = t, IsRunning(fetchers[q]), q # p
          PROVE  \/ known /\ t > last
                 \/ fetchers'[q].seg = t /\ IsRunning(fetchers'[q])
      BY <1>6, <3>2
    <3> QED
      BY <3>1, <3>2
  <2>3. CASE t = content.excluded
    BY <1>2, <2>3
  <2> QED
    BY <1>1, <1>2, <1>3, <1>9, <2>1, <2>2, <2>3
<1>15. IdleForAReason'
  <2> SUFFICES ASSUME NEW q \in Pipes, ~IsRunning(fetchers'[q])
               PROVE  known /\ nextSegmentNo' > last
    BY DEF IdleForAReason
  <2>1. CASE ~more
    BY <1>3, <1>5, <1>9, <2>1
  <2>2. CASE more
    <3>1. q # p /\ fetchers'[q] = fs[q]
      BY <1>4, <1>6, <2>2
    <3>2. CASE IsRunning(fetchers[q])
      <4>1. known /\ fetchers[q].seg > last /\ fetchers[q].seg < nextSegmentNo
        BY <3>1, <3>2 DEF IInv, NewAhead
      <4> QED
        BY <1>2, <1>3, <1>8, <1>9, <4>1
    <3>3. CASE ~IsRunning(fetchers[q])
      <4>1. hasFinalBlockId /\ nextSegmentNo > lastSegmentNo
        BY <1>2, <3>3 DEF IInv, IdleForAReason
      <4> QED
        BY <1>2, <1>3, <1>8, <1>9, <4>1
    <3> QED
      BY <3>2, <3>3
  <2> QED
    BY <2>1, <2>2
<1> QED
  BY <1>10, <1>11, <1>12, <1>13, <1>14, <1>15 DEF IInv

\* handleData(): the pipeline fails, or the element goes on with the next segment
LEMMA DataKeeps ==
  ASSUME IInv, NEW p \in Pipes, ReceiveData(p)
  PROVE  IInv'
<1> DEFINE s     == fetchers[p].seg
           learn == ~hasFinalBlockId /\ s \in content.final
           known == hasFinalBlockId \/ learn
           last  == IF learn THEN content.last ELSE lastSegmentNo
           got   == [fetchers EXCEPT ![p] = HandleData(@)]
           kept  == [q \in Pipes |-> IF learn /\ got[q].seg > last THEN Cancel(got[q]) ELSE got[q]]
<1>1. /\ IsRunning(fetchers[p]) /\ s \in Segments /\ delivered' = delivered \cup {s}
      /\ hasFinalBlockId' = known /\ lastSegmentNo' = last
      /\ UNCHANGED <<content, hasFailure, started>>
  BY DEF ReceiveData, IsRunning
<1>2. started /\ ~isStopping /\ content.excluded \in delivered
  BY <1>1 DEF IInv, Bookkeeping, TypeOK
<1>3. /\ fetchers \in [Pipes -> Fetchers] /\ delivered \subseteq Segments
      /\ hasFinalBlockId \in BOOLEAN /\ lastSegmentNo \in Nat /\ content.last \in Nat
      /\ hasFinalBlockId => lastSegmentNo = content.last
  BY FixedWindowAssumption DEF IInv, TypeOK, Bookkeeping
<1>4. known \in BOOLEAN /\ last \in Nat /\ (known => last = content.last)
  BY <1>3
<1>5. CASE Fail /\ UNCHANGED nextSegmentNo
  <2>1. \A t \in delivered' : t < nextSegmentNo \/ t = content.excluded
    BY <1>1 DEF IInv, NewAhead
  <2> QED
    BY <1>1, <1>2, <1>3, <1>4, <1>5, <2>1, FailKeeps
<1>6. CASE ~hasFailure /\ FetchNextSegment(p, kept, known, last)
  <2>1. \A q \in Pipes :
          /\ got[q] \in Fetchers /\ got[q].seg = fetchers[q].seg
          /\ q # p => got[q] = fetchers[q]
          /\ ~IsRunning(got[p])
    BY <1>3, FetcherOperations
  <2> HIDE DEF got
  <2>2. \A q \in Pipes :
          \/ kept[q] = got[q]
          \/ kept[q] = Cancel(got[q]) /\ known /\ got[q].seg > last
    OBVIOUS
  <2> HIDE DEF kept, known, last
  <2>3. \A q \in Pipes : kept[q] \in Fetchers /\ kept[q].seg = fetchers[q].seg
    BY <2>1, <2>2, FetcherOperations
  <2>4. kept \in [Pipes -> Fetchers]
    BY <2>3 DEF kept
  <2>5. \A q \in Pipes :
          /\ IsRunning(kept[q]) => q # p /\ IsRunning(fetchers[q])
          /\ IsRunning(fetchers[q]) /\ q # p => IsRunning(kept[q]) \/ (known /\ kept[q].seg > last)
    BY <2>1, <2>2, <2>3, FetcherOperations
  <2>6. hasFinalBlockId => known /\ last = lastSegmentNo
    BY DEF known, last
  <2> QED
    BY <1>1, <1>2, <1>4, <1>6, <2>3, <2>4, <2>5, <2>6, RefillKeeps
<1>7. \/ Fail /\ UNCHANGED nextSegmentNo
      \/ ~hasFailure /\ FetchNextSegment(p, kept, known, last)
  BY DEF ReceiveData, FetchNextSegment
<1> QED
  BY <1>5, <1>6, <1>7

\* an element that is not the one with the error keeps its work, or is cancelled
\* because a failure is set aside
LEMMA RetriedKeeps ==
  ASSUME IInv, NEW p \in Pipes, IsRunning(fetchers[p]),
         NEW g, GoesOnOrFails(fetchers[p], g), Retried(p, g)
  PROVE  IInv'
<1> DEFINE fs   == [fetchers EXCEPT ![p] = g]
           kept == [q \in Pipes |-> IF fs[q].seg > g.seg THEN Cancel(fs[q]) ELSE fs[q]]
<1>1. /\ started /\ ~isStopping
      /\ UNCHANGED <<content, nextSegmentNo, hasFinalBlockId, lastSegmentNo, started, delivered>>
  BY DEF IInv, TypeOK, Bookkeeping, Retried
<1>2. /\ fetchers \in [Pipes -> Fetchers] /\ fs \in [Pipes -> Fetchers]
      /\ hasFinalBlockId \in BOOLEAN /\ hasFailure \in BOOLEAN
      /\ lastSegmentNo \in Nat /\ nextSegmentNo \in Nat
      /\ \A q \in Pipes : /\ fs[q].seg = fetchers[q].seg
                          /\ q # p => fs[q] = fetchers[q]
                          /\ fs[q].seg \in Nat
      /\ fs[p] = g
  BY DEF IInv, TypeOK, GoesOnOrFails, Fetchers
<1> HIDE DEF fs
<1>3. CASE Fail /\ UNCHANGED hasFailure
  BY <1>1, <1>3, FailKeeps DEF IInv, TypeOK, Bookkeeping, NewAhead
<1>4. CASE ~HasError(g) /\ fetchers' = fs /\ UNCHANGED <<hasFailure, isStopping, failure>>
  <2>1. \A q \in Pipes : /\ IsRunning(fetchers'[q]) <=> IsRunning(fetchers[q])
                         /\ fetchers'[q].seg = fetchers[q].seg
    BY <1>2, <1>4 DEF GoesOnOrFails
  <2>2. TypeOK'
    BY <1>1, <1>2, <1>4 DEF IInv, TypeOK, Segments
  <2> QED
    BY <1>1, <1>4, <2>1, <2>2
       DEF IInv, Bookkeeping, NewAhead, FetchedOnce, NoneSkipped, IdleForAReason
<1>5. CASE /\ HasError(g) /\ hasFinalBlockId /\ g.seg > lastSegmentNo
           /\ fetchers' = fs /\ UNCHANGED <<hasFailure, isStopping, failure>>
  <2>1. \A q \in Pipes : /\ IsRunning(fetchers'[q]) <=> IsRunning(fetchers[q]) /\ q # p
                         /\ fetchers'[q].seg = fetchers[q].seg
    BY <1>2, <1>5 DEF GoesOnOrFails
  <2>2. TypeOK'
    BY <1>1, <1>2, <1>5 DEF IInv, TypeOK, Segments
  <2>3. ~hasFailure /\ fetchers[p].seg < nextSegmentNo /\ fetchers[p].seg > lastSegmentNo
    BY <1>1, <1>2, <1>5 DEF IInv, IdleForAReason, NewAhead
  <2>4. nextSegmentNo > lastSegmentNo
    BY <1>2, <2>3
  <2>5. Bookkeeping' /\ NewAhead' /\ FetchedOnce'
    BY <1>1, <1>5, <2>1 DEF IInv, Bookkeeping, NewAhead, FetchedOnce
  <2>6. NoneSkipped'
    BY <1>1, <1>5, <2>1, <2>3 DEF IInv, NoneSkipped
  <2>7. IdleForAReason'
    BY <1>1, <1>5, <2>3, <2>4 DEF IdleForAReason
  <2> QED
    BY <2>2, <2>5, <2>6, <2>7 DEF IInv
<1>6. CASE /\ HasError(g) /\ ~hasFinalBlockId /\ OthersRunning(fs, g.seg)
           /\ fetchers' = kept /\ hasFailure' = TRUE /\ UNCHANGED <<isStopping, failure>>
  <2>1. \A q \in Pipes : /\ kept[q] \in Fetchers /\ kept[q].seg = fetchers[q].seg
                         /\ IsRunning(kept[q]) => IsRunning(fetchers[q])
                         /\ ~(fs[q].seg > g.seg) => kept[q] = fs[q]
    BY <1>2, <1>6, FetcherOperations DEF GoesOnOrFails
  <2>2. kept \in [Pipes -> Fetchers]
    BY <2>1
  <2> HIDE DEF kept
  <2>3. PICK q \in Pipes : fs[q].seg <= g.seg /\ IsRunning(fs[q])
    BY <1>6 DEF OthersRunning
  <2>4. IsRunning(fetchers'[q])
    <3>1. ~(fs[q].seg > g.seg)
      BY <1>2, <2>3
    <3> QED
      BY <1>6, <2>1, <2>3, <3>1
  <2>5. TypeOK'
    BY <1>1, <1>6, <2>2 DEF IInv, TypeOK, Segments
  <2>6. Bookkeeping' /\ NewAhead' /\ FetchedOnce'
    BY <1>1, <1>6, <2>1 DEF IInv, Bookkeeping, NewAhead, FetchedOnce
  <2>7. NoneSkipped' /\ IdleForAReason'
    BY <1>1, <1>6, <2>4 DEF NoneSkipped, IdleForAReason
  <2> QED
    BY <2>5, <2>6, <2>7 DEF IInv
<1> QED
  BY <1>3, <1>4, <1>5, <1>6 DEF Retried, HandleFail, fs

\* every step keeps the invariant
LEMMA NextIInv == IInv /\ [Next]_vars => IInv'
<1> SUFFICES ASSUME IInv, [Next]_vars PROVE IInv'
  OBVIOUS
<1>1. ASSUME NEW p \in Pipes, fetchers[p].phase \in {"pending", "backoff"}
      PROVE  fetchers[p] \in Fetchers /\ IsRunning(fetchers[p])
  BY <1>1 DEF IInv, TypeOK, IsRunning
<1>2. CASE Run
  BY <1>2, RunKeeps
<1>3. ASSUME NEW p \in Pipes, ReceiveData(p) PROVE IInv'
  BY <1>3, DataKeeps
<1>4. ASSUME NEW p \in Pipes, ReceiveNack(p) PROVE IInv'
  BY <1>1, <1>4, RetryOutcomes, RetriedKeeps DEF ReceiveNack
<1>5. ASSUME NEW p \in Pipes, LifetimeExpires(p) PROVE IInv'
  BY <1>1, <1>5, RetryOutcomes, RetriedKeeps DEF LifetimeExpires
<1>6. ASSUME NEW p \in Pipes, BackoffElapses(p) PROVE IInv'
  BY <1>1, <1>6, RetryOutcomes, RetriedKeeps DEF BackoffElapses
<1>7. CASE CallOnFailure
  BY <1>7 DEF CallOnFailure, IInv, TypeOK, Segments, Bookkeeping, NewAhead, FetchedOnce,
              NoneSkipped, IdleForAReason
<1>8. CASE UNCHANGED vars
  BY <1>8 DEF vars, IInv, TypeOK, Segments, Bookkeeping, NewAhead, FetchedOnce,
              NoneSkipped, IdleForAReason
<1> QED
  BY <1>2, <1>3, <1>4, <1>5, <1>6, <1>7, <1>8 DEF Next

(* The inductive invariant of the fixed window. *)
THEOREM Inductive == Spec => []IInv
  BY InitIInv, NextIInv, PTL DEF Spec

(* Type correctness, for any number of pipe elements and retries. *)
THEOREM TypeCorrect == Spec => []TypeOK
<1>1. IInv => TypeOK
  BY DEF IInv
<1> QED
  BY <1>1, Inductive, PTL

(* No segment is fetched by two elements, or fetched again once it was
   delivered: handleData() hands each segment over once. *)
THEOREM EachFetchedOnce == Spec => []FetchedOnce
<1>1. IInv => FetchedOnce
  BY DEF IInv
<1> QED
  BY <1>1, Inductive, PTL

(* What the consumer needs of a pipeline (AtMostOnce): handleData() hands no
   segment to m_onData that was handed over before. *)
THEOREM HandsOverOnce ==
  Spec => [][\A p \in Pipes : ReceiveData(p) => fetchers[p].seg \notin delivered]_vars
<1>1. IInv => \A p \in Pipes : ReceiveData(p) => fetchers[p].seg \notin delivered
  BY DEF IInv, FetchedOnce, ReceiveData, IsRunning
<1> QED
  BY <1>1, Inductive, PTL

(* No segment is left out, by the rule for the excluded segment or by the
   cancellation of fetchers. *)
THEOREM NoneLeftOut == Spec => []NoneSkipped
<1>1. IInv => NoneSkipped
  BY DEF IInv
<1> QED
  BY <1>1, Inductive, PTL

-----------------------------------------------------------------------------
(* A pipeline in which nothing runs any more, and which did not fail, has
   handed over every segment of the content. *)
LEMMA QuietIsComplete ==
  IInv /\ Quiescent => delivered = Segments
<1> SUFFICES ASSUME IInv, Quiescent PROVE delivered = Segments
  OBVIOUS
<1>1. 0 \in Pipes
  BY FixedWindowAssumption DEF Pipes
<1>2. hasFinalBlockId /\ ~hasFailure /\ nextSegmentNo > lastSegmentNo /\ lastSegmentNo = content.last
  BY <1>1 DEF IInv, IdleForAReason, Bookkeeping, Quiescent
<1>3. content.last \in Nat /\ nextSegmentNo \in Nat /\ delivered \subseteq Segments
  BY FixedWindowAssumption DEF IInv, TypeOK
<1>4. ASSUME NEW s \in Segments PROVE s \in delivered
  <2>1. s \in 0 .. nextSegmentNo - 1 /\ ~(s > lastSegmentNo)
    BY <1>2, <1>3 DEF Segments
  <2> QED
    BY <1>2, <2>1 DEF IInv, NoneSkipped, Quiescent
<1> QED
  BY <1>3, <1>4

\* a step that starts the transfer or delivers ends it only as the contract allows
LEMMA EndsAsPromised ==
  ASSUME IInv', started'
  PROVE  Contract!Ends
<1>1. (IInv /\ Quiescent => delivered = Segments)'
  BY QuietIsComplete, PTL
<1>2. Quiescent' => delivered' = Contract!Segments'
  BY <1>1 DEF Segments, Contract!Segments
<1> QED
  BY <1>2 DEF Contract!Ends

\* while an element works the transfer runs
LEMMA WorkIsRunning ==
  ASSUME IInv, NEW p \in Pipes, IsRunning(fetchers[p])
  PROVE  started /\ failure = "no" /\ ~Quiescent
  BY DEF IInv, Bookkeeping, TypeOK, Quiescent

\* every step of the pipeline is one of the contract, or changes nothing in it
LEMMA StepKeepsContract ==
  ASSUME IInv, IInv', [Next]_vars
  PROVE  [Contract!Next]_(Contract!vars)
<1> USE DEF Contract!vars
<1>1. CASE Run
  <2>1. ~started /\ started' = TRUE /\ content' = content /\ delivered' = {content.excluded}
    BY <1>1 DEF Run
  <2>2. Contract!Ends
    BY <2>1, EndsAsPromised
  <2>3. content.excluded \in 0 .. content.last
    BY FixedWindowAssumption DEF IInv, TypeOK
  <2>4. Contract!Start
    BY <2>1, <2>2, <2>3 DEF Contract!Start, Contract!Segments
  <2> QED
    BY <2>4 DEF Contract!Next
<1>2. ASSUME NEW p \in Pipes, ReceiveData(p)
      PROVE  Contract!Next
  <2>1. started /\ failure = "no" /\ ~Quiescent
    BY <1>2, WorkIsRunning DEF ReceiveData, IsRunning
  <2>2. /\ started' = started /\ content' = content
        /\ fetchers[p].seg \in Segments /\ delivered' = delivered \cup {fetchers[p].seg}
    BY <1>2 DEF ReceiveData
  <2>3. Contract!Ends
    BY <2>1, <2>2, EndsAsPromised
  <2>4. Contract!Deliver(fetchers[p].seg)
    BY <2>1, <2>2, <2>3 DEF Contract!Deliver
  <2> QED
    BY <2>2, <2>4 DEF Contract!Next, Contract!Segments, Segments
<1>3. ASSUME NEW p \in Pipes, ReceiveNack(p) \/ LifetimeExpires(p) \/ BackoffElapses(p)
      PROVE  Contract!Next
  <2>1. started /\ failure = "no" /\ ~Quiescent
    BY <1>3, WorkIsRunning DEF ReceiveNack, LifetimeExpires, BackoffElapses, IsRunning
  <2>2. UNCHANGED <<started, content, delivered>>
    BY <1>3 DEF ReceiveNack, LifetimeExpires, BackoffElapses, Retried
  <2>3. Contract!Ends
    BY <2>1, <2>2, EndsAsPromised
  <2>4. Contract!End
    BY <2>1, <2>2, <2>3 DEF Contract!End
  <2> QED
    BY <2>4 DEF Contract!Next
<1>4. CASE CallOnFailure
  BY <1>4 DEF CallOnFailure, Quiescent
<1>5. CASE UNCHANGED vars
  BY <1>5 DEF vars, Quiescent
<1> QED
  BY <1>1, <1>2, <1>3, <1>4, <1>5 DEF Next

(* The fixed window implements the contract of PipelineInterests: it never goes
   quiet with a segment missing, and never delivers after it failed. *)
THEOREM ImplementsContract == Spec => ContractSpec
<1>1. Init => Contract!Init
  BY DEF Init, Contract!Init
<1>2. IInv /\ IInv' /\ [Next]_vars => [Contract!Next]_(Contract!vars)
  BY StepKeepsContract
<1> QED
  BY <1>1, <1>2, Inductive, PTL DEF Spec, ContractSpec, Contract!Spec
=============================================================================
