# Specifications of ndn-tools (catchunks-cc)

This directory keeps TLA+ specifications of the programs in `src/`, the TLC
configurations that check them, and proofs checked by TLAPS. The repository is
a fork of ndn-tools whose own work is `ndncatchunks`: the retrieval of a
segmented file over NDN with several congestion controls. The specifications
start there, and go on to what surrounds a pipeline in that program, to
`ndnping` and its server, and to `ndn-pib`.

## 1. The system

Every program runs in one thread: a `boost::asio` event loop runs the callbacks of
the `ndn::Face` (Data, Nack or lifetime expiration of a pending Interest), of
the scheduler (timers, posted functions) and of signals. Handlers are atomic;
what is hard is the order in which they come, what they assume about each
other, and what the network does in between.

| component | source (`src/tools/...`) | state | operations | hard behaviours | what makes it correct |
|---|---|---|---|---|---|
| DataFetcher | `chunks/catchunks/data-fetcher` | one Interest with retries: counts of Nacks and timeouts, running or not | fetch, cancel; Data, Nack, timeout handlers | cancel during a backoff, mixed Nacks and timeouts | one outcome per fetch, bounded retries |
| PipelineInterests | `pipeline-interests` | the end of the content, stopping or not | run, cancel, onFailure | failure is posted, so it comes later | the contract, `SegmentTransfer` |
| PipelineInterestsFixedWindow | `pipeline-interests-fixed-window` | a fetcher per pipe, next segment, a failure set aside | Data, Nack, timeout of a pipe | a pipe fails while others go on and learn the end | everything fetched once, or a failure reported |
| PipelineInterestsAimd | `pipeline-interests-aimd` | a map of segment states, a retransmission queue, counters, a congestion window | Data, Nack, expiration, retransmission timers, the sending loop | duplicates, stale Interest ids, counters kept by several handlers | the same, within the window |
| Cubic, TcpBic pipelines | `pipeline-interests-cubic`, `-tcpbic` | as Aimd, with the state of their window: epochs, maxima, targets | as Aimd | windows below one segment; members that are not initialised | as Aimd, and the window stays open |
| RttEstimator, RateEstimator | `aimd-rtt-estimator`, `aimd-rate-estimator` | smoothed RTT, variation, RTO; rates | addMeasurement, backoffRto | bounds | RTO within its limits |
| DiscoverVersion | `discover-version*` | a fetcher, the excludes, the latest version found | Data, Nack, timeout handlers | an Interest sent again after its answer, late answers, other applications' Data | the version reported exists and is the largest that answered; the user is notified once |
| Consumer, main | `consumer`, `ndncatchunks` | segments buffered, next to write; the discovery and the pipeline chosen | callbacks | any order, duplicates, failure in the middle | exit code 0 means all is written, in order |
| Producer | `chunks/putchunks/producer` | the segments, the registration | onInterest, registration | discovery and segment Interests, empty input, last segment shorter | every segment carries the right end |
| ndnping | `ping/client` | pings sent, outstanding, statistics | performPing, Data, Nack, timeout, signals | end of the program against late answers and signals | every ping is accounted for once, the exit code tells whether all were answered in time |
| ndnpingserver | `ping/server` | pings served | onInterest, registration, signals | Interests after the last one | ends once, at its limit |
| ndnpeek, ndnpoke | `peek` | a result code | Data, Nack | none | - |
| PIB | `pib` | tables of identities, keys, certificates with defaults; the validator's key cache, the publisher's certificates, copies of the management certificate | get, default, list, update, delete; signals of the database | triggers, cascades, memory that follows the tables, the end of the process between two statements | one default each, no orphans, memory current, a success tells the truth, the queries agree with each other |
| PIB encoding | `pib/encoding` | none | encode and decode each parameter, entity and reply | parameters cut short or too long | what is decoded is what was sent |
| ndndump, ndn-dissect, Wireshark | `dump`, `dissect*` | none | print packets | none | - |

How they interact in `ndncatchunks`: `main` chooses a discovery and a pipeline
from its options; `Consumer::run` starts discovery; the Data
found names the version and is the first segment received; `startPipeline`
hands it to the consumer's own buffer and to the pipeline's `run`; the pipeline
calls `onData` for each segment and `onFailure` at most once, by `io_service::post`;
`Consumer::onFailure` throws out of the event loop, and `main` turns it into
the exit code. The event loop returns by itself when no Interest and no timer
is left. On the other side `ndnputchunks` fills its store from its input, and
answers a discovery Interest with the first segment and any other with the
segment it names; caches in between answer with any segment they have kept.

In `ndnping` one timer sends the next ping; Data, Nack and timeout handlers and
the two signal handlers share `m_nOutstanding` and the end of the program.
`ndnpingserver` counts the Interests it answers, and gives up its filter at the limit.

In `ndn-pib`, a signed command passes `PibValidator`, which finds the signer's
key in its own copy of the management certificate, in the key cache or in the
database; the update or delete processor checks that the signer may give the
command and calls members of `PibDb`, one SQL statement each. SQLite runs the
triggers of a statement, and these call back: `keyDeleted` empties the key
cache, `certificateInserted` and `certificateDeleted` change what
`CertPublisher` serves, `mgmtCertificateChanged` reloads the validator's copy.
The queries get, default and list only read the tables.

## 2. The modules

    SegmentTransfer <-- implemented by -- PipelineInterestsFixedWindow -- EXTENDS --> DataFetcher
         ^   ^                                                                           |
         |   +----- implemented by ------ PipelineInterestsAimd  + AimdWindow            |
         |                                 ^ INSTANCE        ^ INSTANCE                  | INSTANCE
         |               PipelineInterestsCubic   PipelineInterestsTcpBic                |
         |                        ^ INSTANCE        ^ INSTANCE                           |
         |                         CongestionPipelines                                   |
      Consumer <---- EXTENDS ---- Catchunks ---- EXTENDS ----> DiscoverVersion <---------+
                                      +--------- EXTENDS ----> Producer
                         (DiscoverVersion and Producer EXTEND VersionedNames)

      PibDb <-- EXTENDS -- Pib <-- EXTENDS -- PibQueries -- EXTENDS --> PibEncoding
      Ping, PingServer <-- EXTENDS -- PingSystem

Transfer of segments:

* **SegmentTransfer** is the abstract specification of `PipelineInterests`: a
  content, the segments handed over, and an outcome. A transfer ends complete
  only with every segment delivered; nothing is delivered after the end.
* **DataFetcher** describes the fetcher as a record and its operations as
  functions from the record before to the record after and the callback made.
  It has no variables of its own, for a pipeline has one fetcher per pipe.
* **PipelineInterestsFixedWindow** has one action per handler of a pipe: Data,
  a Nack of each reason, a timeout, the end of a backoff; run() and the posted
  failure. Each action is the fetcher's handler and the pipeline's callback
  that it calls, together, as in the code.
* **PipelineState** has the variables and constants that the three window
  pipelines share, for `CongestionPipelines` instantiates two of them on one state.
* **PipelineInterestsAimd** has one action per handler of the Face and of the
  RTO timer. `schedulePackets()` ends each handler with a loop; its iterations
  are actions of their own (`SendNext`, `SkipRetx`, `Retransmit`) and nothing
  else is enabled until the loop is done, so they are one handler for everybody
  else. The queue, the map and the counters are the code's. What the window is,
  and what increases and decreases make of it, are parameters (`Windows`,
  `Increased`, `Decreased`); **AimdWindow** gives the ones of this pipeline.
* **PipelineInterestsCubic** and **PipelineInterestsTcpBic** are instances of
  it. The two sources are copies of the AIMD pipeline in which the window's operations
  are replaced and, in Cubic, `handleData()` looks a segment up before it counts it
  (`IgnoresUnknown`). TcpBic never initialises some members; what they hold
  is any value of `Garbage`.
* **CongestionPipelines** is the one of the two that the option names, on a network that
  only loses or on one that also nacks and lets Interests expire.

The program:

* **Consumer** composes `SegmentTransfer` with the consumer: its actions conjoin
  a step of the pipeline's contract with the consumer's callback.
* **VersionedNames** tells a version from another component, and a segment number
  from another one; **Producer** is the store of ndnputchunks, its registration and its answers.
* **DiscoverVersion** is both discoveries on one fetcher. The retries on a
  timeout depend on whether a version was found, so the fetcher is two
  instances of DataFetcher, `Searching` and `Confirming`.
* **Catchunks** composes them with `main()`, from its options to its exit code; of the
  pipeline it keeps whether there is one and whether it has a fixed or a congestion window.
  Whatever the rest does, the consumer in it is still the one of `Consumer`: the
  refinement `StillAConsumer`, by which Consumer_proof speaks of the program.

The rest:

* **PibDb** describes the database as a record of tables and each SQL statement
  as a function on it, with its triggers and cascades. A trigger that keeps one
  default is a function on the set of default rows, so nothing in the data
  structure prevents two.
* **Pib** is the service: `Accept`, `Reject` (validation, permission and what
  the lookup does to the key cache), `RunStatement` (the next statement of the
  accepted command, the signals it raises, and the reply after the last),
  `ProcessUpdateUser`, `Crash` and `Restart`. Nothing but `Crash` can come
  between two statements of a command, for there is one thread.
* **PibEncoding** has every wire format as a block of typed elements, and every
  decoder with the checks it makes of their order and types.
* **PibQueries** has the three queries as a client sees them: encoded, decoded by
  the processor, answered, encoded again and decoded. They change nothing, so
  they are operators on the database, and the properties ask all of them in
  every state between two commands.
* **Ping**, **PingServer**: one action per handler, timer and signal.
  **PingSystem** joins them by the Interests and the Data on their way, which
  can be lost, delayed and overtaken, adds another client of the server, and caches
  that answer instead of the server or once more (`CacheAnswers`): their Data may be of an
  earlier run of the client, and stale if `-a` allows it. What the client knows of the
  server is therefore nothing, and its exit code is about answers: `inTime` keeps which
  pings had one before they timed out or were nacked.

`MC*.tla` define the contents, names and numbers to explore; each `*_proof.tla` EXTENDS
the module it is about and holds inductive invariants, lemmas and theorems only. As the
modules build on one another, so do the proofs: Catchunks_proof EXTENDS Consumer_proof,
PibQueries_proof EXTENDS Pib_proof, and CongestionPipelines_proof is two instances of
PipelineInterestsAimd_proof.

### What is abstracted

* Payloads, names, verbosity, statistics of ndncatchunks and RTT samples. A
  segment is its number, a version is its number. In `Producer` the input is its bytes,
  for how it is cut is what matters.
* Time. A timer that runs may fire at any moment; an RTO can therefore fire
  early, late, or together with others (`CheckRto` takes any set of segments
  that contains a given one, in any order, for the map is unordered).
* The congestion windows are their integer parts, with whether they are whole
  where that decides. `IncreaseWindow` in congestion
  avoidance adds a fraction, so the integer part grows by one or stays;
  `DecreaseWindow` of AIMD halves, whose integer part depends on the integer part
  only. For Cubic and TcpBic an operation yields every window between the bounds
  that their formulas have.
* The Face (external): an Interest is pending until it is answered, nacked,
  expired or removed; one Data answers all the pending Interests it matches, by
  one callback after the other. `removePendingInterest` takes effect at once.
* Discovery: an Exclude is the set of version numbers, or of last components, that it rules out.
* PIB: a name, a key or a certificate is a value; `IdentityOf`, `KeyOf`, `PrefixOf`
  and `Below` say how names are cut and nested. A signature is the name of the
  signer and the key it was made with. A block is its type and its elements;
  lengths and bytes belong to the library. A stored certificate is its name: that an update
  with the name of one that is there and other contents changes nothing, and is answered with success, cannot be told. Every SQL statement
  succeeds: PibDb looks at the result of none of its updates, and a command would be answered with success
  when the disk is full. The results of prefix
  registrations are left out. The publisher's storage is an external in-memory
  storage without a limit: a set.
* ndnpingserver: `unsetInterestFilter()` is the library's. It takes a filter away some time later;
  of a registration that is still pending, both that it is withdrawn and that it goes on are possible.
* Ping: a ping is the number of its turn; the sequence number or random number in its name, the
  identifier and the round trip times are left out.
* Validation in ndncatchunks: `main` uses `ValidatorNull`, which accepts at once.
* Interests that stay pending after `cancel()`: every handler returns at once
  when the pipeline is stopping.

## 3. The runs

The contents of the pipelines are all those of up to `MaxLastSegment + 1` segments, with
sets of segments that carry FinalBlockId and the segment found by discovery:
all such sets (`AllContents`), those where the discovered segment carries it, as everything
published by ndnputchunks does (`EndKnown`), those where no segment, one
segment or every segment carries it (`PlainContents`), or, for contents of two segments and
more, none, the last one or all of them (`SeveralSegments`).

| run | bounds | shows |
|---|---|---|
| `fixed_window` | 3 pipes, up to 5 segments (`PlainContents`), 1 retry of each kind | no segment is requested twice or left out, it always ends, and the contract holds |
| `fixed_window_unlimited` | 2 pipes, up to 3 segments, retries without limit | ends if the network answers in the end and the end of the content can be learnt |
| `aimd_one_retry` | up to 4 segments, one beyond, window 3, 1 retransmission, all events | types, window, queue, every segment counted once, and the contract |
| `aimd_end_known` | 2 to 4 segments, window 3, 2 retransmissions, all events, end known, the window reset on a loss | no segment is forgotten, and the transfer ends |
| `congestion` | Cubic and TcpBic, 2 or 3 segments, 2 retransmissions, windows up to 3 that start at 1 or 2 | the window stays open; Cubic counts every segment once on a network that only loses, and ends |
| `catchunks` | versions 1 and 3; inputs of 0, 2 and 5 bytes cut into segments of 2; three Data of other applications; 2 retries, 1 after a version was found | what is written is what was read; the largest version that answered is reported, once; the program ends, but for a transfer that a congestion window may keep; it contains `Consumer` |
| `pib` | 2 identities, `/localhost/reserved` and the management identity, 3 keys of which one has the name that stands for none, 3 certificates of which 2 share a prefix, the default options 0 to 7, 2 values of key bits, 2 management certificates, a key cache of 2 | tables sound, memory current, success true for what queries then show, the queries agree, commands decoded as sent, through crashes |
| `ping` | 1 ping, 2 pings, or no limit and then 2 sent; a server without limit or with 2; caches | what both count, what the exit code tells, one end each, and that they end |
| `aimd_three_retries`, `aimd_failure`, `cubic_no_cwa`, `cubic_pipeline_null` | 1 to 3 segments | findings 1 to 4 |

Why the bounds are enough: three pipes are one that fails, one that learns the
end and one in between; three to five segments are one excluded, one lost, one
that carries the end and one beyond it, and for three pipes one more that a pipe is refilled with; a window of three leaves a slot free
next to a segment in flight and one in the queue. `MaxSegmentNo` stops the window
pipelines from requesting segments for ever while the end is unknown: one beyond
the content is allowed so that there is something to cancel. `MaxCwnd` stops
the growth of the window. With unlimited retries the fetcher does not count, as
in the code, so that run needs no other bound.
In `congestion` a window that starts at one is the default of ndncatchunks, and one that starts at two is
the smallest from which one loss leaves something; `LOW_WINDOW` of three puts both sides of TcpBic's
threshold within the bound.
In `catchunks` two versions are an older and a newer one, and other components
lie before, between and after them; an empty input, one full
segment and a last segment that is not full are the cases of `populateStore`.
In the PIB's run two keys of one identity are what a default is chosen from, the third key, of
the management identity, is what the cache of two evicts for and what a new management certificate
can be signed with (its certificate has a name that is not refused as reserved),
one key has the name `NON_EXISTING_KEY`, which default answers with where there is none, two certificates with one prefix are what a filter
is shared by, and two values of the bits are a key before and after it was
deleted and added again. The values of the bits and the management certificates
are symmetric: they are only compared. The state space is finite, so there is
no other bound and the run is complete for these names.
In `ping` two pings in flight can be answered in either order, one Interest
more than the server's limit reaches it while its filter is being removed, a cache can answer before, instead of and after the server, and `MaxSent` and `MaxServed`
stop a client and a server that have no limit.
`CHECK_DEADLOCK FALSE` is used wherever a program or a transfer ends; the PIB never does, and is checked.

### Fairness

Fixed window: every pending Interest is answered in the end - Data, a Nack or
its lifetime, which the Face guarantees -, the end of a backoff and a posted
function run, for the scheduler and the event loop do not drop events.
`ReliableSpec` adds that a segment that is requested again and again is
delivered in the end; without it unlimited retries need not end.
Window pipelines: the same, the running loop goes on, and an expired retransmission timer
is noticed, for checkRto() reschedules itself.
ndncatchunks: the program starts, a discovery Interest is answered, nacked or expires,
a backoff ends, a transfer by the fixed window ends, as `fixed_window` shows (its retries are
limited, as those of the discovery are; with `--retries -1` neither need end), and the program ends after any transfer.
Nothing makes anybody publish, answer or stay up.
`Termination` excepts two behaviours that the code has: other applications' Data
that keep answering an iterative discovery which has found no version, for the
Interest is then sent again with the excludes it had; and a pipeline with a congestion window
that never ends its transfer. These pipelines are assumed to end none, for they need not: none of the three ends for
a content of one segment, AIMD can hang on a lost failure (finding 2) or on leaked slots of its window
(section 5), Cubic on a closed window (finding 3), and the end of TcpBic is not checked.
What the runs show is that AIMD ends within the bounds of `aimd_end_known`,
and Cubic with conservative window adaptation within those of `congestion`.
Ping: timers expire, lifetimes end and the loop runs what is in its queue; no signal, no
Interest and no Data has to come. `ClientEnds` excepts the wait described in
section 5, `ServerEnds` a server interrupted while it registers whose registration is not withdrawn.
The PIB has safety properties only: a service that ends when it is told to.

## 4. What is proved

`tlapm` checks the proofs for all values of the constants. Every invariant and action
property that a passing run checks is also a theorem, some under a hypothesis that is
named here; so are the refinements `ContractSpec` and `StillAConsumer`. What liveness
the runs check stays with TLC.

**PipelineInterestsFixedWindow_proof** (for any number of pipes, of retries, and any
contents: `FixedWindowAssumption`, `RetriesAssumption`). `FetchedOnce` and `NoneSkipped` are not inductive. A segment fetched next is
new only if nothing from `m_nextSegmentNo` on was asked for but the excluded one
(`NewAhead`); and a pipe without work must have a reason, that there is no more or that a
failure was set aside while others still run (`IdleForAReason`), or a failed
segment could be cancelled away with nobody to report it. With `Bookkeeping`, what the
flags say about each other, these are `IInv`. `TypeCorrect`, `EachFetchedOnce`,
`NoneLeftOut` and `HandsOverOnce` follow, and `ImplementsContract`: a pipeline in which nothing runs
has, by `NoneSkipped`, delivered everything (`QuietIsComplete`), so that going quiet
is the contract's completion, and every other step is one that delivers or fails.

**PipelineInterestsAimd_proof** (for any contents, window, network and number of retries
unless stated). Its window is a parameter: nothing is assumed of it but `WindowAssumption`,
that its operations keep it a window; `PipelineAssumption` says that the contents are within the bound.

* `IInv` is what everything rests on. `TypeOK` says among others that no counter is negative.
  `WindowInv` adds to `LoopInWindow` that the loop runs only in a pipeline that runs: `run()` sends
  without looking at the window, and a retransmission that fails may have stopped
  the pipeline. `QueueInv` has `RecordedOrResent` and `RetxQueueCovers`, which are
  not inductive alone: the first needs that only segments below m_nextSegmentNo
  are in the map or pending (`RequestedBelowNext`), otherwise a first request
  could meet an Interest of its own; the second needs that the known end is the
  content's (`EndRight`), since `handleFail()` leaves the state of a segment
  beyond the end as it is. `HandleDataCases`
  names the four ways through `handleData()`. `TypeCorrect`,
  `LoopKeepsWindow`, `InFlightWithinWindow` (an action property),
  `QueueCoversMarked` and `OneRecordedInterest` follow.
* `PastInv` is about what was stepped past. `handleFail()` erases segments from the map, and a
  FinalBlockId below `m_failedSegNo` takes the failure back; what was erased is then
  known to lie beyond the end - unless a late Nack of an erased segment has raised
  `m_failedSegNo` in between. So `NothingForgotten` is proved as long as
  `m_failedSegNo` is 0 (`ForgottenOnlyAfterFailure`) and, without a condition on the
  execution, when version discovery saw the end (`NoSegmentForgotten`): no failure is set aside then.
* `OnceInv` is about counting. The first retransmission withdraws the recorded Interest,
  so one Data finds one Interest, and after it nothing is
  left that could bring a second copy (`PendingUndelivered`, `ResentOnce`, `DeliveredUsedUp`) - until a
  segment is retransmitted a second time, which withdraws nothing. ndncatchunks always runs
  with a limit of three retransmissions, so this is a condition on what has happened and not on the
  options: `NoneSentThrice`, that no segment was sent a third time so far. Under it `CountedOnce`
  and `HandsOverOnce` hold; with `EndRight`, and because what is delivered belongs to the
  content, a count that has reached the end is the content (`DoneIsComplete`), and
  `ImplementsContract` follows for the behaviours in which it stays true. Without it all of these are false:
  finding 1. `OnlyStopsEarly` says how far that goes: for any number of retries the pipeline implements the contract
  unless it stops with a segment missing.
* `LossyInv` is about counting, too. A `handleData()` that ignores what is not in the map
  counts once however often a segment is sent, if the network only loses packets: a segment is then in the queue
  once, and only while it waits there, so that a delivered segment is marked
  or erased for good (`CountedOnceLossy`).
* `OpenInv` is about a window that stays open, for an operation that makes at least two
  segments of an open window when it grows and leaves one of two when it shrinks (`Steady`).
  With conservative adaptation the window shrinks only when `m_highData` is past `m_recPoint`. A
  window of one was reached by a reduction, which moved `m_recPoint` past all that was
  requested, or it is the first one, with one segment requested. Such a window sends nothing
  new before it opens: its loop has one packet to send and always a retransmission to send
  for it (`Narrow`). So whatever arrives is not past `m_recPoint`, or opens the window (`WindowNeverCloses`).

**CongestionPipelines_proof** takes these over for the two copies. Each is an instance of the
proof module with its own window: first that its window is one (`CubicAssumptions`, `BicAssumptions`) and
`Steady`, then, handler by handler, that its definitions are those of the instance.
`WindowsStayOpen` needs an `InitSsthresh` of two (the default is the largest double): below it a Cubic window of one grows by
fractions from the start and four fifths of it are less than a segment. For TcpBic it speaks of windows that no uninitialised
member has touched. `CubicCountsOnce` is `CountedOnceLossy`; `ImplementsContract` holds as long as no segment is sent a third
time, and for Cubic in any case where the network only loses packets. `SegmentsWatched` has what does
not depend on the window. Assumption: `CongestionAssumption`, which bounds the windows.

**Consumer_proof.** `IInv` says that the segments handed over are those written
and those buffered, all the buffered ones beyond the first missing one, and that
a complete transfer has handed over everything. `HeldSegments` and
`SuccessIsComplete` follow, for a pipeline that hands no segment over twice -
an assumption (`AtMostOnce`), for the contract allows it and the consumer does not stand it;
the two theorems `HandsOverOnce` say where it is true: of the fixed window always, of AIMD until a segment
is retransmitted a second time. For the AIMD of ndncatchunks what rests on it is therefore conditional. `OutputInOrder` needs no such
pipeline: what is written is the sequence 0, 1, ... up to the first missing segment. It rests on
`IntervalInMapOrder`, that there is one order of an interval, and that on an induction over
Nat; no prover here can instantiate the library's, so `NatSetInduction` derives
it for a set from the pigeonhole principle of FiniteSetTheorems.

**Catchunks_proof.** Four steps lead from `populateStore()` to `RoundTrip`. The blocks it cuts concatenate to the input, for every
input and segment size (`StoreRoundTrip`). `SystemInv` links the processes: producers hold
what they read, discovery asks only for newer versions than the one it found and has nothing to wait for
once it has notified, and the consumer retrieves what was found; from it `NotifiesOnce` and `ReportsLargest`. Each step is one of the
consumer's, or `main()` ends before it retrieves (`ConsumerOrExit`), so the program
implements Consumer (`ProgramIsConsumer`) and has its invariants (`ProgramWritesInOrder`, `ProgramHoldsSegments`, `ProgramSuccessIsComplete`). And
blocks written in order concatenate to what was read: `ContentRoundTrip`.
`StillAConsumer` and the order need nothing of the pipeline; the others that speak of what was written need `AtMostOnce`.
Further assumptions: `ConsumerAssumption`, `ProducerAssumption`, `StrayAssumption` and `NamesAssumption`, the types of the
constants, and `InputsFit`, that the inputs are not longer than the segments that are modelled.

**Pib_proof.** `IInv` says that the tables are sound and typed between any two
statements (`Sound`), that a command in progress has a next statement, and that
the key cache, the published certificates and the management certificates agree
with the tables while the process runs. `TablesSound` alone is not inductive,
for an operator on a record of unknown type says nothing; `CacheCurrent` needs
that no statement changes the bits of a key that stays (`BitsStay`). There is
one lemma per SQL statement, one that the statements of a command are those of
its type (`StatementsTyped`), one for the lookup and one for the signals. From
`IInv` follow `TablesStaySound`, `ValidatorIsCurrent` and `PublisherIsCurrent`. `TypeCorrect` needs more of the
key cache, for its two indexes change apart: both hold the same keys, each once (`CacheIndexed`).
`DefaultsStayKept` looks at each statement: it takes a default away only with its row.
`Progress` says what the statements of a command have achieved so far: rows come
before what refers to them, and no later statement undoes an earlier one. Assumptions:
`NamesAssumption`, `NullsAssumption` and `ServiceAssumption`, which say what the
name functions map to and that the cache has room for one key.

**PibQueries_proof.** Decoding undoes encoding for each parameter and reply, and from that follows
what each query answers in terms of the tables (`GetAnswers`, `ListAnswers`,
`DefaultAnswers`). In sound tables - `IInv` of Pib_proof - a row's parent is
there and a default is unique, so the `JOIN`s lose nothing and `CHOOSE` has no
choice: `ListsAreFound` and `DefaultsFollow`. After the last statement of a command `Progress` has
all that the command asked for, so the queries show it: `WritesAreRead`. `CommandsAreDecoded` is
the same for the parameters of commands, and that none with an element less or more is accepted. Assumption: `QueriesAssumption`,
no identity, key or certificate has the empty name. The reserved names may be stored like any other: where one is not, `NoneIsNoKey`, default
does not find it, and this is the condition of `DefaultsFollow` and of what `WritesAreRead` says of an identity's
default certificate after its deletion.

**Ping_proof.** `Counted` is the inductive invariant: of the client, that
`m_nOutstanding` is the number of pending pings less one after the last was
sent, that a ping sent is pending or in the statistics, and that `nReceived` counts the pings answered in time, each
once, none of which is pending; of the server, what it
served and whether it finished; and of the network, that what is on its way belongs to
pings sent. From it follow `TypeCorrect`, `Outstanding`,
`Finished`, `Accounted`, `ExitCode` and `ServerFinished`. `ExitCode` needs that a set of pings which
has as many members as there are pings is all of them: the program compares two counts.
Assumption: `PingAssumption`, the numbers the options admit.

Only model-checked: liveness - that a transfer, a program, a client or a server ends - since the
prover has no rules for fairness; and the findings, which are single behaviours. No module
declares a recursive operator.

## 5. Findings

Shown by a run:

1. *AIMD can end with a segment missing* (`aimd_three_retries`). A segment's copies that answer several
   pending Interests are counted as segments (`pipeline-interests-aimd.cpp:243`,
   `:281`); with two or more retransmissions m_nReceived can reach the end early.
2. *AIMD can lose a failure and hang* (`aimd_failure`, `pipeline-interests-aimd.cpp:374`): the map is
   tested for emptiness before the segments beyond the failed one are cancelled.
3. *Cubic's window can close for ever* (`cubic_no_cwa`, `pipeline-interests-cubic.cpp:479`): without
   conservative adaptation one loss leaves a window of 0.8 segments.
4. *Cubic gets no pipeline* (`cubic_pipeline_null`, `ndncatchunks.cpp:350`): it is moved to
   `pipeline` only where log files are opened, so a plain `-t cubic` crashes.

Seen while modelling; the models have this behaviour, and properties are stated around it:

* The fixed window reports that no final segment number was found whenever some
  pipe has failed, also when it was just found and the failed segment lies
  beyond it (`pipeline-interests-fixed-window.cpp:68-71`).
* AIMD, and the copies of it, never end for a content of one segment (`pipeline-interests-aimd.cpp:52`), and can
  leak a slot of the window through a segment queued twice (`:174`). With `--aimd-disable-cwa` and
  `--aimd-reset-cwnd-to-init` together, a window that starts at one and three retries, TLC finds a content of four
  segments for which the leaked slot is the whole window: a segment waits in the queue and nothing is
  pending. With one of the options alone or none, and with three segments, it found none. A segment beyond the end
  that was being retransmitted is not cancelled (`:416`), for its Interest's id was not
  stored, and comes back into the map when that Interest expires (`:329`). A second failure
  overwrites the segment of the first (`:381`).
* Cubic, too, counts a segment twice on a network that nacks or lets Interests expire.
* TcpBic uses members that are never initialised (`pipeline-interests-tcpbic.cpp:445`).
* The consumer does not stand a second copy (`consumer.cpp:98`), which the
  contract allows (`pipeline-interests.hpp:106-107`).
* The congestion backoff of DataFetcher never grows, since `expressInterest()`
  resets the count (`data-fetcher.cpp:86`).
* The iterative discovery sends the same Interest again after another
  application's Data (`discover-version-iterative.cpp:99`), for ever if it is
  answered so; after one of them it can settle for an older version than one that answered (`:94`); and a Nack
  that uses up the retries fails it although a version was found.
* `ndncatchunks` passes `--retries` and `--lifetime` to the discovery and to the fixed window only.
* `ndnputchunks` exits with 0 when its registration fails.
* `ndnping`: the handler of a SIGQUIT that is in the queue when the waits are
  cancelled waits again, and the program with it (`ndn-ping.cpp:104`). The server
  throws a string, which nobody catches, when its registration fails (`ping-server.cpp:89`), and goes on
  when it is interrupted during a registration that the library does not withdraw.
* The PIB answers the default identity of a user who has none with the reserved
  name instead of an error (`default-query-processor.cpp:81`); does not refuse rows of that name
  (`update-query-processor.cpp:189`), so that a key stored as `NON_EXISTING_KEY` is the default of
  every identity without one (`default-query-processor.cpp:121`); takes the default options 4 to 6, which have the
  user's bit, for others than `DEFAULT_OPT_USER` when it looks at permissions (`update-query-processor.cpp:246`);
  answers an update of an existing
  key with other bits with success and changes nothing (`pib-db.cpp:590`), which is why `ReadsOwnWrites` leaves
  the bits out; lets the cache of replies grow without end (`pib.cpp:275`); and loses the
  handle of a prefix when a registration fails late (`cert-publisher.cpp:80`).

## 6. Not modelled, and the plan

* RttEstimator and RateEstimator: floating-point computations whose results only
  say when a timer fires, and any moment is possible here already. The Aimd
  component is marked as partly modelled for `checkRate()` and the samples of them.
* ndnpeek and ndnpoke: one Interest or one Data and an exit code; no state that outlives it.
* ndndump, ndn-dissect, the Wireshark dissector: stateless printing.
* In the PIB: the cache of replies, which nothing reads; the late results of the
  publisher's registrations, which depend on how the library withdraws one that is
  pending; the TPM behind the locator and the constructor's checks.
* Command lines, statistics collectors, the Tracer, version numbers.

What could come next:

1. `NothingForgotten` when discovery did not see the end, under a condition weaker than that
   `m_failedSegNo` is 0. The one execution known to matter is a late Nack of an erased segment.
2. The condition `AtMostOnce` of the consumer's theorems, from a pipeline composed with the
   consumer: the fixed window satisfies it (`HandsOverOnce`), and AIMD until a segment is retransmitted a second time.
3. The registrations of the certificate publisher, with their late results, and with them the
   hazard at `cert-publisher.cpp:80`.
4. Liveness by hand, as well-founded orders on the states (`Termination` of the fixed window:
   the segments left and the retries left), of which a prover can check that each step decreases them.
