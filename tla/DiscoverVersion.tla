-------------------------- MODULE DiscoverVersion --------------------------
(***************************************************************************)
(* tools/chunks/catchunks/discover-version*.cpp: finding a Data of the     *)
(* content that ndncatchunks then retrieves.                               *)
(*                                                                         *)
(* "fixed" is given prefix and version, and excludes last components;      *)
(* "iterative" is given the prefix, and excludes components.               *)
(***************************************************************************)
EXTENDS VersionedNames

CONSTANTS MaxRetries,                    \* maxRetriesOnTimeoutOrNack
          MaxRetriesAfterVersionFound,
          MaxBackoffExp                  \* of DataFetcher

VARIABLES type,           \* "none" until main() has chosen, "fixed" or "iterative"
          wanted,         \* the version in the name that "fixed" is given
          fetcher,        \* the DataFetcher of the current Interest
          excluded,       \* the Exclude of that Interest
          strayExcludes,  \* m_strayExcludes
          foundVersion,   \* m_foundVersion
          found,          \* m_latestVersionData, for "fixed" the Data reported
          answered,       \* history: the versions that have answered
          signal          \* "none", or the signal emitted: "success", "failure"

discoveryVars == <<type, wanted, fetcher, excluded, strayExcludes, foundVersion, found,
                   answered, signal>>

Searching  == INSTANCE DataFetcher WITH MaxNackRetries <- MaxRetries, MaxTimeoutRetries <- MaxRetries
Confirming == INSTANCE DataFetcher WITH MaxNackRetries <- MaxRetries,
                                        MaxTimeoutRetries <- MaxRetriesAfterVersionFound

NoData == [comp |-> 0, seg |-> 0]

DiscoveryInit ==
  /\ type = "none" /\ wanted = 0
  /\ fetcher = Searching!NoFetcher
  /\ excluded = {} /\ strayExcludes = {}
  /\ foundVersion = FALSE
  /\ found = NoData
  /\ answered = {}
  /\ signal = "none"

\* run() of the discovery that main() has chosen
RunDiscovery(t, v) ==
  /\ type' = t /\ wanted' = v
  /\ fetcher' = Searching!Fetch(0)
  /\ UNCHANGED <<excluded, strayExcludes, foundVersion, found, answered, signal>>

\* what the current Interest asks for
Matches(d) == IF type = "fixed"
              THEN d.comp = wanted /\ d.seg \notin excluded
              ELSE d.comp \notin excluded

-----------------------------------------------------------------------------
FixedHandleData_AsksOn(d) ==   \* mutant: a segment is reported and the Interest sent again
  /\ type = "fixed"
  /\ found' = d
  /\ signal' = IF IsSegment(d.seg) THEN "success" ELSE signal
  /\ strayExcludes' = IF IsSegment(d.seg) THEN strayExcludes ELSE strayExcludes \cup {d.seg}
  /\ excluded' = strayExcludes'
  /\ fetcher' = Searching!Fetch(0)
  /\ UNCHANGED <<foundVersion, answered>>

\* DiscoverVersionFixed::handleData
FixedHandleData(d) ==
  /\ type = "fixed"
  /\ IF IsSegment(d.seg)
     THEN /\ found' = d
          /\ signal' = "success"
          /\ fetcher' = Searching!HandleData(fetcher)
          /\ UNCHANGED <<strayExcludes, excluded>>
     ELSE /\ strayExcludes' = strayExcludes \cup {d.seg}
          /\ excluded' = strayExcludes'
          /\ fetcher' = Searching!Fetch(0)
          /\ UNCHANGED <<found, signal>>
  /\ UNCHANGED <<foundVersion, answered>>

Before_Only(c) == {c}          \* mutant: the older versions are not excluded
Before_Open(c) == 0 .. c - 1   \* mutant: the version itself is not excluded
\* excludeBefore(c), which excludes c as well
Before(c) == 0 .. c

\* DiscoverVersionIterative::handleData: before a version was found the same
\* Interest is sent again, without the stray component among its excludes
IterativeHandleData(d) ==
  /\ type = "iterative"
  /\ IF IsVersion(d.comp)
     THEN /\ found' = d
          /\ foundVersion' = TRUE
          /\ answered' = answered \cup {d.comp}
          /\ excluded' = Before(d.comp) \cup strayExcludes
          /\ UNCHANGED strayExcludes
     ELSE /\ strayExcludes' = strayExcludes \cup {d.comp}
          /\ excluded' = IF foundVersion THEN strayExcludes' ELSE excluded
          /\ UNCHANGED <<found, foundVersion, answered>>
  /\ fetcher' = Searching!Fetch(0)
  /\ UNCHANGED signal

HandleData(d) ==
  /\ fetcher.phase = "pending" /\ Matches(d)
  /\ FixedHandleData(d) \/ IterativeHandleData(d)
  /\ UNCHANGED <<type, wanted>>

\* a Nack; the one that uses up the retries ends the discovery, also when a version was found
HandleNack(reason) ==
  /\ fetcher.phase = "pending"
  /\ fetcher' = Searching!HandleNack(fetcher, reason)
  /\ signal' = IF Searching!HasError(fetcher') THEN "failure" ELSE signal
  /\ UNCHANGED <<type, wanted, excluded, strayExcludes, foundVersion, found, answered>>

\* a lifetime expires; after the last retry the version found so far is the latest
OnTimeout(isFound) == IF isFound THEN "success" ELSE "failure"
HandleTimeout ==
  /\ fetcher.phase = "pending"
  /\ fetcher' = IF foundVersion THEN Confirming!HandleTimeout(fetcher)
                                ELSE Searching!HandleTimeout(fetcher)
  /\ signal' = IF Searching!HasError(fetcher') THEN OnTimeout(foundVersion) ELSE signal
  /\ UNCHANGED <<type, wanted, excluded, strayExcludes, foundVersion, found, answered>>

\* the end of a backoff after a congestion Nack
BackoffEnds ==
  /\ fetcher.phase = "backoff"
  /\ fetcher' = Searching!ExpressInterest(fetcher)
  /\ UNCHANGED <<type, wanted, excluded, strayExcludes, foundVersion, found, answered, signal>>

-----------------------------------------------------------------------------
\* another Data than a version's has answered before any version was found
StrayBeforeVersion(d) == HandleData(d) /\ ~foundVersion /\ ~foundVersion' /\ type = "iterative"
============================================================================
