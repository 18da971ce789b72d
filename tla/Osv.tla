---------------------------------- MODULE Osv ----------------------------------
(***************************************************************************)
(* The CVEs of the Wazuh server itself (endpoints/osv.py): its packages are   *)
(* asked of OSV in batches, an id that does not name its CVE is fetched for   *)
(* its aliases by a pool of threads, and each package whose ids are all known *)
(* is cached for later scans. A scan either has every package or leaves the   *)
(* server unscored.                                                           *)
(***************************************************************************)
EXTENDS Naturals, Sequences, FiniteSets

CONSTANTS
  ServerPackages,  \* the packages of the server
  OsvStates,       \* what OSV may hold: the vulnerability ids of each package
  AliasesOf,       \* the CVEs the record of each id names
  Direct,          \* the ids that name their CVE themselves
  OsvBatch,        \* BATCH
  OsvFresh,        \* FRESH, in ticks
  OsvTicksMax      \* how many ticks are played

ASSUME OsvAssumption == OsvFresh \in Nat \ {0} /\ OsvBatch \in Nat \ {0} /\ OsvTicksMax \in Nat \ {0}

VARIABLES
  advisories,  \* what OSV has held, tick by tick; the last is now
  osvFile,     \* osv-cache.json: of a package its CVEs and the tick they are of
  asking,      \* match(): where it is, what is asked, and what has come
  server       \* what the scan says of the server

osvVars == <<advisories, osvFile, asking, server>>

ThisTick == Len(advisories)
NoRowsYet == << >>
Resting == [at |-> "idle", todo |-> {}, found |-> NoRowsYet, ids |-> NoRowsYet, resolved |-> {}, waiting |-> {}]
WithoutCves == [status |-> "unscored", cves |-> NoRowsYet, warned |-> TRUE]

OsvInit == /\ advisories \in {<<o>> : o \in OsvStates}
           /\ osvFile = NoRowsYet /\ asking = Resting /\ server = WithoutCves

\* Cache: an entry of the same tick or of the ticks before it counts, unless the file cannot be read.
IsCurrent(entry) == ThisTick - entry.of < OsvFresh
OsvStarts ==
  /\ asking.at = "idle" /\ server.status = "unscored"
  /\ \E file \in {osvFile, NoRowsYet} :
       LET current == {p \in ServerPackages \cap DOMAIN file : IsCurrent(file[p])}
       IN /\ osvFile' = file
          /\ asking' = [Resting EXCEPT !.at = "querying",
                                    !.found = [p \in current |-> file[p].cves],
                                    !.todo = ServerPackages \ current]
  /\ UNCHANGED <<advisories, server>>

\* query: one batch after another.
AnswersBatch ==
  /\ asking.at = "querying"
  /\ \E chunk \in SUBSET asking.todo :
       /\ chunk # {} /\ IF chunk = asking.todo THEN Cardinality(chunk) <= OsvBatch ELSE Cardinality(chunk) = OsvBatch
       /\ asking' = [asking EXCEPT !.todo = asking.todo \ chunk,
                        !.ids = [p \in DOMAIN asking.ids \cup chunk |->
                                   IF p \in chunk THEN advisories[ThisTick][p] ELSE asking.ids[p]]]
  /\ UNCHANGED <<advisories, osvFile, server>>

\* The ids of all batches: those that name their CVE are known, the others are fetched.
FetchesAliases ==
  /\ asking.at = "querying" /\ asking.todo = {}
  /\ LET every == UNION {asking.ids[p] : p \in DOMAIN asking.ids}
     IN asking' = [asking EXCEPT !.at = "fetching", !.resolved = every \cap Direct, !.waiting = every \ Direct]
  /\ UNCHANGED <<advisories, osvFile, server>>

AnswersAlias(id) ==
  /\ asking.at \in {"fetching", "failed"} /\ id \in asking.waiting
  /\ asking' = [asking EXCEPT !.waiting = @ \ {id}, !.resolved = @ \cup {id}]
  /\ UNCHANGED <<advisories, osvFile, server>>

\* No answer, an unexpected one, or no time left. Fetches that were on their way still end.
OsvFails ==
  /\ asking.at \in {"querying", "fetching"} /\ (asking.at = "querying" => asking.todo # {})
  /\ asking.at = "fetching" => asking.waiting # {}
  /\ asking' = [asking EXCEPT !.at = "failed"]
  /\ UNCHANGED <<advisories, osvFile, server>>

\* Whatever happened, the packages whose ids are all resolved are cached; but only with all of them is the server
\* scored, and no longer listed as not yet inventoried.
BugIsWhole(p) == asking.ids[p] = {} \/ asking.ids[p] \cap asking.resolved # {}
IsWhole(p) == asking.ids[p] \subseteq asking.resolved
CvesOf(p) == UNION {AliasesOf[id] : id \in asking.ids[p] \cap asking.resolved}
OsvSettles ==
  /\ asking.at = "failed" \/ (asking.at = "fetching" /\ asking.waiting = {})
  /\ LET whole == {p \in DOMAIN asking.ids : IsWhole(p)}
         found == [p \in DOMAIN asking.found \cup whole |-> IF p \in whole THEN CvesOf(p) ELSE asking.found[p]]
     IN /\ osvFile' = [p \in DOMAIN osvFile \cup whole |-> IF p \in whole THEN [cves |-> CvesOf(p), of |-> ThisTick] ELSE osvFile[p]]
        /\ server' = IF asking.at = "failed" THEN [WithoutCves EXCEPT !.status = "unavailable"]
                     ELSE [status |-> "ok", cves |-> found, warned |-> FALSE]
  /\ asking' = Resting
  /\ UNCHANGED advisories

\* The package list is not read, or its release is not one OSV has.
PassesServerOver ==
  /\ asking.at = "idle" /\ server.status = "unscored"
  /\ \E status \in {"unavailable", "skipped"} : server' = [WithoutCves EXCEPT !.status = status]
  /\ UNCHANGED <<advisories, osvFile, asking>>

\* A scan that is killed leaves the file as it was; the next scan begins with a server that is not scored.
OsvScanDies ==
  /\ asking.at # "idle"
  /\ asking' = Resting
  /\ UNCHANGED <<advisories, osvFile, server>>
NextScan ==
  /\ server.status # "unscored"
  /\ server' = WithoutCves
  /\ UNCHANGED <<advisories, osvFile, asking>>

OsvTicks ==
  /\ ThisTick < OsvTicksMax /\ asking.at = "idle"
  /\ \E o \in OsvStates : advisories' = Append(advisories, o)
  /\ server' = WithoutCves
  /\ UNCHANGED <<osvFile, asking>>

OsvNext ==
  \/ OsvStarts \/ AnswersBatch \/ FetchesAliases \/ OsvFails \/ OsvSettles \/ PassesServerOver \/ OsvScanDies \/ NextScan
  \/ OsvTicks
  \/ \E id \in asking.waiting : AnswersAlias(id)
OsvSpec == OsvInit /\ [][OsvNext]_osvVars
-----------------------------------------------------------------------------
\* Properties.

\* The CVEs OSV named for a package at a tick.
Named(p, t) == UNION {AliasesOf[id] : id \in advisories[t][p]}

\* A cached package has all the CVEs OSV named for it when it was asked, however the fetches of that scan ended, and
\* a server is scored only with every package, each with all OSV named within FRESH (osv.py:30-33).
ServerHasItsCves ==
  /\ \A p \in DOMAIN osvFile : osvFile[p].cves = Named(p, osvFile[p].of)
  /\ server.status = "ok" =>
       /\ DOMAIN server.cves = ServerPackages
       /\ \A p \in ServerPackages : \E t \in 1..ThisTick : ThisTick - t < OsvFresh /\ server.cves[p] = Named(p, t)
  /\ server.warned = (server.status # "ok")
=============================================================================
