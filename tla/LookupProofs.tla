---------------------------- MODULE LookupProofs ----------------------------
(***************************************************************************)
(* Proofs about what a scan asks of others and keeps for the next one: the *)
(* threat feeds, for any number of publications; the CVEs of the Wazuh     *)
(* server, for any packages, ids and batches; NVD, for any devices,        *)
(* budget, waits and cache times; the fetches of CVE records, for any CVEs *)
(* and any pool; and the sweep of the Wazuh Manager and Indexer, for any   *)
(* agents, documents and sizes of a page.                                  *)
(***************************************************************************)
EXTENDS Caches, Nvd, CveRecords, Wazuh, FiniteSetTheorems, SequenceTheorems, TLAPS

-----------------------------------------------------------------------------
(* feeds.py, load_feed: the copy on disk is the newest version stored, and *)
(* what the last scan scored with.                                         *)
FeedsInv == stored # 0 => copy = stored /\ scored = stored

(* A download that fails, in whatever way, never takes threat data away or *)
(* turns it back (feeds.py:119-155).                                       *)
THEOREM FeedsKeepThreatData == FeedsSpec => []ThreatDataIsKept
<1>1. FeedsInit => FeedsInv
  BY DEF FeedsInit, FeedsInv
<1>2. FeedsInv /\ [FeedsNext]_feedsVars => FeedsInv'
  <2> SUFFICES ASSUME FeedsInv, [FeedsNext]_feedsVars PROVE FeedsInv'
    OBVIOUS
  <2>1. CASE ReadsFreshCopy
    BY <2>1 DEF FeedsInv, ReadsFreshCopy
  <2>2. CASE Downloads
    BY <2>2 DEF FeedsInv, Downloads
  <2>3. CASE FailsToDownload
    BY <2>3 DEF FeedsInv, FailsToDownload
  <2>4. CASE IsPublished \/ TimePasses
    BY <2>4 DEF FeedsInv, IsPublished, TimePasses
  <2>5. CASE IsDamaged
    BY <2>5 DEF FeedsInv, IsDamaged
  <2>6. CASE UNCHANGED feedsVars
    BY <2>6 DEF FeedsInv, feedsVars
  <2> QED
    BY <2>1, <2>2, <2>3, <2>4, <2>5, <2>6 DEF FeedsNext
<1>3. FeedsInv => ThreatDataIsKept
  BY DEF FeedsInv, ThreatDataIsKept
<1> QED
  BY <1>1, <1>2, <1>3, PTL DEF FeedsSpec

-----------------------------------------------------------------------------
(* osv.py, match: what has been asked and found so far, of which tick.     *)
Fields == {"at", "todo", "found", "ids", "resolved", "waiting"}
IsOf(cves, p, t) == t \in 1..ThisTick /\ cves = Named(p, t)

FileInv == \A p \in DOMAIN osvFile : IsOf(osvFile[p].cves, p, osvFile[p].of)

AskingInv ==
  /\ DOMAIN asking = Fields
  /\ asking.at = "idle" => asking = Resting
  /\ \A p \in DOMAIN asking.found :
       \E t \in 1..ThisTick : ThisTick - t < OsvFresh /\ asking.found[p] = Named(p, t)
  /\ \A p \in DOMAIN asking.ids : asking.ids[p] = advisories[ThisTick][p]
  /\ asking.at \in {"querying", "fetching"} =>
       DOMAIN asking.found \cup DOMAIN asking.ids \cup asking.todo = ServerPackages
  /\ asking.at = "fetching" =>
       /\ asking.todo = {}
       /\ \A p \in DOMAIN asking.ids : asking.ids[p] \subseteq asking.resolved \cup asking.waiting

ServerInv ==
  /\ server.status = "ok" =>
       /\ DOMAIN server.cves = ServerPackages
       /\ \A p \in ServerPackages : \E t \in 1..ThisTick : ThisTick - t < OsvFresh /\ server.cves[p] = Named(p, t)
  /\ server.warned = (server.status # "ok")

OsvInv == /\ advisories \in Seq(OsvStates) /\ advisories # << >>
          /\ FileInv /\ AskingInv /\ ServerInv

LEMMA TicksAreCounted ==
  ASSUME OsvInv PROVE ThisTick \in Nat \ {0}
BY DEF OsvInv, ThisTick

LEMMA RestingIsTrue ==
  ASSUME asking' = Resting PROVE AskingInv'
BY DEF Resting, NoRowsYet, AskingInv, Fields

LEMMA UnscoredIsTrue ==
  ASSUME NEW s \in {"unscored", "unavailable", "skipped"}, server' = [WithoutCves EXCEPT !.status = s]
  PROVE  ServerInv'
<1>1. server'.status = s /\ server'.warned = TRUE
  BY DEF WithoutCves
<1> QED
  BY <1>1 DEF ServerInv

LEMMA OsvBegins == OsvInit => OsvInv
<1> SUFFICES ASSUME OsvInit PROVE OsvInv
  OBVIOUS
<1>1. advisories \in Seq(OsvStates) /\ advisories # << >>
  <2>1. PICK o \in OsvStates : advisories = <<o>>
    BY DEF OsvInit
  <2> QED
    BY <2>1
<1>2. FileInv
  BY DEF OsvInit, NoRowsYet, FileInv
<1>3. AskingInv
  BY DEF OsvInit, Resting, NoRowsYet, AskingInv, Fields
<1>4. ServerInv
  BY DEF OsvInit, WithoutCves, ServerInv
<1> QED
  BY <1>1, <1>2, <1>3, <1>4 DEF OsvInv

-----------------------------------------------------------------------------
(* What is taken from the file is fresh, and the rest is asked.            *)
LEMMA StartKeeps == ASSUME OsvInv, OsvStarts PROVE OsvInv'
<1>1. PICK file \in {osvFile, NoRowsYet} :
        LET current == {p \in ServerPackages \cap DOMAIN file : IsCurrent(file[p])}
        IN /\ osvFile' = file
           /\ asking' = [Resting EXCEPT !.at = "querying", !.found = [p \in current |-> file[p].cves],
                                        !.todo = ServerPackages \ current]
  BY DEF OsvStarts
<1> DEFINE current == {p \in ServerPackages \cap DOMAIN file : IsCurrent(file[p])}
<1>2. UNCHANGED <<advisories, server>> /\ UNCHANGED ThisTick
  BY DEF OsvStarts, ThisTick
<1>3. \A p \in DOMAIN file : IsOf(file[p].cves, p, file[p].of)
  BY DEF OsvInv, FileInv, NoRowsYet
<1>4. FileInv'
  BY <1>1, <1>2, <1>3 DEF FileInv, IsOf, Named, ThisTick
<1>5. /\ DOMAIN asking' = Fields /\ asking'.at = "querying" /\ asking'.todo = ServerPackages \ current
      /\ asking'.ids = << >> /\ asking'.found = [p \in current |-> file[p].cves]
  BY <1>1 DEF Resting, NoRowsYet, Fields
<1>6. \A p \in current : \E t \in 1..ThisTick : ThisTick - t < OsvFresh /\ file[p].cves = Named(p, t)
  BY <1>3 DEF IsOf, IsCurrent
<1>7. AskingInv'
  <2>1. \A p \in DOMAIN asking'.found : asking'.found[p] = file[p].cves /\ p \in current
    BY <1>5
  <2>2. \A p, t : Named(p, t)' = Named(p, t)
    BY <1>2 DEF Named
  <2>3. \A p \in DOMAIN asking'.found :
          \E t \in 1..ThisTick' : ThisTick' - t < OsvFresh /\ asking'.found[p] = Named(p, t)'
    BY <1>2, <1>6, <2>1, <2>2
  <2>4. DOMAIN asking'.found \cup DOMAIN asking'.ids \cup asking'.todo = ServerPackages
    BY <1>5
  <2> QED
    BY <1>5, <2>3, <2>4 DEF AskingInv
<1>8. ServerInv'
  BY <1>2 DEF OsvInv, ServerInv, Named
<1> QED
  BY <1>2, <1>4, <1>7, <1>8 DEF OsvInv

(* A step of match() that neither settles nor ticks leaves the file and    *)
(* what the scan says of the server.                                       *)
LEMMA AsksOn ==
  ASSUME OsvInv, UNCHANGED <<advisories, osvFile, server>>, AskingInv'
  PROVE  OsvInv'
BY DEF OsvInv, FileInv, ServerInv, IsOf, Named, ThisTick

LEMMA BatchKeeps == ASSUME OsvInv, AnswersBatch PROVE OsvInv'
<1>1. PICK chunk \in SUBSET asking.todo :
        asking' = [asking EXCEPT !.todo = asking.todo \ chunk,
                     !.ids = [p \in DOMAIN asking.ids \cup chunk |->
                                IF p \in chunk THEN advisories[ThisTick][p] ELSE asking.ids[p]]]
  BY DEF AnswersBatch
<1>2. /\ UNCHANGED <<advisories, osvFile, server>> /\ UNCHANGED ThisTick
      /\ asking.at = "querying" /\ DOMAIN asking = Fields
  BY DEF AnswersBatch, ThisTick, OsvInv, AskingInv
<1>3. /\ DOMAIN asking' = Fields /\ asking'.at = asking.at /\ asking'.found = asking.found
      /\ asking'.todo = asking.todo \ chunk
      /\ asking'.ids = [p \in DOMAIN asking.ids \cup chunk |->
                          IF p \in chunk THEN advisories[ThisTick][p] ELSE asking.ids[p]]
  BY <1>1, <1>2 DEF Fields
<1>4. \A p \in DOMAIN asking'.ids : asking'.ids[p] = advisories'[ThisTick'][p]
  BY <1>2, <1>3 DEF OsvInv, AskingInv
<1>5. DOMAIN asking'.found \cup DOMAIN asking'.ids \cup asking'.todo = ServerPackages
  BY <1>2, <1>3 DEF OsvInv, AskingInv
<1>6. \A p, t : Named(p, t)' = Named(p, t)
  BY <1>2 DEF Named
<1>7. AskingInv'
  BY <1>2, <1>3, <1>4, <1>5, <1>6 DEF OsvInv, AskingInv
<1> QED
  BY <1>2, <1>7, AsksOn

LEMMA FetchKeeps == ASSUME OsvInv, FetchesAliases PROVE OsvInv'
<1> DEFINE every == UNION {asking.ids[p] : p \in DOMAIN asking.ids}
<1>1. /\ UNCHANGED <<advisories, osvFile, server>> /\ UNCHANGED ThisTick
      /\ asking.at = "querying" /\ asking.todo = {} /\ DOMAIN asking = Fields
  BY DEF FetchesAliases, ThisTick, OsvInv, AskingInv
<1>2. /\ DOMAIN asking' = Fields /\ asking'.at = "fetching" /\ asking'.found = asking.found
      /\ asking'.todo = asking.todo /\ asking'.ids = asking.ids
      /\ asking'.resolved = every \cap Direct /\ asking'.waiting = every \ Direct
  BY <1>1 DEF FetchesAliases, Fields
<1>3. \A p \in DOMAIN asking'.ids : asking'.ids[p] \subseteq asking'.resolved \cup asking'.waiting
  BY <1>2
<1>4. \A p, t : Named(p, t)' = Named(p, t)
  BY <1>1 DEF Named
<1>5. AskingInv'
  BY <1>1, <1>2, <1>3, <1>4 DEF OsvInv, AskingInv
<1> QED
  BY <1>1, <1>5, AsksOn

LEMMA AliasKeeps == ASSUME OsvInv, NEW id \in asking.waiting, AnswersAlias(id) PROVE OsvInv'
<1>1. /\ UNCHANGED <<advisories, osvFile, server>> /\ UNCHANGED ThisTick
      /\ DOMAIN asking = Fields /\ asking.at # "idle"
  BY DEF AnswersAlias, ThisTick, OsvInv, AskingInv
<1>2. /\ DOMAIN asking' = Fields /\ asking'.at = asking.at /\ asking'.found = asking.found
      /\ asking'.todo = asking.todo /\ asking'.ids = asking.ids
      /\ asking'.resolved = asking.resolved \cup {id} /\ asking'.waiting = asking.waiting \ {id}
  BY <1>1 DEF AnswersAlias, Fields
<1>3. \A p, t : Named(p, t)' = Named(p, t)
  BY <1>1 DEF Named
<1>4. AskingInv'
  BY <1>1, <1>2, <1>3 DEF OsvInv, AskingInv
<1> QED
  BY <1>1, <1>4, AsksOn

LEMMA FailKeeps == ASSUME OsvInv, OsvFails PROVE OsvInv'
<1>1. UNCHANGED <<advisories, osvFile, server>> /\ UNCHANGED ThisTick /\ DOMAIN asking = Fields
  BY DEF OsvFails, ThisTick, OsvInv, AskingInv
<1>2. /\ DOMAIN asking' = Fields /\ asking'.at = "failed" /\ asking'.found = asking.found
      /\ asking'.ids = asking.ids
  BY <1>1 DEF OsvFails, Fields
<1>3. \A p, t : Named(p, t)' = Named(p, t)
  BY <1>1 DEF Named
<1>4. AskingInv'
  BY <1>1, <1>2, <1>3 DEF OsvInv, AskingInv
<1> QED
  BY <1>1, <1>4, AsksOn

(* A package is cached only when the ids OSV gave for it are all resolved, *)
(* and with no fetch outstanding they are resolved for all.                *)
LEMMA WholeIsNamed ==
  ASSUME OsvInv, NEW p \in DOMAIN asking.ids, IsWhole(p)
  PROVE  CvesOf(p) = Named(p, ThisTick)
<1>1. asking.ids[p] \cap asking.resolved = asking.ids[p] /\ asking.ids[p] = advisories[ThisTick][p]
  BY DEF IsWhole, OsvInv, AskingInv
<1> QED
  BY <1>1 DEF CvesOf, Named

LEMMA SettleKeeps == ASSUME OsvInv, OsvSettles PROVE OsvInv'
<1> DEFINE whole == {p \in DOMAIN asking.ids : IsWhole(p)}
           results == [p \in DOMAIN asking.found \cup whole |-> IF p \in whole THEN CvesOf(p) ELSE asking.found[p]]
<1>1. /\ UNCHANGED advisories /\ UNCHANGED ThisTick /\ asking' = Resting
      /\ osvFile' = [p \in DOMAIN osvFile \cup whole |->
                       IF p \in whole THEN [cves |-> CvesOf(p), of |-> ThisTick] ELSE osvFile[p]]
  BY DEF OsvSettles, ThisTick
<1>2. \A p, t : Named(p, t)' = Named(p, t)
  BY <1>1 DEF Named
<1>3. \A p \in whole : CvesOf(p) = Named(p, ThisTick)
  BY WholeIsNamed
<1>4. FileInv'
  <2> SUFFICES ASSUME NEW p \in DOMAIN osvFile' PROVE IsOf(osvFile[p].cves, p, osvFile[p].of)'
    BY DEF FileInv
  <2>1. CASE p \in whole
    <3>1. osvFile'[p] = [cves |-> CvesOf(p), of |-> ThisTick]
      BY <1>1, <2>1
    <3> QED
      BY <1>1, <1>2, <1>3, <2>1, <3>1, TicksAreCounted DEF IsOf
  <2>2. CASE p \notin whole
    <3>1. p \in DOMAIN osvFile /\ osvFile'[p] = osvFile[p]
      BY <1>1, <2>2
    <3> QED
      BY <1>1, <1>2, <3>1 DEF OsvInv, FileInv, IsOf
  <2> QED
    BY <2>1, <2>2
<1>5. CASE asking.at = "failed"
  <2>1. server' = [WithoutCves EXCEPT !.status = "unavailable"]
    BY <1>5 DEF OsvSettles
  <2>2. ServerInv'
    BY <2>1, UnscoredIsTrue
  <2> QED
    BY <1>1, <1>4, <2>2, RestingIsTrue DEF OsvInv
<1>6. CASE asking.at = "fetching" /\ asking.waiting = {}
  <2>1. server' = [status |-> "ok", cves |-> results, warned |-> FALSE]
    BY <1>6 DEF OsvSettles
  <2>2. whole = DOMAIN asking.ids
    BY <1>6 DEF IsWhole, OsvInv, AskingInv
  <2>3. DOMAIN results = ServerPackages
    BY <1>6, <2>2 DEF OsvInv, AskingInv
  <2>4. ASSUME NEW p \in ServerPackages
        PROVE  \E t \in 1..ThisTick : ThisTick - t < OsvFresh /\ results[p] = Named(p, t)
    <3>1. CASE p \in whole
      BY <1>3, <2>3, <3>1, TicksAreCounted, OsvAssumption
    <3>2. CASE p \notin whole
      <4>1. p \in DOMAIN asking.found /\ results[p] = asking.found[p]
        BY <2>3, <3>2
      <4> QED
        BY <4>1 DEF OsvInv, AskingInv
    <3> QED
      BY <3>1, <3>2
  <2>5. ServerInv'
    <3>1. server'.status = "ok" /\ server'.cves = results /\ server'.warned = FALSE
      BY <2>1
    <3> HIDE DEF results
    <3> QED
      BY <1>1, <1>2, <2>3, <2>4, <3>1 DEF ServerInv
  <2> QED
    BY <1>1, <1>4, <2>5, RestingIsTrue DEF OsvInv
<1> QED
  BY <1>5, <1>6 DEF OsvSettles

-----------------------------------------------------------------------------
LEMMA PassesOverKeeps == ASSUME OsvInv, PassesServerOver \/ NextScan PROVE OsvInv'
<1>1. UNCHANGED <<advisories, osvFile, asking>> /\ UNCHANGED ThisTick
  BY DEF PassesServerOver, NextScan, ThisTick
<1>2. \A p, t : Named(p, t)' = Named(p, t)
  BY <1>1 DEF Named
<1>3. ServerInv'
  <2>1. CASE PassesServerOver
    BY <2>1, UnscoredIsTrue DEF PassesServerOver
  <2>2. CASE NextScan
    BY <2>2 DEF NextScan, WithoutCves, ServerInv
  <2> QED
    BY <2>1, <2>2
<1>4. FileInv' /\ AskingInv'
  BY <1>1, <1>2 DEF OsvInv, FileInv, AskingInv, IsOf
<1> QED
  BY <1>1, <1>3, <1>4 DEF OsvInv

LEMMA DiesKeeps == ASSUME OsvInv, OsvScanDies PROVE OsvInv'
BY RestingIsTrue, AsksOn DEF OsvScanDies

(* What OSV held at the ticks before stays what it was.                    *)
LEMMA TickKeeps == ASSUME OsvInv, OsvTicks PROVE OsvInv'
<1>1. PICK o \in OsvStates : advisories' = Append(advisories, o)
  BY DEF OsvTicks
<1>2. /\ advisories' \in Seq(OsvStates) /\ advisories' # << >> /\ Len(advisories') = Len(advisories) + 1
      /\ \A t \in 1..ThisTick : advisories'[t] = advisories[t]
  BY <1>1 DEF OsvInv, ThisTick
<1>3. \A p : \A t \in 1..ThisTick : Named(p, t)' = Named(p, t)
  BY <1>2 DEF Named
<1>4. ThisTick' = ThisTick + 1
  BY <1>2 DEF ThisTick
<1>5. FileInv'
  <2>1. osvFile' = osvFile
    BY DEF OsvTicks
  <2> QED
    BY <1>3, <1>4, <2>1, TicksAreCounted DEF OsvInv, FileInv, IsOf
<1>6. ServerInv'
  BY DEF OsvTicks, WithoutCves, ServerInv
<1>7. AskingInv'
  <2>1. asking' = Resting
    BY DEF OsvTicks, OsvInv, AskingInv
  <2> QED
    BY <2>1, RestingIsTrue
<1> QED
  BY <1>2, <1>5, <1>6, <1>7 DEF OsvInv

-----------------------------------------------------------------------------
(* The inductive invariant of match(): what is cached is whole, and what   *)
(* is found, known and still to ask are all the packages (osv.py:125-163). *)
THEOREM OsvAlways == OsvSpec => []OsvInv
<1>1. OsvInv /\ [OsvNext]_osvVars => OsvInv'
  <2> SUFFICES ASSUME OsvInv, [OsvNext]_osvVars PROVE OsvInv'
    OBVIOUS
  <2>1. CASE UNCHANGED osvVars
    BY <2>1 DEF OsvInv, FileInv, AskingInv, ServerInv, IsOf, Named, ThisTick, osvVars
  <2>2. CASE \/ OsvStarts \/ AnswersBatch \/ FetchesAliases \/ OsvFails
             \/ \E id \in asking.waiting : AnswersAlias(id)
    BY <2>2, StartKeeps, BatchKeeps, FetchKeeps, FailKeeps, AliasKeeps
  <2>3. CASE OsvSettles \/ PassesServerOver \/ OsvScanDies \/ NextScan \/ OsvTicks
    BY <2>3, SettleKeeps, PassesOverKeeps, DiesKeeps, TickKeeps
  <2> QED
    BY <2>1, <2>2, <2>3 DEF OsvNext
<1> QED
  BY OsvBegins, <1>1, PTL DEF OsvSpec

(* However a scan's questions to OSV end, a cached package has all the     *)
(* CVEs OSV named for it, and a server is scored with every package or not *)
(* at all (osv.py:152-163, 181-214).                                       *)
THEOREM ServerAlwaysHasItsCves == OsvSpec => []ServerHasItsCves
<1>1. OsvInv => ServerHasItsCves
  BY DEF OsvInv, FileInv, IsOf, ServerInv, ServerHasItsCves
<1> QED
  BY <1>1, OsvAlways, PTL

(* No failed answer takes from a scan what an earlier one has stored, nor  *)
(* scores it with half of what was asked (feeds.py:142, osv.py:152-163).   *)
THEOREM CachesAlwaysWhole == CachesSpec => []CachesStayWhole
<1>1. ThreatDataIsKept /\ ServerHasItsCves => CachesStayWhole
  BY DEF CachesStayWhole
<1> QED
  BY <1>1, FeedsKeepThreatData, ServerAlwaysHasItsCves, PTL DEF CachesSpec

-----------------------------------------------------------------------------
(* NVD: clocks, then the client, the cache, where the scan is.             *)
Clients == [spent : Nat, since : 0..Spacing, unreachable : BOOLEAN]
Entries == [fresh : Nat, data : {"none", "cves", "listed", "unlisted", "invalid"}]
Cached == [answers : [Queries -> Entries], rests : [Queries -> Nat]]
InFlight == sent \/ attempt # 1 \/ pages # 0

(* nvd.py:125-150: a request is sent within the budget, so that what it    *)
(* takes ends at most the grace after it; silence is remembered.           *)
ClientInv ==
  /\ client \in Clients
  /\ client.spent <= Budget + Grace
  /\ sent => client.spent < Budget
  /\ silent => client.unreachable

(* cache.py:112-142: while a scan runs, a query rests in its cache at least*)
(* as long as in the file it was read from.                                *)
CacheInv ==
  /\ cache \in Cached /\ disk \in Cached
  /\ Scanning => \A q \in Queries : disk.rests[q] <= cache.rests[q]

AtInv ==
  /\ at \in [device : Nat, query : Nat]
  /\ AtDevice => at.query \in DOMAIN Devices[at.device]

(* lookup.py:59-86: a query that is being asked did not rest when it was   *)
(* first asked.                                                            *)
FlightInv ==
  /\ sent \in BOOLEAN /\ attempt \in Nat \ {0} /\ pages \in Nat
  /\ InFlight => AtDevice /\ disk.rests[Query] = 0

NvdInv == ClientInv /\ CacheInv /\ AtInv /\ FlightInv

-----------------------------------------------------------------------------
LEMMA Times ==
  /\ {Spacing, Timeout, Grace, Budget, MaxPages, RetryFailed, FreshFound, FreshEmpty} \subseteq Nat \ {0}
  /\ \A i \in 1..Len(Waits) : Waits[i] \in Nat
  /\ Len(Waits) \in Nat
  /\ Gaps \subseteq Nat
<1>1. Waits \in Seq(Nat)
  BY NvdAssumption
<1>2. Len(Waits) \in Nat /\ \A i \in 1..Len(Waits) : Waits[i] \in Nat
  BY <1>1
<1> QED
  BY <1>2, NvdAssumption

LEMMA DevicesHaveQueries ==
  /\ DOMAIN Devices = 1..Len(Devices) /\ Len(Devices) \in Nat
  /\ \A d \in DOMAIN Devices : /\ DOMAIN Devices[d] = 1..Len(Devices[d]) /\ Len(Devices[d]) \in Nat \ {0}
                                /\ \A i \in DOMAIN Devices[d] : Devices[d][i] \in Queries
<1>1. DOMAIN Devices = 1..Len(Devices) /\ Len(Devices) \in Nat /\ \A d \in DOMAIN Devices : Devices[d] \in Seq(STRING)
  BY NvdAssumption
<1>2. ASSUME NEW d \in DOMAIN Devices
      PROVE  DOMAIN Devices[d] = 1..Len(Devices[d]) /\ Len(Devices[d]) \in Nat \ {0}
  <2>1. Devices[d] \in Seq(STRING) /\ Devices[d] # <<>>
    BY <1>1, NvdAssumption
  <2> QED
    BY <2>1
<1>3. \A d \in DOMAIN Devices : \A i \in DOMAIN Devices[d] : Devices[d][i] \in Queries
  BY DEF Queries
<1> QED
  BY <1>1, <1>2, <1>3

LEMMA QueryIsOne == ASSUME AtInv, AtDevice PROVE Query \in Queries
BY DevicesHaveQueries DEF AtInv, AtDevice, Query

LEMMA LessIs ==
  ASSUME NEW a \in Nat, NEW b \in Nat
  PROVE  Less(a, b) \in Nat /\ Less(a, b) <= a /\ (a <= b => Less(a, b) = 0) /\ (a > b => Less(a, b) = a - b)
BY DEF Less

LEMMA LessOrdered ==
  ASSUME NEW a \in Nat, NEW b \in Nat, NEW t \in Nat, a <= b
  PROVE  Less(a, t) <= Less(b, t)
BY DEF Less

WithTimes(c, spent, since) == [c EXCEPT !.spent = spent, !.since = since]

LEMMA WithTimesIs ==
  ASSUME NEW c \in Clients, NEW spent \in Nat, NEW since \in 0..Spacing
  PROVE  /\ WithTimes(c, spent, since) \in Clients
         /\ WithTimes(c, spent, since).spent = spent /\ WithTimes(c, spent, since).since = since
         /\ WithTimes(c, spent, since).unreachable = c.unreachable
<1>1. WithTimes(c, spent, since) \in Clients
  BY DEF WithTimes, Clients
<1>2. WithTimes(c, spent, since).spent = spent /\ WithTimes(c, spent, since).since = since
  BY DEF WithTimes, Clients
<1>3. WithTimes(c, spent, since).unreachable = c.unreachable
  BY DEF WithTimes, Clients
<1> QED
  BY <1>1, <1>2, <1>3

LEMMA LeastIs ==
  ASSUME NEW a \in Nat, NEW b \in Nat
  PROVE  /\ Least(a, b) \in 0..b /\ Least(a, b) <= a
         /\ a <= b => Least(a, b) = a
         /\ a < b + 1 => Least(a, b + 1) = a
BY DEF Least

LEMMA LaterIs ==
  ASSUME NEW c \in Clients, NEW t \in Nat
  PROVE  /\ Later(c, t) \in Clients /\ Later(c, t).unreachable = c.unreachable
         /\ Later(c, t).spent <= c.spent + t
         /\ c.spent + t <= Budget + Grace => Later(c, t).spent = c.spent + t
<1>1. Spacing \in Nat /\ Budget \in Nat /\ Grace \in Nat
  BY Times
<1>2. c.spent \in Nat /\ c.since \in Nat
  BY <1>1 DEF Clients
<1> DEFINE sum == c.spent + t
             most == Budget + Grace
<1>3. sum \in Nat /\ most \in Nat /\ most + 1 \in Nat /\ c.since + t \in Nat
  BY <1>1, <1>2
<1>4. PICK spent \in Nat : spent = Least(sum, most + 1)
  <2> HIDE DEF sum, most
  <2> QED
    BY <1>3, LeastIs
<1>5. PICK since \in 0..Spacing : since = Least(c.since + t, Spacing)
  BY <1>1, <1>3, LeastIs
<1>6. Later(c, t) = WithTimes(c, spent, since)
  BY <1>4, <1>5 DEF Later, WithTimes
<1>7. spent <= sum /\ (sum <= most => spent = sum)
  <2> HIDE DEF sum, most
  <2>1. spent <= sum
    BY <1>3, <1>4, LeastIs
  <2>2. sum <= most => sum < most + 1
    BY <1>3
  <2> QED
    BY <1>3, <1>4, <2>1, <2>2, LeastIs
<1>8. /\ Later(c, t) \in Clients /\ Later(c, t).spent = spent /\ Later(c, t).since = since
      /\ Later(c, t).unreachable = c.unreachable
  BY <1>4, <1>5, <1>6, WithTimesIs
<1> QED
  BY <1>7, <1>8

LEMMA AgedIs ==
  ASSUME NEW c \in Cached, NEW t \in Nat
  PROVE  Aged(c, t) \in Cached /\ \A q \in Queries : Aged(c, t).rests[q] = Less(c.rests[q], t)
<1>1. \A q \in Queries : c.answers[q] \in Entries /\ c.rests[q] \in Nat
  BY DEF Cached
<1>2. \A e \in Entries : [e EXCEPT !.fresh = Less(@, t)] \in Entries
  BY DEF Entries, Less
<1>3. [q \in Queries |-> [c.answers[q] EXCEPT !.fresh = Less(@, t)]] \in [Queries -> Entries]
  BY <1>1, <1>2
<1>4. [q \in Queries |-> Less(c.rests[q], t)] \in [Queries -> Nat]
  BY <1>1, LessIs
<1> QED
  BY <1>3, <1>4 DEF Aged, Cached

LEMMA NoCacheIs == NoCache \in Cached /\ \A q \in Queries : NoCache.rests[q] = 0
BY DEF NoCache, NoAnswer, Cached, Entries

LEMMA NoClientIs == NoClient \in Clients /\ NoClient.spent = 0
<1>1. NoClient.spent = 0 /\ Spacing \in 0..Spacing
  BY Times DEF NoClient
<1> QED
  BY <1>1 DEF NoClient, Clients

-----------------------------------------------------------------------------
(* What a step does to the cache, to the place in the devices, and to the  *)
(* clocks.                                                                 *)
LEMMA RestIs ==
  ASSUME NEW c \in Cached, NEW q \in Queries, NEW r \in Nat
  PROVE  /\ [c EXCEPT !.rests[q] = r] \in Cached
         /\ [c EXCEPT !.rests[q] = r].rests = [c.rests EXCEPT ![q] = r]
BY DEF Cached

LEMMA EntryIs ==
  ASSUME NEW c \in Cached, NEW q \in Queries, NEW e \in Entries
  PROVE  [answers |-> [c.answers EXCEPT ![q] = e], rests |-> [c.rests EXCEPT ![q] = 0]] \in Cached
<1>1. c.answers \in [Queries -> Entries] /\ c.rests \in [Queries -> Nat]
  BY DEF Cached
<1>2. [c.answers EXCEPT ![q] = e] \in [Queries -> Entries] /\ [c.rests EXCEPT ![q] = 0] \in [Queries -> Nat]
  BY <1>1
<1> QED
  BY <1>2 DEF Cached

LEMMA AtDeviceScans == ASSUME AtInv, AtDevice PROVE Scanning
BY DevicesHaveQueries DEF AtInv, AtDevice, Scanning

LEMMA SettlesKeeps == ASSUME AtInv, AtDevice, NEW result, Settles(result) PROVE AtInv'
<1>1. at.device \in Nat /\ at'.device = at.device + 1 /\ at'.query = 1 /\ at' \in [device : Nat, query : Nat]
  BY DEF AtInv, Settles
<1> QED
  BY <1>1, DevicesHaveQueries DEF AtInv, AtDevice

LEMMA TakesKeeps == ASSUME AtInv, AtDevice, NEW data, Takes(data) PROVE AtInv'
<1>1. CASE \E result : Settles(result)
  BY <1>1, SettlesKeeps
<1>2. CASE at.query < Len(Devices[at.device]) /\ at' = [at EXCEPT !.query = @ + 1]
  <2>1. /\ at'.device = at.device /\ at'.query = at.query + 1 /\ at' \in [device : Nat, query : Nat]
        /\ at.query \in DOMAIN Devices[at.device] /\ at.device \in DOMAIN Devices
    BY <1>2 DEF AtInv, AtDevice
  <2> QED
    BY <1>2, <2>1, DevicesHaveQueries DEF AtInv, AtDevice
<1> QED
  BY <1>1, <1>2 DEF Takes

LEMMA OldAnswerKeeps == ASSUME AtInv, AtDevice, StaleOrUnanswered PROVE AtInv'
BY SettlesKeeps, TakesKeeps DEF StaleOrUnanswered

(* Time passes for the cache of the scan and for the file alike.           *)
LEMMA PassKeeps ==
  ASSUME CacheInv, Scanning, NEW t \in Nat, Passes(t), cache' = Aged(cache, t)
  PROVE  CacheInv' /\ \A q \in Queries : disk'.rests[q] = Less(disk.rests[q], t)
<1>1. /\ cache' \in Cached /\ disk' \in Cached
      /\ \A q \in Queries : /\ cache'.rests[q] = Less(cache.rests[q], t) /\ disk'.rests[q] = Less(disk.rests[q], t)
                            /\ cache.rests[q] \in Nat /\ disk.rests[q] \in Nat
  BY AgedIs DEF CacheInv, Passes, Cached
<1>2. \A q \in Queries : disk'.rests[q] <= cache'.rests[q]
  BY <1>1, LessOrdered DEF CacheInv
<1> QED
  BY <1>1, <1>2 DEF CacheInv

(* A query that does not rest in the file may rest anew, or be answered.   *)
LEMMA ChangeKeeps ==
  ASSUME CacheInv, Scanning, NEW t \in Nat, NEW q \in Queries, disk.rests[q] = 0, NEW r \in Nat, Passes(t),
         cache' \in Cached, cache'.rests = [Aged(cache, t).rests EXCEPT ![q] = r]
  PROVE  CacheInv'
<1>1. /\ disk' \in Cached /\ Aged(cache, t) \in Cached
      /\ \A p \in Queries : /\ Aged(cache, t).rests[p] = Less(cache.rests[p], t)
                            /\ disk'.rests[p] = Less(disk.rests[p], t)
                            /\ cache.rests[p] \in Nat /\ disk.rests[p] \in Nat
  <2>1. disk \in Cached /\ cache \in Cached /\ disk' = Aged(disk, t)
    BY DEF CacheInv, Passes
  <2>2. \A p \in Queries : cache.rests[p] \in Nat /\ disk.rests[p] \in Nat
    BY <2>1 DEF Cached
  <2> QED
    BY <2>1, <2>2, AgedIs
<1>2. ASSUME NEW p \in Queries PROVE disk'.rests[p] <= cache'.rests[p]
  <2>1. CASE p = q
    <3>1. cache'.rests[p] = r /\ r \in Nat
      BY <1>1, <2>1 DEF Cached
    <3>2. disk'.rests[p] = Less(0, t) /\ Less(0, t) = 0
      BY <1>1, <2>1, LessIs
    <3> QED
      BY <3>1, <3>2
  <2>2. CASE p # q
    <3>1. cache'.rests[p] = Less(cache.rests[p], t)
      BY <1>1, <2>2 DEF Cached
    <3> QED
      BY <1>1, <3>1, LessOrdered DEF CacheInv
  <2> QED
    BY <2>1, <2>2
<1> QED
  BY <1>1, <1>2 DEF CacheInv

LEMMA NextQueryRests == ASSUME NextQuery PROVE FlightInv'
<1>1. sent' = FALSE /\ attempt' = 1 /\ pages' = 0
  BY DEF NextQuery
<1>2. sent' \in BOOLEAN
  BY <1>1, Zenon
<1>3. attempt' \in Nat \ {0} /\ pages' \in Nat
  BY <1>1
<1>4. ~InFlight'
  BY <1>1 DEF InFlight
<1> QED
  BY <1>2, <1>3, <1>4 DEF FlightInv

LEMMA FailedKeeps ==
  ASSUME CacheInv, AtInv, AtDevice, disk.rests[Query] = 0, NEW t \in Nat, Failed(t)
  PROVE  CacheInv' /\ AtInv' /\ FlightInv'
<1>1. Aged(cache, t) \in Cached /\ Query \in Queries /\ RetryFailed \in Nat /\ Scanning
  BY AgedIs, QueryIsOne, Times, AtDeviceScans DEF CacheInv
<1>2. cache' \in Cached /\ cache'.rests = [Aged(cache, t).rests EXCEPT ![Query] = RetryFailed]
  BY <1>1, RestIs DEF Failed
<1> QED
  BY <1>1, <1>2, ChangeKeeps, OldAnswerKeeps, NextQueryRests DEF Failed

LEMMA OutOfBudgetKeeps ==
  ASSUME CacheInv, AtInv, AtDevice, NEW t \in Nat, OutOfBudget(t)
  PROVE  CacheInv' /\ AtInv' /\ FlightInv'
BY PassKeeps, OldAnswerKeeps, NextQueryRests, AtDeviceScans DEF OutOfBudget

LEMMA AnsweredKeeps ==
  ASSUME CacheInv, AtInv, AtDevice, disk.rests[Query] = 0, NEW t \in Nat,
         NEW data \in {"cves", "listed", "unlisted", "invalid"}, Answered(data, t)
  PROVE  CacheInv' /\ AtInv' /\ FlightInv'
<1>1. Aged(cache, t) \in Cached /\ Query \in Queries /\ Scanning
  BY AgedIs, QueryIsOne, AtDeviceScans DEF CacheInv
<1>2. PICK e \in Entries : cache' = [answers |-> [Aged(cache, t).answers EXCEPT ![Query] = e],
                                     rests |-> [Aged(cache, t).rests EXCEPT ![Query] = 0]]
  <2> DEFINE fresh == IF data \in {"unlisted", "invalid"} THEN FreshEmpty ELSE FreshFound
  <2>1. [fresh |-> fresh, data |-> data] \in Entries
    BY Times DEF Entries
  <2>2. cache' = [answers |-> [Aged(cache, t).answers EXCEPT ![Query] = [fresh |-> fresh, data |-> data]],
                  rests |-> [Aged(cache, t).rests EXCEPT ![Query] = 0]]
    BY DEF Answered
  <2> QED
    BY <2>1, <2>2
<1>3. cache' \in Cached /\ cache'.rests = [Aged(cache, t).rests EXCEPT ![Query] = 0]
  BY <1>1, <1>2, EntryIs
<1> QED
  BY <1>1, <1>3, ChangeKeeps, TakesKeeps, NextQueryRests DEF Answered

(* The next request of the same query.                                     *)
LEMMA GoesOnKeeps ==
  ASSUME CacheInv, AtInv, AtDevice, disk.rests[Query] = 0, NEW t \in Nat, GoesOn(t),
         sent' \in BOOLEAN, attempt' \in Nat \ {0}, pages' \in Nat
  PROVE  CacheInv' /\ AtInv' /\ FlightInv'
<1>1. UNCHANGED at /\ Passes(t) /\ cache' = Aged(cache, t) /\ Scanning /\ Query \in Queries
  BY AtDeviceScans, QueryIsOne DEF GoesOn
<1>2. CacheInv' /\ disk'.rests[Query] = Less(0, t)
  BY <1>1, PassKeeps
<1>3. AtDevice' /\ Query' = Query /\ Less(0, t) = 0
  BY <1>1, LessIs DEF AtDevice, Query
<1> QED
  BY <1>1, <1>2, <1>3 DEF AtInv, FlightInv, AtDevice

(* nvd.py:144-150: a request that was sent within the budget ends at most  *)
(* the grace after it.                                                     *)
LEMMA TakingsEnd ==
  ASSUME ClientInv, sent, NEW t \in Takings
  PROVE  t \in Nat /\ client.spent + t <= Budget + Grace
<1>1. client.spent \in Nat /\ client.spent < Budget
  BY DEF ClientInv, Clients
<1>2. Budget \in Nat /\ Grace \in Nat /\ Timeout \in Nat
  BY Times
<1>3. Remaining(0) = Budget - client.spent
  BY <1>1, <1>2 DEF Remaining, Less
<1> QED
  BY <1>1, <1>2, <1>3 DEF Takings, Least

LEMMA ClientRuns ==
  ASSUME ClientInv, NEW t \in Nat, client.spent + t <= Budget + Grace, client' = Later(client, t), ~sent',
         UNCHANGED silent
  PROVE  ClientInv'
BY LaterIs DEF ClientInv

-----------------------------------------------------------------------------
(* Every action keeps it: first those of no request, then asking, then the *)
(* answers.                                                                *)
LEMMA NvdBegins == NvdInit => NvdInv
<1> SUFFICES ASSUME NvdInit PROVE NvdInv
  OBVIOUS
<1>1. AtInv /\ ~Scanning
  <2>1. at = [device |-> 0, query |-> 0]
    BY DEF NvdInit, NotAt
  <2> QED
    BY <2>1, DevicesHaveQueries DEF AtInv, AtDevice, Scanning
<1>2. ClientInv
  BY NoClientIs, Times DEF NvdInit, ClientInv
<1>3. CacheInv
  BY <1>1, NoCacheIs DEF NvdInit, CacheInv
<1>4. FlightInv
  <2>1. sent = FALSE /\ attempt = 1 /\ pages = 0
    BY DEF NvdInit
  <2>2. sent \in BOOLEAN
    BY <2>1, Zenon
  <2>3. attempt \in Nat \ {0} /\ pages \in Nat /\ ~InFlight
    BY <2>1 DEF InFlight
  <2> QED
    BY <2>2, <2>3 DEF FlightInv
<1> QED
  BY <1>1, <1>2, <1>3, <1>4 DEF NvdInv

(* Between two scans nothing is in flight.                                 *)
LEMMA IdleHasNoFlight ==
  ASSUME AtInv, FlightInv, ~AtDevice, UNCHANGED <<sent, attempt, pages>>
  PROVE  ~sent /\ ~sent' /\ FlightInv'
BY DEF FlightInv, InFlight

LEMMA NotAtIs == ASSUME at' = NotAt PROVE AtInv' /\ ~Scanning'
<1>1. at' = [device |-> 0, query |-> 0]
  BY DEF NotAt
<1> QED
  BY <1>1, DevicesHaveQueries DEF AtInv, AtDevice, Scanning

LEMMA ElapseKeeps == ASSUME NvdInv, NEW gap \in Gaps, Elapse(gap) PROVE NvdInv'
<1>1. ~Scanning /\ ~AtDevice /\ gap \in Nat
  BY AtDeviceScans, Times DEF Elapse, NvdInv
<1>2. FlightInv'
  BY <1>1, IdleHasNoFlight DEF Elapse, NvdInv
<1>3. CacheInv'
  BY <1>1, AgedIs DEF Elapse, NvdInv, CacheInv, Scanning
<1>4. ClientInv' /\ AtInv'
  BY DEF Elapse, NvdInv, ClientInv, AtInv, AtDevice
<1> QED
  BY <1>2, <1>3, <1>4 DEF NvdInv

LEMMA StartsKeeps == ASSUME NvdInv, ScanStarts PROVE NvdInv'
<1>1. ~Scanning /\ ~AtDevice
  BY AtDeviceScans DEF ScanStarts, NvdInv
<1>2. ~sent' /\ FlightInv'
  BY <1>1, IdleHasNoFlight DEF ScanStarts, NvdInv
<1>3. at'.device = 1 /\ at'.query = 1 /\ at' \in [device : Nat, query : Nat]
  BY DEF ScanStarts
<1>4. AtInv'
  BY <1>3, DevicesHaveQueries DEF AtInv, AtDevice
<1>5. ClientInv'
  BY <1>2, NoClientIs, Times DEF ScanStarts, ClientInv
<1>6. CacheInv'
  <2>1. CASE cache' = disk /\ UNCHANGED disk
    BY <2>1 DEF NvdInv, CacheInv, Cached
  <2>2. CASE cache' = NoCache /\ disk' = NoCache
    BY <2>2, NoCacheIs DEF CacheInv
  <2> QED
    BY <2>1, <2>2 DEF ScanStarts
<1> QED
  BY <1>2, <1>4, <1>5, <1>6 DEF NvdInv

LEMMA EndsKeeps == ASSUME NvdInv, ScanEnds PROVE NvdInv'
<1>1. ~AtDevice
  BY DevicesHaveQueries DEF ScanEnds, AtDevice
<1>2. ~sent' /\ FlightInv'
  BY <1>1, IdleHasNoFlight DEF ScanEnds, NvdInv
<1>3. AtInv' /\ ~Scanning'
  BY NotAtIs DEF ScanEnds
<1>4. ClientInv'
  BY <1>2, NoClientIs, Times DEF ScanEnds, ClientInv
<1>5. CacheInv'
  BY <1>3, NoCacheIs DEF ScanEnds, NvdInv, CacheInv
<1> QED
  BY <1>2, <1>3, <1>4, <1>5 DEF NvdInv

LEMMA ScanDiesKeeps == ASSUME NvdInv, ScanDies PROVE NvdInv'
<1>1. AtInv' /\ ~Scanning'
  BY NotAtIs DEF ScanDies
<1>2. ClientInv'
  BY NoClientIs, Times DEF ScanDies, ClientInv
<1>3. CacheInv'
  BY <1>1, NoCacheIs DEF ScanDies, NvdInv, CacheInv
<1>4. FlightInv'
  BY NextQueryRests DEF ScanDies, NextQuery
<1> QED
  BY <1>1, <1>2, <1>3, <1>4 DEF NvdInv

LEMMA CacheAnswersKeeps == ASSUME NvdInv, AnsweredByTheCache PROVE NvdInv'
<1>1. AtDevice /\ ~InFlight /\ UNCHANGED <<cache, disk, client, sent, attempt, pages, silent>>
  BY DEF AnsweredByTheCache, ToAsk, InFlight
<1>2. AtInv'
  BY <1>1, OldAnswerKeeps, TakesKeeps DEF AnsweredByTheCache, NvdInv
<1>3. CacheInv'
  BY <1>1, AtDeviceScans DEF NvdInv, CacheInv
<1>4. ClientInv'
  BY <1>1 DEF NvdInv, ClientInv
<1>5. FlightInv'
  BY <1>1 DEF NvdInv, FlightInv, InFlight
<1> QED
  BY <1>2, <1>3, <1>4, <1>5 DEF NvdInv

-----------------------------------------------------------------------------
(* A query that is asked does not rest in the file.                        *)
LEMMA AskedDoesNotRest ==
  ASSUME CacheInv, AtInv, FlightInv, AtDevice, ToAsk => cache.rests[Query] = 0
  PROVE  disk.rests[Query] = 0
<1>1. CASE InFlight
  BY <1>1 DEF FlightInv
<1>2. CASE ~InFlight
  <2>1. ToAsk /\ Query \in Queries /\ Scanning
    BY <1>2, QueryIsOne, AtDeviceScans DEF ToAsk, InFlight
  <2>2. disk.rests[Query] \in Nat /\ disk.rests[Query] <= cache.rests[Query]
    BY <2>1 DEF CacheInv, Cached
  <2> QED
    BY <2>1, <2>2
<1> QED
  BY <1>1, <1>2

LEMMA WaitIs ==
  ASSUME ClientInv
  PROVE  /\ ToWait \in Nat /\ client.since + ToWait = Spacing /\ client.spent \in Nat /\ Remaining(0) \in Nat
         /\ (ToWait > 0 => ToWait <= Remaining(0)) => client.spent + ToWait <= Budget + Grace
         /\ Remaining(ToWait) > 0 => client.spent + ToWait < Budget
<1>1. client.spent \in Nat /\ client.since \in 0..Spacing /\ client.spent <= Budget + Grace
  BY DEF ClientInv, Clients
<1>2. Spacing \in Nat /\ Budget \in Nat /\ Grace \in Nat
  BY Times
<1> QED
  BY <1>1, <1>2 DEF ToWait, Remaining, Less

(* nvd.py:125-141: the client when a request is sent.                      *)
LEMMA SendsKeeps ==
  ASSUME ClientInv, ~client.unreachable, NEW t \in Nat, client.spent + t < Budget,
         client' = [Later(client, t) EXCEPT !.since = 0], UNCHANGED silent
  PROVE  ClientInv' /\ client'.spent = client.spent + t /\ client'.spent < Budget
<1>1. PICK c \in Clients : c = Later(client, t)
  BY LaterIs DEF ClientInv
<1>2. c.unreachable = client.unreachable /\ c.spent = client.spent + t
  BY <1>1, LaterIs, Times DEF ClientInv, Clients
<1>3. client' = WithTimes(c, c.spent, 0)
  BY <1>1 DEF WithTimes, Clients
<1>4. c.spent \in Nat /\ 0 \in 0..Spacing
  BY <1>1, Times DEF Clients
<1>5. client' \in Clients /\ client'.spent = c.spent /\ client'.unreachable = c.unreachable
  <2>1. /\ WithTimes(c, c.spent, 0) \in Clients /\ WithTimes(c, c.spent, 0).spent = c.spent
        /\ WithTimes(c, c.spent, 0).unreachable = c.unreachable
    BY <1>1, <1>4, WithTimesIs
  <2> QED
    BY <1>3, <2>1
<1>6. Budget \in Nat /\ Grace \in Nat /\ c.spent < Budget
  BY <1>2, Times
<1>7. client'.spent <= Budget + Grace
  BY <1>4, <1>5, <1>6
<1> QED
  BY <1>2, <1>5, <1>6, <1>7 DEF ClientInv

LEMMA AsksKeeps ==
  ASSUME NvdInv, Asks
  PROVE  /\ NvdInv'
         /\ sent' => /\ ~client.unreachable /\ client'.spent = client.spent + ToWait
                     /\ client'.spent < Budget
<1>1. AtDevice /\ ~sent /\ UNCHANGED silent /\ (ToAsk => cache.rests[Query] = 0)
  BY DEF Asks
<1>2. ClientInv /\ CacheInv /\ AtInv /\ FlightInv /\ disk.rests[Query] = 0
  BY <1>1, AskedDoesNotRest DEF NvdInv
<1>3. CASE client.unreachable /\ Failed(0) /\ UNCHANGED client
  <2>1. ~sent' /\ ClientInv'
    BY <1>1, <1>2, <1>3 DEF Failed, NextQuery, ClientInv
  <2> QED
    BY <1>1, <1>2, <1>3, <2>1, FailedKeeps DEF NvdInv
<1>4. CASE OutOfBudget(0) /\ UNCHANGED client
  <2>1. ~sent' /\ ClientInv'
    BY <1>1, <1>2, <1>4 DEF OutOfBudget, NextQuery, ClientInv
  <2> QED
    BY <1>1, <1>2, <1>4, <2>1, OutOfBudgetKeeps DEF NvdInv
<1>5. CASE /\ ToWait > 0 => ToWait <= Remaining(0)
           /\ OutOfBudget(ToWait) /\ client' = Later(client, ToWait)
  <2>1. ~sent' /\ ToWait \in Nat /\ client.spent + ToWait <= Budget + Grace
    BY <1>2, <1>5, WaitIs DEF OutOfBudget, NextQuery
  <2>2. ClientInv'
    BY <1>1, <1>2, <1>5, <2>1, ClientRuns
  <2> QED
    BY <1>1, <1>2, <1>5, <2>1, <2>2, OutOfBudgetKeeps DEF NvdInv
<1>6. CASE /\ ~client.unreachable /\ Remaining(ToWait) > 0
           /\ sent' = TRUE /\ client' = [Later(client, ToWait) EXCEPT !.since = 0]
           /\ GoesOn(ToWait) /\ UNCHANGED <<attempt, pages>>
  <2>1. ToWait \in Nat /\ client.spent + ToWait < Budget
    BY <1>2, <1>6, WaitIs
  <2>2. ClientInv' /\ client'.spent = client.spent + ToWait /\ client'.spent < Budget
    BY <1>1, <1>2, <1>6, <2>1, SendsKeeps
  <2>3. sent' \in BOOLEAN
    BY <1>6, Zenon
  <2>4. attempt' \in Nat \ {0} /\ pages' \in Nat
    BY <1>2, <1>6 DEF FlightInv
  <2>5. CacheInv' /\ AtInv' /\ FlightInv'
    BY <1>1, <1>2, <1>6, <2>1, <2>3, <2>4, GoesOnKeeps
  <2> QED
    BY <1>6, <2>2, <2>5 DEF NvdInv
<1> QED
  BY <1>3, <1>4, <1>5, <1>6 DEF Asks

-----------------------------------------------------------------------------
(* The answers to a request that is sent.                                  *)
LEMMA SentIs ==
  ASSUME NvdInv, sent, NEW t \in Takings
  PROVE  /\ ClientInv /\ CacheInv /\ AtInv /\ FlightInv /\ AtDevice /\ disk.rests[Query] = 0
         /\ t \in Nat /\ client.spent + t <= Budget + Grace
BY TakingsEnd DEF NvdInv, FlightInv, InFlight

LEMMA EndsQuery ==
  ASSUME NvdInv, sent, NEW t \in Takings, client' = Later(client, t), UNCHANGED silent,
         CacheInv' /\ AtInv' /\ FlightInv', NextQuery
  PROVE  NvdInv' /\ ~sent'
<1>1. ~sent'
  BY DEF NextQuery
<1> QED
  BY <1>1, SentIs, ClientRuns DEF NvdInv

LEMMA FailsQuery ==
  ASSUME NvdInv, sent, NEW t \in Takings, Failed(t) \/ OutOfBudget(t), client' = Later(client, t),
         UNCHANGED silent
  PROVE  NvdInv' /\ ~sent'
<1>1. NextQuery
  BY DEF Failed, OutOfBudget
<1>2. CacheInv' /\ AtInv' /\ FlightInv'
  BY SentIs, FailedKeeps, OutOfBudgetKeeps
<1> QED
  BY <1>1, <1>2, EndsQuery

LEMMA AnswersQuery ==
  ASSUME NvdInv, sent, NEW t \in Takings, NEW data \in {"cves", "listed", "unlisted", "invalid"},
         Answered(data, t), client' = Later(client, t), UNCHANGED silent
  PROVE  NvdInv' /\ ~sent'
<1>1. NextQuery
  BY DEF Answered
<1>2. CacheInv' /\ AtInv' /\ FlightInv'
  BY SentIs, AnsweredKeeps
<1> QED
  BY <1>1, <1>2, EndsQuery

LEMMA AsksAgain ==
  ASSUME NvdInv, sent, NEW t \in Nat, client.spent + t <= Budget + Grace, GoesOn(t), client' = Later(client, t),
         sent' = FALSE, attempt' \in Nat \ {0}, pages' \in Nat, UNCHANGED silent
  PROVE  NvdInv' /\ ~sent'
<1>1. sent' \in BOOLEAN
  BY Zenon
<1>2. AtDevice /\ disk.rests[Query] = 0
  BY DEF NvdInv, FlightInv, InFlight
<1>3. CacheInv' /\ AtInv' /\ FlightInv'
  BY <1>1, <1>2, GoesOnKeeps DEF NvdInv
<1>4. ClientInv'
  BY ClientRuns DEF NvdInv
<1> QED
  BY <1>3, <1>4 DEF NvdInv

LEMMA SilenceKeeps == ASSUME NvdInv, DoesNotAnswer PROVE NvdInv' /\ ~sent'
<1>1. PICK t \in Takings : Failed(t) /\ client' = [Later(client, t) EXCEPT !.unreachable = TRUE]
  BY DEF DoesNotAnswer
<1>2. /\ sent /\ ClientInv /\ CacheInv /\ AtInv /\ AtDevice /\ disk.rests[Query] = 0
      /\ t \in Nat /\ client.spent + t <= Budget + Grace
  BY SentIs DEF DoesNotAnswer
<1>3. CacheInv' /\ AtInv' /\ FlightInv' /\ ~sent'
  BY <1>1, <1>2, FailedKeeps DEF Failed, NextQuery
<1>4. Later(client, t) \in Clients /\ Later(client, t).spent <= client.spent + t
  BY <1>2, LaterIs DEF ClientInv
<1>5. client' \in Clients /\ client'.spent = Later(client, t).spent /\ client'.unreachable = TRUE
  BY <1>1, <1>4 DEF Clients
<1>6. client'.spent \in Nat /\ client.spent \in Nat
  BY <1>2, <1>5 DEF ClientInv, Clients
<1>7. client'.spent <= Budget + Grace
  <2>1. Budget \in Nat /\ Grace \in Nat
    BY Times
  <2> QED
    BY <1>2, <1>4, <1>5, <1>6, <2>1
<1>8. ClientInv'
  BY <1>3, <1>5, <1>7 DEF ClientInv
<1> QED
  BY <1>3, <1>8 DEF NvdInv

LEMMA PageKeeps == ASSUME NvdInv, NEW last \in BOOLEAN, AnswersPage(last) PROVE NvdInv' /\ ~sent'
<1>1. PICK t \in Takings :
        /\ client' = Later(client, t)
        /\ IF last \/ pages + 1 = MaxPages
           THEN \E data \in IF Query \in Names THEN {"listed", "unlisted"} ELSE {"cves"} : Answered(data, t)
           ELSE GoesOn(t) /\ sent' = FALSE /\ attempt' = 1 /\ pages' = pages + 1
  BY DEF AnswersPage
<1>2. sent /\ UNCHANGED silent
  BY DEF AnswersPage
<1>3. CASE \E data \in {"cves", "listed", "unlisted", "invalid"} : Answered(data, t)
  BY <1>1, <1>2, <1>3, AnswersQuery
<1>4. CASE GoesOn(t) /\ sent' = FALSE /\ attempt' = 1 /\ pages' = pages + 1
  <2>1. pages' \in Nat /\ attempt' \in Nat \ {0}
    BY <1>4 DEF NvdInv, FlightInv
  <2>2. t \in Nat /\ client.spent + t <= Budget + Grace
    BY <1>2, SentIs
  <2> QED
    BY <1>1, <1>2, <1>4, <2>1, <2>2, AsksAgain
<1> QED
  BY <1>1, <1>3, <1>4

LEMMA MalformedKeeps == ASSUME NvdInv, CallsItMalformed PROVE NvdInv' /\ ~sent'
BY AnswersQuery DEF CallsItMalformed

LEMMA RefusesKeeps == ASSUME NvdInv, Refuses PROVE NvdInv' /\ ~sent'
BY FailsQuery DEF Refuses

(* nvd.py:165-181: a wait before the next attempt is within the budget.    *)
LEMMA BusyKeeps == ASSUME NvdInv, IsBusy PROVE NvdInv' /\ ~sent'
<1>1. PICK wait : wait = IF attempt > Len(Waits) THEN 0 ELSE Waits[attempt]
  OBVIOUS
<1>2. PICK t \in Takings :
        IF attempt > Len(Waits) THEN Failed(t) /\ client' = Later(client, t)
        ELSE IF wait > Remaining(t) THEN OutOfBudget(t) /\ client' = Later(client, t)
        ELSE /\ GoesOn(t + wait) /\ client' = Later(client, t + wait)
             /\ attempt' = attempt + 1 /\ sent' = FALSE /\ UNCHANGED pages
  BY <1>1 DEF IsBusy
<1>3. sent /\ UNCHANGED silent
  BY DEF IsBusy
<1>4. /\ t \in Nat /\ client.spent + t <= Budget + Grace /\ client.spent \in Nat
      /\ attempt \in Nat \ {0} /\ pages \in Nat
  BY <1>3, SentIs DEF NvdInv, ClientInv, Clients, FlightInv
<1>5. Budget \in Nat /\ Grace \in Nat /\ Len(Waits) \in Nat /\ wait \in Nat
  BY <1>1, <1>4, Times
<1>6. CASE attempt > Len(Waits) \/ wait > Remaining(t)
  <2>1. (Failed(t) \/ OutOfBudget(t)) /\ client' = Later(client, t)
    BY <1>2, <1>6
  <2> QED
    BY <1>3, <2>1, FailsQuery
<1>7. CASE ~(attempt > Len(Waits)) /\ ~(wait > Remaining(t))
  <2>1. /\ GoesOn(t + wait) /\ client' = Later(client, t + wait)
        /\ attempt' = attempt + 1 /\ sent' = FALSE /\ UNCHANGED pages
    BY <1>2, <1>7
  <2>2. t + wait \in Nat /\ client.spent + (t + wait) <= Budget + Grace
    BY <1>4, <1>5, <1>7 DEF Remaining, Less
  <2>3. attempt' \in Nat \ {0} /\ pages' \in Nat
    BY <1>4, <2>1
  <2> DEFINE later == t + wait
  <2>4. later \in Nat /\ client.spent + later <= Budget + Grace /\ GoesOn(later) /\ client' = Later(client, later)
    BY <2>1, <2>2
  <2> HIDE DEF later
  <2> QED
    BY <1>3, <2>1, <2>3, <2>4, AsksAgain
<1> QED
  BY <1>6, <1>7

-----------------------------------------------------------------------------
(* A request is sent by Asks alone.                                        *)
LEMMA NvdStep ==
  ASSUME NvdInv, [NvdNext]_nvdVars
  PROVE  /\ NvdInv'
         /\ sent' /\ ~sent => Asks
<1>1. CASE UNCHANGED nvdVars
  BY <1>1 DEF nvdVars, NvdInv, ClientInv, CacheInv, AtInv, FlightInv, InFlight, AtDevice, Query, Scanning
<1>2. CASE (\E gap \in Gaps : Elapse(gap)) \/ ScanStarts \/ ScanEnds \/ ScanDies \/ AnsweredByTheCache
  <2>1. NvdInv'
    BY <1>2, ElapseKeeps, StartsKeeps, EndsKeeps, ScanDiesKeeps, CacheAnswersKeeps
  <2>2. sent' => sent
    <3>1. CASE \E gap \in Gaps : Elapse(gap)
      BY <3>1 DEF Elapse
    <3>2. CASE ScanStarts \/ ScanEnds \/ ScanDies
      BY <3>2 DEF ScanStarts, ScanEnds, ScanDies
    <3>3. CASE AnsweredByTheCache
      BY <3>3 DEF AnsweredByTheCache
    <3> QED
      BY <1>2, <3>1, <3>2, <3>3
  <2> QED
    BY <2>1, <2>2
<1>3. CASE Asks
  BY <1>3, AsksKeeps
<1>4. CASE \/ DoesNotAnswer \/ (\E last \in BOOLEAN : AnswersPage(last)) \/ CallsItMalformed \/ IsBusy \/ Refuses
  BY <1>4, SilenceKeeps, PageKeeps, MalformedKeeps, BusyKeeps, RefusesKeeps
<1> QED
  BY <1>1, <1>2, <1>3, <1>4 DEF NvdNext

(* The inductive invariant of the NVD lookup: the client's clock, the file *)
(* against the cache of the scan, and the query in flight.                 *)
THEOREM NvdAlways == NvdSpec => []NvdInv
<1>1. NvdInv /\ [NvdNext]_nvdVars => NvdInv'
  BY NvdStep
<1> QED
  BY NvdBegins, <1>1, PTL DEF NvdSpec

(* However often NVD is slow, busy, silent or long-winded, and whatever the*)
(* waits are, the lookup ends at most one last, short request after its    *)
(* budget (nvd.py:41, 144-150).                                            *)
THEOREM NvdEndsInTime == NvdSpec => []StageEndsInTime
<1>1. NvdInv => StageEndsInTime
  BY DEF NvdInv, ClientInv, StageEndsInTime
<1> QED
  BY <1>1, NvdAlways, PTL

(* Requests are spaced, within the budget, none after silence, and none    *)
(* for a query that rests by the last saved cache (nvd.py:33-41).          *)
THEOREM NvdIsConsiderate == NvdSpec => Considerate
<1> DEFINE OneRequest == sent' /\ ~sent =>
                           /\ client.since + (client'.spent - client.spent) >= Spacing /\ client'.spent < Budget
                           /\ ~silent
                           /\ ToAsk => disk.rests[Query] = 0
<1>1. NvdInv /\ [NvdNext]_nvdVars => [OneRequest]_nvdVars
  <2> SUFFICES ASSUME NvdInv, [NvdNext]_nvdVars, sent', ~sent
               PROVE  /\ client.since + (client'.spent - client.spent) >= Spacing /\ client'.spent < Budget
                      /\ ~silent
                      /\ ToAsk => disk.rests[Query] = 0
    OBVIOUS
  <2>1. Asks
    BY NvdStep
  <2>2. ~client.unreachable /\ client'.spent = client.spent + ToWait /\ client'.spent < Budget
    BY <2>1, AsksKeeps
  <2>3. client.since + (client'.spent - client.spent) >= Spacing
    <3>1. ToWait \in Nat /\ client.since + ToWait = Spacing /\ client.spent \in Nat /\ client.since \in Nat
      BY WaitIs DEF NvdInv, ClientInv, Clients
    <3>2. client'.spent - client.spent = ToWait
      BY <2>2, <3>1
    <3> QED
      BY <3>1, <3>2
  <2>4. ~silent
    BY <2>2 DEF NvdInv, ClientInv
  <2>5. ToAsk => disk.rests[Query] = 0
    BY <2>1, AskedDoesNotRest DEF Asks, NvdInv
  <2> QED
    BY <2>2, <2>3, <2>4, <2>5
<1> QED
  BY <1>1, NvdAlways, PTL DEF NvdSpec, Considerate

-----------------------------------------------------------------------------
(* cache.py:112-165: what has been answered stays answered, if only by an  *)
(* old answer; a device that showed its CVEs had every query answered.     *)
HasAnswer(c, q) == c.answers[q].data # "none"
IsKnown(c, d) == \A i \in DOMAIN Devices[d] : HasAnswer(c, Devices[d][i])
Statuses == [DOMAIN Devices -> {"none", "ok", "unverified", "unavailable"}]

(* An answer is fresh only if it is one.                                   *)
AnswersInv == \A q \in Queries : /\ ~HasAnswer(cache, q) => cache.answers[q].fresh = 0
                                 /\ ~HasAnswer(disk, q) => disk.answers[q].fresh = 0
ShownInv == \A d \in had : IsKnown(disk, d) /\ shown[d] # "unavailable"
ScanInv ==
  /\ ~Scanning => status = Unknown
  /\ Scanning => \A q \in Queries : HasAnswer(disk, q) => HasAnswer(cache, q)
  /\ \A d \in DOMAIN Devices : status[d] = "ok" => IsKnown(cache, d)
  /\ \A d \in had : status[d] # "unavailable"
  /\ AtDevice => \A i \in DOMAIN Devices[at.device] :
       i < at.query => HasAnswer(cache, Devices[at.device][i])

KeepInv == /\ had \subseteq DOMAIN Devices /\ status \in Statuses /\ shown \in Statuses
           /\ AnswersInv /\ ShownInv /\ ScanInv

LEMMA UnknownIs == Unknown \in Statuses /\ \A d \in DOMAIN Devices : Unknown[d] = "none"
BY DEF Unknown, Statuses

LEMMA AgedHas ==
  ASSUME NEW c \in Cached, NEW t \in Nat, NEW q \in Queries
  PROVE  /\ HasAnswer(Aged(c, t), q) <=> HasAnswer(c, q)
         /\ Aged(c, t).answers[q].fresh <= c.answers[q].fresh
         /\ Aged(c, t).answers[q].fresh \in Nat /\ c.answers[q].fresh \in Nat
<1>1. c.answers[q] \in Entries /\ Aged(c, t).answers[q] = [c.answers[q] EXCEPT !.fresh = Less(@, t)]
  BY DEF Cached, Aged
<1>2. \A e \in Entries : /\ [e EXCEPT !.fresh = Less(@, t)].data = e.data
                         /\ [e EXCEPT !.fresh = Less(@, t)].fresh = Less(e.fresh, t) /\ e.fresh \in Nat
  BY DEF Entries
<1> QED
  BY <1>1, <1>2, LessIs DEF HasAnswer

(* The answers to a step of the scan that runs: none is lost, and the      *)
(* device is settled as unavailable only for want of one.                  *)
Moves == \/ UNCHANGED <<at, status>>
         \/ (\E data : Takes(data)) /\ HasAnswer(cache', Query)
         \/ Settles("unavailable") /\ ~HasAnswer(cache, Query)

LEMMA MoveKeeps ==
  ASSUME NvdInv, KeepInv, AtDevice, UNCHANGED <<had, shown>>, Moves, AnswersInv',
         \A q \in Queries : /\ HasAnswer(disk', q) <=> HasAnswer(disk, q)
                            /\ HasAnswer(cache, q) => HasAnswer(cache', q)
  PROVE  KeepInv'
<1>1. Scanning /\ Query \in Queries /\ at \in [device : Nat, query : Nat] /\ at.device \in DOMAIN Devices
      /\ at.query \in DOMAIN Devices[at.device]
  BY AtDeviceScans, QueryIsOne DEF NvdInv, AtInv, AtDevice
<1>2. \A d \in DOMAIN Devices : \A i \in DOMAIN Devices[d] : Devices[d][i] \in Queries
  BY DevicesHaveQueries
<1>3. \A d \in DOMAIN Devices : /\ IsKnown(disk, d) => IsKnown(disk', d) /\ IsKnown(cache, d)
                                /\ IsKnown(cache, d) => IsKnown(cache', d)
  BY <1>1, <1>2 DEF IsKnown, KeepInv, ScanInv
<1>4. ShownInv' /\ \A q \in Queries : HasAnswer(disk', q) => HasAnswer(cache', q)
  BY <1>1, <1>3 DEF KeepInv, ShownInv, ScanInv
<1>6. ASSUME NEW result \in {"ok", "unverified", "unavailable"}, Settles(result),
             result = "ok" => IsKnown(cache', at.device),
             result = "unavailable" => at.device \notin had
      PROVE  KeepInv'
  <2>1. /\ at'.device = at.device + 1 /\ at'.query = 1 /\ Scanning' /\ status' \in Statuses
        /\ \A d \in DOMAIN Devices : status'[d] = IF d = at.device THEN result ELSE status[d]
    BY <1>1, <1>6 DEF Settles, Scanning, KeepInv, Statuses
  <2>2. \A d \in DOMAIN Devices : \A i \in DOMAIN Devices[d] : ~(i < 1)
    BY DevicesHaveQueries
  <2>3. AtDevice' => \A i \in DOMAIN Devices[at'.device] : ~(i < at'.query)
    BY <2>1, <2>2 DEF AtDevice
  <2>4. /\ \A d \in DOMAIN Devices : status'[d] = "ok" => IsKnown(cache', d)
        /\ \A d \in had' : status'[d] # "unavailable"
    BY <1>3, <1>6, <2>1 DEF KeepInv, ScanInv
  <2>5. ScanInv'
    BY <1>4, <2>1, <2>3, <2>4 DEF ScanInv
  <2> QED
    BY <1>4, <2>1, <2>5 DEF KeepInv
<1>7. CASE UNCHANGED <<at, status>>
  <2>1. AtDevice' /\ Scanning' /\ at' = at
    BY <1>1, <1>7 DEF AtDevice, Scanning
  <2>2. \A i \in DOMAIN Devices[at.device] : i < at.query => HasAnswer(cache', Devices[at.device][i])
    BY <1>1, <1>2 DEF KeepInv, ScanInv
  <2>3. ScanInv'
    BY <1>3, <1>4, <1>7, <2>1, <2>2 DEF KeepInv, ScanInv
  <2> QED
    BY <1>4, <1>7, <2>3 DEF KeepInv
<1>8. ASSUME NEW data, Takes(data), HasAnswer(cache', Query) PROVE KeepInv'
  <2>1. \A i \in DOMAIN Devices[at.device] : i <= at.query => HasAnswer(cache', Devices[at.device][i])
    <3>1. \A i \in DOMAIN Devices[at.device] : i < at.query => HasAnswer(cache', Devices[at.device][i])
      BY <1>1, <1>2 DEF KeepInv, ScanInv
    <3>2. \A i \in DOMAIN Devices[at.device] : i <= at.query => i < at.query \/ i = at.query
      BY <1>1, DevicesHaveQueries
    <3> QED
      BY <1>8, <3>1, <3>2 DEF Query
  <2>2. CASE Settles("unverified")
    BY <1>6, <2>2
  <2>3. CASE at.query < Len(Devices[at.device]) /\ at' = [at EXCEPT !.query = @ + 1] /\ UNCHANGED status
    <3>1. at'.device = at.device /\ at'.query = at.query + 1 /\ Scanning' /\ AtDevice'
      BY <1>1, <2>3 DEF Scanning, AtDevice
    <3>2. \A i \in DOMAIN Devices[at.device] : i < at.query + 1 => i <= at.query
      BY <1>1, DevicesHaveQueries
    <3>3. ScanInv'
      BY <1>3, <1>4, <2>1, <2>3, <3>1, <3>2 DEF KeepInv, ScanInv
    <3> QED
      BY <1>4, <2>3, <3>3 DEF KeepInv
  <2>4. CASE ~(at.query < Len(Devices[at.device])) /\ Settles("ok")
    <3>1. \A i \in DOMAIN Devices[at.device] : i <= at.query
      BY <1>1, <2>4, DevicesHaveQueries
    <3>2. IsKnown(cache', at.device)
      BY <2>1, <3>1 DEF IsKnown
    <3> QED
      BY <1>6, <2>4, <3>2
  <2> QED
    BY <1>8, <2>2, <2>3, <2>4 DEF Takes
<1>9. CASE Settles("unavailable") /\ ~HasAnswer(cache, Query)
  <2>1. at.device \notin had
    <3>1. ~IsKnown(cache, at.device)
      BY <1>1, <1>9 DEF IsKnown, Query
    <3> QED
      BY <1>1, <1>3, <3>1 DEF KeepInv, ShownInv
  <2> QED
    BY <1>6, <1>9, <2>1
<1> QED
  BY <1>7, <1>8, <1>9 DEF Moves

(* Time passes; a failed query rests and keeps its answer; an answered one *)
(* has one.                                                                *)
LEMMA PassKeepsAnswers ==
  ASSUME NvdInv, KeepInv, NEW t \in Nat, Passes(t), cache' = Aged(cache, t)
  PROVE  /\ AnswersInv'
         /\ \A q \in Queries : /\ HasAnswer(disk', q) <=> HasAnswer(disk, q)
                               /\ HasAnswer(cache', q) <=> HasAnswer(cache, q)
<1>1. cache \in Cached /\ disk \in Cached /\ disk' = Aged(disk, t)
  BY DEF NvdInv, CacheInv, Passes
<1>2. ASSUME NEW q \in Queries
      PROVE  /\ HasAnswer(disk', q) <=> HasAnswer(disk, q)
             /\ HasAnswer(cache', q) <=> HasAnswer(cache, q)
             /\ cache'.answers[q].fresh <= cache.answers[q].fresh
             /\ disk'.answers[q].fresh <= disk.answers[q].fresh
             /\ cache'.answers[q].fresh \in Nat /\ disk'.answers[q].fresh \in Nat
             /\ cache.answers[q].fresh \in Nat /\ disk.answers[q].fresh \in Nat
  BY <1>1, AgedHas
<1>3. AnswersInv'
  BY <1>2 DEF KeepInv, AnswersInv
<1> QED
  BY <1>2, <1>3

LEMMA OldAnswerMoves ==
  ASSUME NvdInv, KeepInv, AtDevice, StaleOrUnanswered,
         HasAnswer(cache, Query) => HasAnswer(cache', Query)
  PROVE  Moves
<1>1. Query \in Queries /\ cache \in Cached
  BY QueryIsOne DEF NvdInv, CacheInv
<1>2. Answer = NoAnswer => ~HasAnswer(cache, Query)
  BY DEF Answer, NoAnswer, HasAnswer
<1>3. ~HasAnswer(cache, Query) => Answer = NoAnswer
  <2>1. Answer \in Entries /\ (~HasAnswer(cache, Query) => Answer.fresh = 0 /\ Answer.data = "none")
    BY <1>1 DEF Answer, HasAnswer, KeepInv, AnswersInv, Cached
  <2> QED
    BY <2>1 DEF Entries, NoAnswer
<1> QED
  BY <1>2, <1>3 DEF StaleOrUnanswered, Moves

LEMMA PassMoves ==
  ASSUME NvdInv, KeepInv, AtDevice, NEW t \in Nat, GoesOn(t) \/ OutOfBudget(t), UNCHANGED <<had, shown>>
  PROVE  KeepInv'
<1>1. Passes(t) /\ cache' = Aged(cache, t) /\ Query \in Queries
  BY QueryIsOne DEF GoesOn, OutOfBudget, NvdInv
<1>2. Moves
  BY <1>1, PassKeepsAnswers, OldAnswerMoves DEF GoesOn, OutOfBudget, Moves
<1> QED
  BY <1>1, <1>2, PassKeepsAnswers, MoveKeeps

LEMMA FailedMoves ==
  ASSUME NvdInv, KeepInv, AtDevice, NEW t \in Nat, Failed(t), UNCHANGED <<had, shown>>
  PROVE  KeepInv'
<1>1. /\ Passes(t) /\ Query \in Queries /\ Aged(cache, t) \in Cached
      /\ cache' = [Aged(cache, t) EXCEPT !.rests[Query] = RetryFailed]
  BY QueryIsOne, AgedIs DEF Failed, NvdInv, CacheInv
<1>2. cache'.answers = Aged(cache, t).answers
  BY <1>1 DEF Cached
<1>3. cache \in Cached /\ disk \in Cached /\ disk' = Aged(disk, t)
  BY <1>1 DEF NvdInv, CacheInv, Passes
<1>4. ASSUME NEW q \in Queries
      PROVE  /\ HasAnswer(disk', q) <=> HasAnswer(disk, q)
             /\ HasAnswer(cache', q) <=> HasAnswer(cache, q)
             /\ cache'.answers[q].fresh <= cache.answers[q].fresh
             /\ disk'.answers[q].fresh <= disk.answers[q].fresh
             /\ cache'.answers[q].fresh \in Nat /\ disk'.answers[q].fresh \in Nat
             /\ cache.answers[q].fresh \in Nat /\ disk.answers[q].fresh \in Nat
  BY <1>2, <1>3, AgedHas DEF HasAnswer
<1>5. AnswersInv'
  BY <1>4 DEF KeepInv, AnswersInv
<1>6. Moves
  BY <1>1, <1>4, OldAnswerMoves DEF Failed
<1> QED
  BY <1>4, <1>5, <1>6, MoveKeeps

LEMMA AnsweredMoves ==
  ASSUME NvdInv, KeepInv, AtDevice, NEW t \in Nat, NEW data \in {"cves", "listed", "unlisted", "invalid"},
         Answered(data, t), UNCHANGED <<had, shown>>
  PROVE  KeepInv'
<1>1. /\ Passes(t) /\ Query \in Queries /\ Aged(cache, t) \in Cached
      /\ cache \in Cached /\ disk \in Cached /\ disk' = Aged(disk, t)
  BY QueryIsOne, AgedIs DEF Answered, NvdInv, CacheInv, Passes
<1>2. PICK fresh : cache'.answers = [Aged(cache, t).answers EXCEPT ![Query] = [fresh |-> fresh, data |-> data]]
  BY DEF Answered
<1>3. /\ cache'.answers[Query].data = data
      /\ \A q \in Queries : q # Query => cache'.answers[q] = Aged(cache, t).answers[q]
  BY <1>1, <1>2 DEF Cached
<1>4. HasAnswer(cache', Query)
  BY <1>3 DEF HasAnswer
<1>5. ASSUME NEW q \in Queries
      PROVE  /\ HasAnswer(disk', q) <=> HasAnswer(disk, q)
             /\ HasAnswer(cache, q) => HasAnswer(cache', q)
             /\ ~HasAnswer(disk', q) => disk'.answers[q].fresh = 0
             /\ ~HasAnswer(cache', q) => cache'.answers[q].fresh = 0
  <2>1. /\ HasAnswer(disk', q) <=> HasAnswer(disk, q)
        /\ disk'.answers[q].fresh <= disk.answers[q].fresh
        /\ disk'.answers[q].fresh \in Nat /\ disk.answers[q].fresh \in Nat
    BY <1>1, AgedHas
  <2>2. q # Query => /\ HasAnswer(cache', q) <=> HasAnswer(cache, q)
                     /\ cache'.answers[q].fresh <= cache.answers[q].fresh
                     /\ cache'.answers[q].fresh \in Nat /\ cache.answers[q].fresh \in Nat
    BY <1>1, <1>3, AgedHas DEF HasAnswer
  <2> QED
    BY <1>4, <2>1, <2>2 DEF KeepInv, AnswersInv
<1>6. AnswersInv'
  BY <1>5 DEF AnswersInv
<1>7. Moves
  BY <1>4 DEF Answered, Moves
<1> QED
  BY <1>5, <1>6, <1>7, MoveKeeps

-----------------------------------------------------------------------------
(* Every action keeps it.                                                  *)
LEMMA BetweenKeeps ==
  ASSUME NvdInv, KeepInv, (\E gap \in Gaps : Elapse(gap)) \/ ScanStarts \/ ScanEnds \/ ScanDies
  PROVE  KeepInv'
<1>0. \A d \in DOMAIN Devices : \A i \in DOMAIN Devices[d] : Devices[d][i] \in Queries
  BY DevicesHaveQueries
<1>1. ASSUME NEW gap \in Gaps, Elapse(gap) PROVE KeepInv'
  <2>1. gap \in Nat /\ disk \in Cached /\ disk' = Aged(disk, gap) /\ ~Scanning /\ ~AtDevice
    BY <1>1, Times, AtDeviceScans DEF Elapse, NvdInv, CacheInv
  <2>2. UNCHANGED <<cache, at, status, shown, had>> /\ ~Scanning' /\ ~AtDevice'
    BY <1>1, <2>1 DEF Elapse, Scanning, AtDevice
  <2>3. ASSUME NEW q \in Queries
        PROVE  /\ HasAnswer(disk', q) <=> HasAnswer(disk, q)
               /\ ~HasAnswer(disk, q) => disk'.answers[q].fresh = 0
    <3>1. /\ HasAnswer(disk', q) <=> HasAnswer(disk, q)
          /\ disk'.answers[q].fresh <= disk.answers[q].fresh
          /\ disk'.answers[q].fresh \in Nat /\ disk.answers[q].fresh \in Nat
      BY <2>1, AgedHas
    <3> QED
      BY <3>1 DEF KeepInv, AnswersInv
  <2>4. AnswersInv'
    BY <2>2, <2>3 DEF KeepInv, AnswersInv
  <2>5. ShownInv'
    BY <1>0, <2>2, <2>3 DEF KeepInv, ShownInv, IsKnown
  <2>6. ScanInv'
    <3>1. status = Unknown /\ had \subseteq DOMAIN Devices
      BY <2>1 DEF KeepInv, ScanInv
    <3> QED
      BY <2>2, <3>1, UnknownIs DEF ScanInv
  <2> QED
    BY <2>2, <2>4, <2>5, <2>6 DEF KeepInv
<1>2. CASE ScanStarts
  <2>1. ~Scanning /\ status' = Unknown /\ shown' = shown /\ at'.query = 1
    BY <1>2 DEF ScanStarts, KeepInv, ScanInv
  <2>2. AtDevice' => \A i \in DOMAIN Devices[at'.device] : ~(i < at'.query)
    BY <2>1, DevicesHaveQueries DEF AtDevice
  <2>3. cache' = disk' /\ had' \subseteq had
    BY <1>2 DEF ScanStarts
  <2>4. AnswersInv' /\ ShownInv'
    <3>1. CASE cache' = disk /\ UNCHANGED <<disk, had>>
      BY <2>1, <3>1 DEF KeepInv, AnswersInv, ShownInv
    <3>2. CASE cache' = NoCache /\ disk' = NoCache /\ had' = {}
      BY <3>2 DEF AnswersInv, ShownInv, NoCache, NoAnswer
    <3> QED
      BY <1>2, <3>1, <3>2 DEF ScanStarts
  <2>5. ScanInv'
    BY <2>1, <2>2, <2>3, UnknownIs DEF KeepInv, ScanInv
  <2> QED
    BY <2>1, <2>3, <2>4, <2>5, UnknownIs DEF KeepInv
<1>3. ASSUME at' = NotAt, status' = Unknown, cache' = NoCache, had' \subseteq DOMAIN Devices,
             shown' \in Statuses, ShownInv',
             \A q \in Queries : ~HasAnswer(disk', q) => disk'.answers[q].fresh = 0
      PROVE  KeepInv'
  <2>1. ~Scanning' /\ ~AtDevice'
    BY <1>3, DevicesHaveQueries DEF NotAt, Scanning, AtDevice
  <2>2. AnswersInv'
    BY <1>3 DEF AnswersInv, NoCache, NoAnswer
  <2>3. ScanInv'
    BY <1>3, <2>1, UnknownIs DEF ScanInv
  <2> QED
    BY <1>3, <2>2, <2>3, UnknownIs DEF KeepInv
<1>4. CASE ScanEnds
  <2>1. /\ Scanning /\ disk' = cache /\ shown' = status
        /\ had' = had \cup {d \in DOMAIN Devices : status[d] = "ok"}
    BY <1>4, DevicesHaveQueries DEF ScanEnds, Scanning
  <2>2. ASSUME NEW d \in had' PROVE IsKnown(disk', d) /\ shown'[d] # "unavailable"
    <3>1. CASE d \in had
      <4>1. IsKnown(disk, d) /\ status[d] # "unavailable" /\ d \in DOMAIN Devices
        BY <3>1 DEF KeepInv, ShownInv, ScanInv
      <4>2. IsKnown(cache, d)
        BY <1>0, <2>1, <4>1 DEF KeepInv, ScanInv, IsKnown
      <4> QED
        BY <2>1, <4>1, <4>2
    <3>2. CASE d \in DOMAIN Devices /\ status[d] = "ok"
      BY <2>1, <3>2 DEF KeepInv, ScanInv
    <3> QED
      BY <2>1, <3>1, <3>2
  <2>3. ShownInv'
    BY <2>2 DEF ShownInv
  <2> QED
    BY <1>3, <1>4, <2>1, <2>3 DEF ScanEnds, KeepInv, AnswersInv
<1>5. CASE ScanDies
  BY <1>3, <1>5 DEF ScanDies, KeepInv, AnswersInv, ShownInv
<1> QED
  BY <1>1, <1>2, <1>4, <1>5

LEMMA CacheAnswersMoves == ASSUME NvdInv, KeepInv, AnsweredByTheCache PROVE KeepInv'
<1>1. AtDevice /\ UNCHANGED <<cache, disk, shown, had>> /\ Query \in Queries
  BY QueryIsOne DEF AnsweredByTheCache, ToAsk, NvdInv
<1>2. Moves
  <2>1. CASE Answer.fresh > 0 /\ Takes(Answer.data)
    <3>1. HasAnswer(cache, Query)
      BY <1>1, <2>1 DEF KeepInv, AnswersInv, Answer
    <3> QED
      BY <1>1, <2>1, <3>1 DEF Moves
  <2>2. CASE StaleOrUnanswered
    BY <1>1, <2>2, OldAnswerMoves
  <2> QED
    BY <2>1, <2>2 DEF AnsweredByTheCache
<1>3. /\ AnswersInv'
      /\ \A q \in Queries : /\ HasAnswer(disk', q) <=> HasAnswer(disk, q)
                            /\ HasAnswer(cache, q) => HasAnswer(cache', q)
  BY <1>1 DEF KeepInv, AnswersInv
<1> QED
  BY <1>1, <1>2, <1>3, MoveKeeps

LEMMA AsksMoves == ASSUME NvdInv, KeepInv, Asks PROVE KeepInv'
<1>1. AtDevice /\ UNCHANGED <<shown, had>> /\ ToWait \in Nat
  BY WaitIs DEF Asks, NvdInv
<1>2. Failed(0) \/ OutOfBudget(0) \/ OutOfBudget(ToWait) \/ GoesOn(ToWait)
  BY DEF Asks
<1> QED
  BY <1>1, <1>2, PassMoves, FailedMoves

LEMMA AnswerMoves ==
  ASSUME NvdInv, KeepInv, sent, NEW t \in Takings, NEW later \in Nat, UNCHANGED <<had, shown>>,
         \/ Failed(t) \/ OutOfBudget(t) \/ GoesOn(t) \/ GoesOn(later)
         \/ \E data \in {"cves", "listed", "unlisted", "invalid"} : Answered(data, t)
  PROVE  KeepInv'
<1>1. AtDevice /\ t \in Nat
  BY SentIs
<1> QED
  BY <1>1, PassMoves, FailedMoves, AnsweredMoves

LEMMA RepliesMove ==
  ASSUME NvdInv, KeepInv,
         DoesNotAnswer \/ (\E last \in BOOLEAN : AnswersPage(last)) \/ CallsItMalformed \/ IsBusy \/ Refuses
  PROVE  KeepInv'
<1>1. sent /\ UNCHANGED <<had, shown>> /\ 0 \in Nat
  BY DEF DoesNotAnswer, AnswersPage, CallsItMalformed, IsBusy, Refuses
<1>2. CASE DoesNotAnswer \/ CallsItMalformed \/ Refuses
  <2>1. PICK t \in Takings : Failed(t) \/ Answered("invalid", t)
    BY <1>2 DEF DoesNotAnswer, CallsItMalformed, Refuses
  <2> QED
    BY <1>1, <2>1, AnswerMoves
<1>3. ASSUME NEW last \in BOOLEAN, AnswersPage(last) PROVE KeepInv'
  <2>1. PICK t \in Takings :
          \/ GoesOn(t)
          \/ \E data \in {"cves", "listed", "unlisted", "invalid"} : Answered(data, t)
    BY <1>3 DEF AnswersPage
  <2> QED
    BY <1>1, <2>1, AnswerMoves
<1>4. CASE IsBusy
  <2>1. PICK wait : wait = IF attempt > Len(Waits) THEN 0 ELSE Waits[attempt]
    OBVIOUS
  <2>2. PICK t \in Takings : Failed(t) \/ OutOfBudget(t) \/ GoesOn(t + wait)
    BY <1>4, <2>1 DEF IsBusy
  <2>3. t + wait \in Nat
    <3>1. attempt \in Nat \ {0} /\ t \in Nat
      BY <1>1, SentIs DEF FlightInv
    <3>2. wait \in Nat
      BY <2>1, <3>1, Times
    <3> QED
      BY <3>1, <3>2
  <2> DEFINE later == t + wait
  <2>4. later \in Nat /\ (Failed(t) \/ OutOfBudget(t) \/ GoesOn(later))
    BY <2>2, <2>3
  <2> HIDE DEF later
  <2> QED
    BY <1>1, <2>4, AnswerMoves
<1> QED
  BY <1>2, <1>3, <1>4

(* The inductive invariant of the cache: no answer is lost between scans.  *)
THEOREM AnswersAreKept == NvdSpec => []KeepInv
<1>1. NvdInit => KeepInv
  <2> SUFFICES ASSUME NvdInit PROVE KeepInv
    OBVIOUS
  <2>1. cache = NoCache /\ disk = NoCache /\ status = Unknown /\ shown = Unknown /\ had = {} /\ at = NotAt
    BY DEF NvdInit
  <2>2. ~AtDevice /\ ~Scanning
    BY <2>1, DevicesHaveQueries DEF NotAt, AtDevice, Scanning
  <2>3. AnswersInv /\ ShownInv /\ ScanInv
    BY <2>1, <2>2, UnknownIs DEF AnswersInv, ShownInv, ScanInv, NoCache, NoAnswer
  <2> QED
    BY <2>1, <2>3, UnknownIs DEF KeepInv
<1>2. NvdInv /\ KeepInv /\ [NvdNext]_nvdVars => KeepInv'
  <2> SUFFICES ASSUME NvdInv, KeepInv, [NvdNext]_nvdVars PROVE KeepInv'
    OBVIOUS
  <2>1. CASE UNCHANGED nvdVars
    BY <2>1 DEF nvdVars, KeepInv, AnswersInv, ShownInv, ScanInv, IsKnown, HasAnswer, AtDevice, Scanning
  <2> QED
    BY <2>1, BetweenKeeps, CacheAnswersMoves, AsksMoves, RepliesMove DEF NvdNext
<1> QED
  BY <1>1, <1>2, NvdAlways, PTL DEF NvdSpec

(* A device never loses its CVEs because NVD had a bad day (cache.py:29-31)*)
(* for any devices and queries, waits, budgets and times between scans.    *)
THEOREM NvdNeverLosesCves == NvdSpec => []NeverLosesCves
<1>1. KeepInv => NeverLosesCves
  BY DEF KeepInv, ShownInv, NeverLosesCves
<1> QED
  BY <1>1, AnswersAreKept, PTL

-----------------------------------------------------------------------------
(* cve_records.py: the cache of CVE records and the pool that fills it.    *)
Fetches == {"none", "queued", "cleared", "sent", "kept"} \cup Ended
Answers == {"none", "found", "missing"}
Threads == {"early", "waiting", "scoring", "finishing", "ended"}

RecordsTypeOK ==
  /\ kept \in [Cves -> Kept]
  /\ answer \in [Cves -> Answers]
  /\ fetch \in [Cves -> Fetches]
  /\ stopping \in BOOLEAN
  /\ out \in [Cves -> {NotScored, "new", "old", "nothing"}]
  /\ used \in SUBSET Cves
  /\ thread \in Threads
  /\ sentAfter \in Nat

(* _fetch_and_keep: the answer is in the cache when its fetch has ended,   *)
(* and not before it came.                                                 *)
AnswerInv(c) ==
  /\ fetch[c] \in {"found", "missing"} => answer[c] = fetch[c]
  /\ fetch[c] = "kept" => answer[c] \in {"found", "missing"}
  /\ fetch[c] \in {"none", "queued", "cleared", "sent", "unanswered"} => answer[c] = "none"

(* load: only a fetch that has ended is used, and a record that was found  *)
(* is what the CVE is scored with exactly when its fetch was used.         *)
UsedInv(c) ==
  /\ c \in used => fetch[c] \in Ended
  /\ out[c] = "new" <=> c \in used /\ fetch[c] = "found"
  /\ out[c] = "nothing" => answer[c] = "missing" \/ kept[c] \notin {"fresh", "expired"}
  /\ out[c] = NotScored => c \notin used

FinishedInv ==
  thread = "ended" =>
    /\ \A c \in Cves : fetch[c] \in Ended \cup {"none"}
    /\ saved = answer
    /\ late = Cardinality({c \in Cves \ used : fetch[c] \in {"found", "missing"}})

(* The requests cleared and not sent are the only ones that can still go   *)
(* out once the pool has been told to stop.                                *)
Cleared == {c \in Cves : fetch[c] = "cleared"}
CountInv ==
  /\ Cardinality(Busy) <= Workers
  /\ stopping => sentAfter + Cardinality(Cleared) < Workers
  /\ ~stopping => sentAfter = 0

RecordsInv ==
  /\ RecordsTypeOK
  /\ \A c \in Cves : AnswerInv(c) /\ UsedInv(c)
  /\ FinishedInv
  /\ CountInv

-----------------------------------------------------------------------------
(* Of the fetches that are counted.                                        *)
LEMMA CountsAreNumbers ==
  ASSUME NEW S \in SUBSET Cves
  PROVE  IsFiniteSet(S) /\ Cardinality(S) \in Nat
BY RecordsAssumption, FS_Subset, FS_CardinalityType

LEMMA Smaller ==
  ASSUME NEW S \in SUBSET Cves, NEW T \in SUBSET S
  PROVE  Cardinality(T) <= Cardinality(S)
BY CountsAreNumbers, FS_Subset

LEMMA WithOneLess ==
  ASSUME NEW S \in SUBSET Cves, NEW c \in S
  PROVE  S \ {c} \in SUBSET Cves /\ Cardinality(S \ {c}) = Cardinality(S) - 1 /\ Cardinality(S) >= 1
<1>1. S \ {c} \in SUBSET Cves /\ IsFiniteSet(S)
  BY CountsAreNumbers
<1>2. Cardinality(S \ {c}) = Cardinality(S) - 1
  BY <1>1, FS_RemoveElement
<1> QED
  BY <1>1, <1>2, CountsAreNumbers

LEMMA WithOneMore ==
  ASSUME NEW S \in SUBSET Cves, NEW c \in Cves
  PROVE  Cardinality(S \cup {c}) <= Cardinality(S) + 1
BY CountsAreNumbers, FS_AddElement

LEMMA RecordsBegin == RecordsInit => RecordsInv
<1> SUFFICES ASSUME RecordsInit PROVE RecordsInv
  OBVIOUS
<1>1. RecordsTypeOK
  BY DEF RecordsInit, RecordsTypeOK, Answers, Fetches, Threads, NotScored
<1>2. \A c \in Cves : AnswerInv(c) /\ UsedInv(c)
  BY DEF RecordsInit, AnswerInv, UsedInv, Ended, NotScored
<1>3. Busy = {}
  BY DEF RecordsInit, Busy
<1>4. CountInv
  BY <1>3, FS_EmptySet, RecordsAssumption DEF RecordsInit, CountInv
<1> QED
  BY <1>1, <1>2, <1>4 DEF RecordsInv, FinishedInv, RecordsInit

-----------------------------------------------------------------------------
(* CountInv, action by action: whoever moves a fetch leaves no more of     *)
(* them cleared or busy than there were, but for Begins.                   *)
LEMMA CountKept ==
  ASSUME RecordsInv, Busy' \subseteq Busy, Cleared' \subseteq Cleared, UNCHANGED <<stopping, sentAfter>>
  PROVE  CountInv'
<1>1. Busy \in SUBSET Cves /\ Cleared \in SUBSET Cves
  BY DEF Busy, Cleared
<1>2. Cardinality(Busy') <= Cardinality(Busy) /\ Cardinality(Cleared') <= Cardinality(Cleared)
  BY <1>1, Smaller
<1>3. /\ Cardinality(Busy) \in Nat /\ Cardinality(Cleared) \in Nat
      /\ Cardinality(Busy') \in Nat /\ Cardinality(Cleared') \in Nat
  BY <1>1, CountsAreNumbers
<1> QED
  BY <1>2, <1>3, RecordsAssumption DEF RecordsInv, RecordsTypeOK, CountInv

LEMMA PrefetchKeeps ==
  ASSUME RecordsInv, NEW S \in SUBSET Cves, fetch' = Prefetched(S), thread = "early",
         thread' \in {"early", "waiting"},
         UNCHANGED <<kept, answer, stopping, out, used, saved, late, sentAfter>>
  PROVE  RecordsInv'
<1>1. \A c \in Cves : fetch'[c] = fetch[c] \/ (fetch[c] = "none" /\ fetch'[c] = "queued")
  BY DEF Prefetched
<1>2. RecordsTypeOK'
  <2>1. fetch' \in [Cves -> Fetches]
    BY DEF RecordsInv, RecordsTypeOK, Prefetched, Fetches
  <2> QED
    BY <2>1 DEF RecordsInv, RecordsTypeOK, Threads
<1>3. \A c \in Cves : AnswerInv(c)' /\ UsedInv(c)'
  BY <1>1 DEF RecordsInv, AnswerInv, UsedInv, Ended
<1>4. Busy' \subseteq Busy /\ Cleared' \subseteq Cleared
  BY <1>1 DEF Busy, Cleared
<1>5. CountInv'
  BY <1>4, CountKept
<1> QED
  BY <1>2, <1>3, <1>5 DEF RecordsInv, FinishedInv

LEMMA ThreadKeeps ==
  ASSUME RecordsInv, WaitEnds \/ LoadEnds
  PROVE  RecordsInv'
<1>1. RecordsTypeOK'
  BY DEF RecordsInv, RecordsTypeOK, Threads, WaitEnds, LoadEnds
<1>2. Busy' \subseteq Busy /\ Cleared' \subseteq Cleared /\ UNCHANGED <<stopping, sentAfter>>
  BY DEF Busy, Cleared, WaitEnds, LoadEnds
<1>3. CountInv'
  BY <1>2, CountKept
<1>4. \A c \in Cves : AnswerInv(c)' /\ UsedInv(c)'
  BY DEF RecordsInv, AnswerInv, UsedInv, WaitEnds, LoadEnds
<1> QED
  BY <1>1, <1>3, <1>4 DEF RecordsInv, FinishedInv, WaitEnds, LoadEnds

LEMMA FinishesKeeps ==
  ASSUME RecordsInv, Finishes
  PROVE  RecordsInv'
<1>1. RecordsTypeOK'
  BY DEF RecordsInv, RecordsTypeOK, Threads, Finishes
<1>2. Busy' \subseteq Busy /\ Cleared' \subseteq Cleared /\ UNCHANGED <<stopping, sentAfter>>
  BY DEF Busy, Cleared, Finishes
<1>3. CountInv'
  BY <1>2, CountKept
<1>4. \A c \in Cves : AnswerInv(c)' /\ UsedInv(c)'
  BY DEF RecordsInv, AnswerInv, UsedInv, Finishes
<1> QED
  BY <1>1, <1>3, <1>4 DEF RecordsInv, FinishedInv, Finishes

LEMMA ScoresKeeps ==
  ASSUME RecordsInv, NEW c \in Cves, Scores(c)
  PROVE  RecordsInv'
<1>1. fetch[c] \in Fetches /\ UNCHANGED <<kept, answer, fetch, stopping, thread, saved, late, sentAfter>>
  BY DEF RecordsInv, RecordsTypeOK, Scores
<1>2. used' \in SUBSET Cves /\ used' = used \cup (IF fetch[c] \in Ended THEN {c} ELSE {})
  BY DEF RecordsInv, RecordsTypeOK, Scores, UsedNow
<1>3. /\ out' = [out EXCEPT ![c] = out'[c]]
      /\ out'[c] \in {"new", "old", "nothing"}
      /\ out'[c] = "new" <=> fetch[c] = "found"
      /\ out'[c] = "nothing" => fetch[c] = "missing" \/ kept[c] \notin {"fresh", "expired"}
  <2>1. CASE fetch[c] = "found"
    BY <2>1 DEF RecordsInv, RecordsTypeOK, Scores
  <2>2. CASE fetch[c] = "missing"
    BY <2>2 DEF RecordsInv, RecordsTypeOK, Scores
  <2>3. CASE fetch[c] \notin {"found", "missing"}
    <3>1. out' = [out EXCEPT ![c] = FromTheCache(c)]
      BY <2>3 DEF Scores
    <3> QED
      BY <2>3, <3>1 DEF RecordsInv, RecordsTypeOK, FromTheCache
  <2> QED
    BY <2>1, <2>2, <2>3
<1>4. RecordsTypeOK'
  BY <1>1, <1>2, <1>3 DEF RecordsInv, RecordsTypeOK
<1>5. AnswerInv(c)' /\ UsedInv(c)'
  BY <1>1, <1>2, <1>3 DEF RecordsInv, RecordsTypeOK, AnswerInv, UsedInv, Ended, NotScored, Scores
<1>6. \A d \in Cves \ {c} : AnswerInv(d)' /\ UsedInv(d)'
  BY <1>1, <1>2, <1>3 DEF RecordsInv, RecordsTypeOK, AnswerInv, UsedInv
<1>7. Busy' \subseteq Busy /\ Cleared' \subseteq Cleared
  BY <1>1 DEF Busy, Cleared
<1>8. CountInv'
  BY <1>1, <1>7, CountKept
<1> QED
  BY <1>1, <1>4, <1>5, <1>6, <1>8 DEF RecordsInv, FinishedInv, Scores

-----------------------------------------------------------------------------
(* The threads of the pool: one fetch moves on.                            *)
FetchMoves(c, from, to) == fetch[c] \in from /\ fetch' = [fetch EXCEPT ![c] = to]

LEMMA FetchMovesKeep ==
  ASSUME RecordsInv, NEW c \in Cves, NEW from \in SUBSET {"queued", "cleared", "sent", "kept"}, NEW to \in Fetches,
         FetchMoves(c, from, to), UNCHANGED <<kept, out, used, thread, saved, late>>,
         answer' = [answer EXCEPT ![c] = answer'[c]], answer'[c] \in Answers,
         answer[c] = "missing" => answer'[c] = "missing", AnswerInv(c)',
         stopping' \in BOOLEAN, sentAfter' \in Nat, CountInv'
  PROVE  RecordsInv'
<1>1. RecordsTypeOK'
  BY DEF RecordsInv, RecordsTypeOK, FetchMoves
<1>2. fetch[c] \in {"queued", "cleared", "sent", "kept"}
  BY DEF FetchMoves
<1>3. c \notin used /\ out[c] # "new" /\ thread # "ended"
  BY <1>2 DEF RecordsInv, UsedInv, FinishedInv, Ended
<1>4. out[c] = "nothing" => answer'[c] = "missing" \/ kept[c] \notin {"fresh", "expired"}
  BY DEF RecordsInv, UsedInv
<1>5. UsedInv(c)'
  BY <1>3, <1>4 DEF RecordsInv, UsedInv
<1>6. \A d \in Cves \ {c} : AnswerInv(d)' /\ UsedInv(d)'
  BY DEF RecordsInv, RecordsTypeOK, AnswerInv, UsedInv, FetchMoves
<1> QED
  BY <1>1, <1>3, <1>5, <1>6 DEF RecordsInv, FinishedInv

(* A fetch is cleared only while the pool may ask.                         *)
LEMMA BeginsKeeps ==
  ASSUME RecordsInv, NEW c \in Cves, Begins(c)
  PROVE  RecordsInv'
<1>1. UNCHANGED <<kept, answer, stopping, out, used, thread, saved, late, sentAfter>> /\ fetch[c] = "queued"
  BY DEF Begins
<1>2. /\ Busy \in SUBSET Cves /\ Cleared \in SUBSET Cves /\ Cleared \subseteq Busy
      /\ Cardinality(Busy) \in Nat /\ Cardinality(Cleared) \in Nat
  <2>1. Busy \in SUBSET Cves /\ Cleared \in SUBSET Cves /\ Cleared \subseteq Busy
    BY DEF Busy, Cleared
  <2> QED
    BY <2>1, CountsAreNumbers
<1>3. CASE ~stopping /\ fetch' = [fetch EXCEPT ![c] = "cleared"]
  <2>1. Busy' = Busy \cup {c}
    BY <1>3 DEF Busy, RecordsInv, RecordsTypeOK
  <2>2. Cardinality(Busy') <= Workers
    BY <2>1, <1>2, WithOneMore, CountsAreNumbers, RecordsAssumption DEF Begins
  <2>3. CountInv'
    BY <2>2, <1>1, <1>3 DEF CountInv, RecordsInv
  <2>4. FetchMoves(c, {"queued"}, "cleared")
    BY <1>1, <1>3 DEF FetchMoves
  <2>5. AnswerInv(c)' /\ answer' = [answer EXCEPT ![c] = answer'[c]] /\ answer'[c] \in Answers
    BY <1>1, <1>3 DEF RecordsInv, RecordsTypeOK, AnswerInv
  <2> QED
    BY <1>1, <2>3, <2>4, <2>5, FetchMovesKeep DEF Fetches, RecordsInv, RecordsTypeOK
<1>4. CASE fetch' = [fetch EXCEPT ![c] = "unanswered"]
  <2>1. Busy' \subseteq Busy /\ Cleared' \subseteq Cleared
    BY <1>4, <1>1 DEF Busy, Cleared, RecordsInv, RecordsTypeOK
  <2>2. CountInv'
    BY <2>1, <1>1, CountKept
  <2>3. FetchMoves(c, {"queued"}, "unanswered")
    BY <1>1, <1>4 DEF FetchMoves
  <2>4. AnswerInv(c)' /\ answer' = [answer EXCEPT ![c] = answer'[c]] /\ answer'[c] \in Answers
    BY <1>1, <1>4 DEF RecordsInv, RecordsTypeOK, AnswerInv
  <2> QED
    BY <1>1, <2>2, <2>3, <2>4, FetchMovesKeep DEF Fetches, Ended, RecordsInv, RecordsTypeOK
<1> QED
  BY <1>3, <1>4 DEF Begins

(* A request that goes out after the stop was one of the cleared.          *)
LEMMA SendingKeeps ==
  ASSUME RecordsInv, NEW c \in Cves, Sends(c)
  PROVE  RecordsInv'
<1>1. /\ UNCHANGED <<kept, answer, stopping, out, used, thread, saved, late>>
      /\ fetch[c] = "cleared" /\ fetch' = [fetch EXCEPT ![c] = "sent"]
      /\ sentAfter' = IF stopping THEN sentAfter + 1 ELSE 0
  BY DEF Sends
<1>2. Busy' = Busy /\ Cleared' = Cleared \ {c} /\ c \in Cleared /\ Cleared \in SUBSET Cves
  BY <1>1 DEF Busy, Cleared, RecordsInv, RecordsTypeOK
<1>3. /\ Cardinality(Cleared') = Cardinality(Cleared) - 1
      /\ Cardinality(Cleared) \in Nat /\ Cardinality(Cleared') \in Nat
  BY <1>2, WithOneLess, CountsAreNumbers
<1>4. CountInv'
  BY <1>1, <1>2, <1>3, RecordsAssumption DEF CountInv, RecordsInv, RecordsTypeOK
<1>5. FetchMoves(c, {"cleared"}, "sent")
  BY <1>1 DEF FetchMoves
<1>6. AnswerInv(c)' /\ answer' = [answer EXCEPT ![c] = answer'[c]] /\ answer'[c] \in Answers
  BY <1>1 DEF RecordsInv, RecordsTypeOK, AnswerInv
<1>7. sentAfter' \in Nat /\ stopping' \in BOOLEAN
  BY <1>1 DEF RecordsInv, RecordsTypeOK
<1> QED
  BY <1>1, <1>4, <1>5, <1>6, <1>7, FetchMovesKeep DEF Fetches

LEMMA KeepsKeeps ==
  ASSUME RecordsInv, NEW c \in Cves, Keeps(c)
  PROVE  RecordsInv'
<1>1. /\ UNCHANGED <<kept, stopping, out, used, thread, saved, late, sentAfter>>
      /\ fetch[c] = "sent" /\ fetch' = [fetch EXCEPT ![c] = "kept"] /\ answer[c] = "none"
  BY DEF Keeps, RecordsInv, AnswerInv
<1>2. answer' = [answer EXCEPT ![c] = answer'[c]] /\ answer'[c] \in {"found", "missing"}
  <2>1. PICK state \in {"found", "missing"} : answer' = [answer EXCEPT ![c] = state]
    BY DEF Keeps
  <2> QED
    BY <2>1 DEF RecordsInv, RecordsTypeOK
<1>3. Busy' \subseteq Busy /\ Cleared' \subseteq Cleared
  BY <1>1 DEF Busy, Cleared, RecordsInv, RecordsTypeOK
<1>4. CountInv'
  BY <1>1, <1>3, CountKept
<1>5. FetchMoves(c, {"sent"}, "kept") /\ AnswerInv(c)'
  BY <1>1, <1>2 DEF FetchMoves, AnswerInv, RecordsInv, RecordsTypeOK
<1> QED
  BY <1>1, <1>2, <1>4, <1>5, FetchMovesKeep DEF Fetches, Answers, RecordsInv, RecordsTypeOK

LEMMA EndingKeeps ==
  ASSUME RecordsInv, NEW c \in Cves, Ends(c)
  PROVE  RecordsInv'
<1>1. /\ UNCHANGED <<kept, answer, stopping, out, used, thread, saved, late, sentAfter>>
      /\ fetch[c] = "kept" /\ answer[c] \in {"found", "missing"} /\ fetch' = [fetch EXCEPT ![c] = answer[c]]
  BY DEF Ends, RecordsInv, AnswerInv
<1>2. Busy' \subseteq Busy /\ Cleared' \subseteq Cleared
  BY <1>1 DEF Busy, Cleared, RecordsInv, RecordsTypeOK
<1>3. CountInv'
  BY <1>1, <1>2, CountKept
<1>4. FetchMoves(c, {"kept"}, answer[c]) /\ AnswerInv(c)'
  BY <1>1 DEF FetchMoves, AnswerInv, RecordsInv, RecordsTypeOK
<1>5. answer' = [answer EXCEPT ![c] = answer'[c]] /\ answer'[c] \in Answers
  BY <1>1 DEF RecordsInv, RecordsTypeOK
<1> QED
  BY <1>1, <1>3, <1>4, <1>5, FetchMovesKeep DEF Fetches, Ended, RecordsInv, RecordsTypeOK

(* The stop comes from a thread whose request was out, so that one fewer   *)
(* than all of them can still send.                                        *)
LEMMA IsNotAnsweredKeeps ==
  ASSUME RecordsInv, NEW c \in Cves, IsNotAnswered(c)
  PROVE  RecordsInv'
<1>1. /\ UNCHANGED <<kept, answer, out, used, thread, saved, late, sentAfter>>
      /\ fetch[c] = "sent" /\ fetch' = [fetch EXCEPT ![c] = "unanswered"]
      /\ stopping' \in {stopping, TRUE}
  BY DEF IsNotAnswered
<1>2. /\ Busy \in SUBSET Cves /\ c \in Busy /\ Cleared \subseteq Busy \ {c}
      /\ Busy' = Busy \ {c} /\ Cleared' = Cleared
  BY <1>1 DEF Busy, Cleared, RecordsInv, RecordsTypeOK
<1>3. /\ Busy \ {c} \in SUBSET Cves /\ Cardinality(Busy \ {c}) = Cardinality(Busy) - 1
      /\ Cardinality(Cleared) <= Cardinality(Busy \ {c})
  BY <1>2, WithOneLess, Smaller
<1>4. Cardinality(Busy) \in Nat /\ Cardinality(Cleared) \in Nat
  BY <1>2, CountsAreNumbers
<1>5. Cardinality(Busy') <= Workers /\ Cardinality(Cleared') < Workers
  BY <1>2, <1>3, <1>4, RecordsAssumption DEF CountInv, RecordsInv
<1>6. CountInv'
  <2>1. CASE stopping
    BY <1>1, <1>2, <1>5, <2>1 DEF CountInv, RecordsInv
  <2>2. CASE ~stopping
    BY <1>1, <1>4, <1>2, <1>5, <2>2, RecordsAssumption DEF CountInv, RecordsInv, RecordsTypeOK
  <2> QED
    BY <2>1, <2>2
<1>7. FetchMoves(c, {"sent"}, "unanswered") /\ AnswerInv(c)'
  BY <1>1 DEF FetchMoves, AnswerInv, RecordsInv, RecordsTypeOK
<1>8. answer' = [answer EXCEPT ![c] = answer'[c]] /\ answer'[c] \in Answers
  BY <1>1 DEF RecordsInv, RecordsTypeOK
<1>9. stopping' \in BOOLEAN /\ sentAfter' \in Nat
  BY <1>1 DEF RecordsInv, RecordsTypeOK
<1> QED
  BY <1>1, <1>6, <1>7, <1>8, <1>9, FetchMovesKeep DEF Fetches, Ended

-----------------------------------------------------------------------------
(* The inductive invariant of load(), finish() and the threads of the pool *)
(* (cvss_select.py:137-249).                                               *)
THEOREM RecordsAlways == RecordsSpec => []RecordsInv
<1>1. RecordsInv /\ [RecordsNext]_recordsVars => RecordsInv'
  <2> SUFFICES ASSUME RecordsInv, [RecordsNext]_recordsVars PROVE RecordsInv'
    OBVIOUS
  <2>1. CASE UNCHANGED recordsVars
    BY <2>1 DEF RecordsInv, RecordsTypeOK, AnswerInv, UsedInv, FinishedInv, CountInv, Busy, Cleared, recordsVars
  <2>2. CASE PrefetchesEarly
    BY <2>2, PrefetchKeeps, RecordsAssumption DEF PrefetchesEarly
  <2>3. CASE LoadBegins
    BY <2>3, PrefetchKeeps DEF LoadBegins
  <2>4. CASE WaitEnds \/ LoadEnds
    BY <2>4, ThreadKeeps
  <2>5. CASE Finishes
    BY <2>5, FinishesKeeps
  <2>6. CASE \E c \in Cves : \/ Scores(c) \/ Begins(c) \/ Sends(c) \/ Keeps(c) \/ Ends(c)
                           \/ IsNotAnswered(c)
    BY <2>6, ScoresKeeps, BeginsKeeps, SendingKeeps, KeepsKeeps, EndingKeeps, IsNotAnsweredKeeps
  <2> QED
    BY <2>1, <2>2, <2>3, <2>4, <2>5, <2>6 DEF RecordsNext
<1> QED
  BY RecordsBegin, <1>1, PTL DEF RecordsSpec

(* No failure takes a record away, every answer is used or counted as late,*)
(* and once told to stop the pool sends only what its other threads had    *)
(* begun, for any number of CVEs and threads (cvss_select.py:137-249).     *)
THEOREM RecordsAlwaysHold == RecordsSpec => []RecordsHold
<1>1. RecordsInv => RecordsHold
  <2> SUFFICES ASSUME RecordsInv PROVE RecordsHold
    OBVIOUS
  <2>1. RecordsAreKept
    BY DEF RecordsInv, UsedInv, RecordsAreKept
  <2>2. ASSUME thread = "ended"
        PROVE  {c \in Cves \ used : fetch[c] \in {"found", "missing"}}
                 = {c \in Cves : answer[c] = "found" /\ out[c] # "new"}
                     \cup {c \in Cves : answer[c] = "missing" /\ c \notin used}
    BY <2>2 DEF RecordsInv, RecordsTypeOK, FinishedInv, AnswerInv, UsedInv, Ended
  <2>3. NoAnswerForgotten
    BY <2>2 DEF NoAnswerForgotten, RecordsInv, FinishedInv
  <2>4. Cleared \in SUBSET Cves
    BY DEF Cleared
  <2>5. Cardinality(Cleared) \in Nat
    BY <2>4, CountsAreNumbers
  <2>6. StopsAsking
    BY <2>5, RecordsAssumption DEF RecordsInv, RecordsTypeOK, CountInv, StopsAsking
  <2> QED
    BY <2>1, <2>3, <2>6 DEF RecordsHold
<1> QED
  BY <1>1, RecordsAlways, PTL

-----------------------------------------------------------------------------
(* Wazuh.  What it pages through is sorted: the list of agents by id, the   *)
(* documents of an agent by their sort values.                              *)
Increasing(s) == \A i, j \in DOMAIN s : i < j => s[i] < s[j]

(* Each member of S is at its rank.                                         *)
LEMMA SortedExists ==
  ASSUME NEW S \in SUBSET Int, IsFiniteSet(S)
  PROVE  \E s \in [1..Cardinality(S) -> S] : Increasing(s)
<1> DEFINE n == Cardinality(S)
           upTo(a) == {b \in S : b <= a}
           rank == [a \in S |-> Cardinality(upTo(a))]
<1>1. n \in Nat
  BY FS_CardinalityType
<1>2. ASSUME NEW a \in S PROVE IsFiniteSet(upTo(a)) /\ rank[a] \in 1..n
  <2>1. upTo(a) \in SUBSET S /\ a \in upTo(a)
    OBVIOUS
  <2>2. IsFiniteSet(upTo(a)) /\ Cardinality(upTo(a)) \in Nat /\ Cardinality(upTo(a)) <= n
    BY <2>1, FS_Subset, FS_CardinalityType
  <2>3. Cardinality(upTo(a)) # 0
    BY <2>1, <2>2, FS_EmptySet
  <2> QED
    BY <1>1, <2>2, <2>3
<1>3. ASSUME NEW a \in S, NEW b \in S, a < b PROVE rank[a] < rank[b]
  <2>0. a \in Int /\ b \in Int /\ \A c \in S : c \in Int
    OBVIOUS
  <2>1. upTo(a) \in SUBSET upTo(b) /\ b \in upTo(b) /\ b \notin upTo(a)
    <3>1. \A c \in S : c <= a => c <= b
      BY <1>3, <2>0
    <3>2. b <= b /\ ~(b <= a)
      BY <1>3, <2>0
    <3> QED
      BY <3>1, <3>2
  <2>2. Cardinality(upTo(a)) <= Cardinality(upTo(b)) /\ Cardinality(upTo(a)) # Cardinality(upTo(b))
    BY <1>2, <2>1, FS_Subset
  <2> QED
    BY <1>2, <2>2
<1> HIDE DEF n, rank
<1>4. rank \in [S -> 1..n]
  BY <1>2 DEF rank
<1>5. rank \in Injection(S, 1..n)
  BY <1>3, <1>4 DEF Injection, IsInjective
<1>6. IsFiniteSet(1..n) /\ Cardinality(1..n) = n
  BY <1>1, FS_Interval
<1>7. rank \in Surjection(S, 1..n)
  BY <1>5, <1>6, FS_Injection DEF n
<1>8. \A i \in 1..n : \E a \in S : rank[a] = i
  BY <1>7 DEF Surjection
<1> DEFINE s == [i \in 1..n |-> CHOOSE a \in S : rank[a] = i]
<1>9. \A i \in 1..n : s[i] \in S /\ rank[s[i]] = i
  BY <1>8
<1>10. ASSUME NEW i \in 1..n, NEW j \in 1..n, i < j PROVE s[i] < s[j]
  <2>1. s[i] \in Int /\ s[j] \in Int /\ rank[s[i]] = i /\ rank[s[j]] = j /\ s[i] \in S /\ s[j] \in S
    BY <1>9
  <2>2. s[i] # s[j] /\ ~(s[j] < s[i])
    BY <1>1, <1>3, <1>10, <2>1
  <2> QED
    BY <2>1, <2>2
<1>11. s \in [1..n -> S]
  BY <1>9
<1> HIDE DEF s
<1>12. Increasing(s)
  BY <1>10, <1>11 DEF Increasing
<1> QED
  BY <1>11, <1>12 DEF n

LEMMA SortedIs ==
  ASSUME NEW S \in SUBSET Int, IsFiniteSet(S)
  PROVE  /\ Cardinality(S) \in Nat
         /\ Sorted(S) \in [1..Cardinality(S) -> S] /\ Increasing(Sorted(S))
         /\ \A a \in S : \E i \in 1..Cardinality(S) : Sorted(S)[i] = a
<1> DEFINE n == Cardinality(S)
           s == Sorted(S)
<1>1. n \in Nat
  BY FS_CardinalityType
<1>2. s \in [1..n -> S] /\ Increasing(s)
  BY SortedExists DEF Sorted, Increasing
<1> HIDE DEF s
<1>3. \A i \in 1..n : s[i] \in Int
  BY <1>2
<1>4. s \in Injection(1..n, S)
  <2>1. ASSUME NEW i \in 1..n, NEW j \in 1..n, s[i] = s[j] PROVE i = j
    <3>1. ~(s[i] < s[j]) /\ ~(s[j] < s[i])
      BY <1>3, <2>1
    <3> QED
      BY <1>1, <1>2, <3>1 DEF Increasing
  <2> QED
    BY <1>2, <2>1 DEF Injection, IsInjective
<1>5. Cardinality(1..n) = n
  BY <1>1, FS_Interval
<1>6. s \in Surjection(1..n, S)
  BY <1>4, <1>5, FS_Injection
<1> QED
  BY <1>1, <1>2, <1>6 DEF s, Surjection

(* The first so many of a sorted set are so many.                           *)
FirstFew(s, m) == {s[i] : i \in 1..m}

LEMMA FirstFewAre ==
  ASSUME NEW S \in SUBSET Int, IsFiniteSet(S), NEW m \in 0..Cardinality(S)
  PROVE  LET s == Sorted(S)
         IN  /\ FirstFew(s, m) \subseteq S /\ IsFiniteSet(FirstFew(s, m)) /\ Cardinality(FirstFew(s, m)) = m
             /\ m = Cardinality(S) => FirstFew(s, m) = S
<1> DEFINE s == Sorted(S)
           n == Cardinality(S)
           T == FirstFew(s, m)
           f == [i \in 1..m |-> s[i]]
<1>1. n \in Nat /\ s \in [1..n -> S] /\ Increasing(s) /\ \A a \in S : \E i \in 1..n : s[i] = a
  BY SortedIs
<1> HIDE DEF s, n
<1>2. m \in Nat /\ m <= n /\ 1..m \subseteq 1..n
  BY <1>1 DEF n
<1>3. T \subseteq S
  BY <1>1, <1>2 DEF FirstFew
<1>4. f \in [1..m -> T] /\ \A t \in T : \E i \in 1..m : f[i] = t
  BY DEF FirstFew
<1>5. ASSUME NEW i \in 1..m, NEW j \in 1..m, f[i] = f[j] PROVE i = j
  <2>1. i \in 1..n /\ j \in 1..n /\ s[i] \in Int /\ s[i] = s[j]
    BY <1>1, <1>2, <1>5
  <2>2. ~(s[i] < s[j]) /\ ~(s[j] < s[i])
    BY <2>1
  <2> QED
    BY <1>1, <2>1, <2>2 DEF Increasing
<1> HIDE DEF T, f
<1>6. f \in Bijection(1..m, T)
  BY <1>4, <1>5 DEF Bijection, Injection, Surjection, IsInjective
<1>7. IsFiniteSet(1..m) /\ Cardinality(1..m) = m
  BY <1>2, FS_Interval
<1>8. IsFiniteSet(T) /\ Cardinality(T) = m
  BY <1>6, <1>7, FS_Bijection DEF ExistsBijection
<1>9. m = n => T = S
  BY <1>1, <1>3 DEF T, FirstFew
<1> QED
  BY <1>3, <1>8, <1>9 DEF s, n, T

(* wazuh.py:239-248, 308-332: a page is what follows in order, in full or   *)
(* to the end.                                                              *)
LEMMA FirstOfIs ==
  ASSUME NEW S, NEW s \in Seq(S), NEW n \in Nat
  PROVE  /\ FirstOf(s, n) \in Seq(S) /\ Len(FirstOf(s, n)) = (IF n < Len(s) THEN n ELSE Len(s))
         /\ \A i \in 1..Len(FirstOf(s, n)) : FirstOf(s, n)[i] = s[i]
<1> DEFINE k == IF n < Len(s) THEN n ELSE Len(s)
<1>1. Len(s) \in Nat /\ k \in 0..Len(s) /\ \A i \in 1..Len(s) : s[i] \in S
  BY LenProperties
<1> HIDE DEF k
<1>2. /\ SubSeq(s, 1, k) \in Seq(S) /\ Len(SubSeq(s, 1, k)) = k
      /\ \A i \in 1..k : SubSeq(s, 1, k)[i] = s[i]
  <2>1. k \in Int /\ \A i \in 1..k : s[i] \in S
    BY <1>1
  <2>2. /\ SubSeq(s, 1, k) \in Seq(S) /\ Len(SubSeq(s, 1, k)) = (IF 1 <= k THEN k - 1 + 1 ELSE 0)
        /\ \A i \in 1..(k - 1 + 1) : SubSeq(s, 1, k)[i] = s[1 + i - 1]
    BY <2>1, SubSeqProperties
  <2> QED
    BY <1>1, <2>2
<1> QED
  BY <1>2 DEF FirstOf, k

LEMMA PageIs ==
  ASSUME NEW n \in Nat, NEW S \in SUBSET Nat, registered = S, IsFiniteSet(S), AgentPage \in Nat
  PROVE  LET page == PageFrom(n)
             all == Sorted(S)
         IN  /\ page \in Seq(S) /\ Len(page) \in Nat /\ Len(page) <= AgentPage
             /\ page # <<>> => n + Len(page) <= Cardinality(S)
             /\ Len(page) < AgentPage => n + Len(page) >= Cardinality(S)
             /\ \A i \in 1..Len(page) : page[i] = all[n + i]
<1> DEFINE all == Sorted(S)
           N == Cardinality(S)
           tail == SubSeq(all, n + 1, N)
<1>1. N \in Nat /\ all \in [1..N -> S]
  BY SortedIs
<1> HIDE DEF all, N
<1>2. /\ tail \in Seq(S) /\ Len(tail) = (IF n + 1 <= N THEN N - n ELSE 0)
      /\ \A i \in 1..(N - n) : tail[i] = all[n + i]
  <2>1. n + 1 \in Int /\ N \in Int /\ \A i \in (n + 1)..N : all[i] \in S
    BY <1>1
  <2>2. /\ tail \in Seq(S) /\ Len(tail) = (IF n + 1 <= N THEN N - (n + 1) + 1 ELSE 0)
        /\ \A i \in 1..(N - (n + 1) + 1) : tail[i] = all[(n + 1) + i - 1]
    BY <2>1, SubSeqProperties
  <2> QED
    BY <1>1, <2>2
<1> HIDE DEF tail
<1> DEFINE page == FirstOf(tail, AgentPage)
<1>3. /\ page \in Seq(S) /\ Len(page) = (IF AgentPage < Len(tail) THEN AgentPage ELSE Len(tail))
      /\ \A i \in 1..Len(page) : page[i] = tail[i]
  BY <1>2, FirstOfIs
<1>4. PageFrom(n) = page
  BY DEF PageFrom, page, tail, N, all
<1> HIDE DEF page
<1>5. page # <<>> => Len(page) # 0
  BY <1>3, EmptySeq
<1>6. /\ Len(page) \in Nat /\ Len(page) <= AgentPage /\ (page # <<>> => n + Len(page) <= N)
      /\ (Len(page) < AgentPage => n + Len(page) >= N) /\ \A i \in 1..Len(page) : page[i] = all[n + i]
  BY <1>1, <1>2, <1>3, <1>5
<1> QED
  BY <1>3, <1>4, <1>6 DEF N, all

-----------------------------------------------------------------------------
(* The invariant.                                                           *)
Before == {"login", "agents"}
WazuhStages == Before \cup {"inventory", "cves", "packages", "done", "failed"}

WazuhTypeOK ==
  /\ registered \in SUBSET Agents /\ always \subseteq registered /\ removals \in Nat
  /\ documents \in [Agents -> SUBSET Docs] /\ stage \in WazuhStages
  /\ listed \in Seq(Agents) /\ turn \in Nat /\ rows \in Seq(Docs) /\ skipped \in {{}, {Server}}
  /\ found \in [Agents -> SUBSET Int]

(* wazuh.py:239-248: the agents there are now up to the last one listed,    *)
(* and those of them the offset has passed over. Behind is the shorter of   *)
(* the two lists by every agent that went since it was listed.              *)
Behind == {a \in registered : \E i \in DOMAIN listed : a <= listed[i]}
Missed == Behind \ ToSet(listed)

ListedInv ==
  /\ Increasing(listed)
  /\ stage \in Before => /\ Cardinality(Behind) <= Len(listed)
                         /\ Cardinality(Missed) + (Len(listed) - Cardinality(Behind)) <= removals
  /\ stage \in Before \cup {"inventory"} => skipped = {}
  /\ stage \notin Before \cup {"failed"} => Cardinality(Overlooked) <= removals

(* wazuh.py:308-332: rows are in order, and all there is up to the last.    *)
RowsInv ==
  stage = "cves" =>
    /\ Increasing(rows) /\ Len(rows) <= Cap /\ steady \subseteq documents[Turn]
    /\ rows # <<>> => \A d \in steady : d <= Last(rows) => d \in ToSet(rows)

(* wazuh.py:334-348: whose turn it is, and what was said of those before.   *)
TurnInv ==
  /\ stage \in Before \cup {"inventory", "failed"} => turn = 0
  /\ stage \in {"cves", "packages"} => turn \in DOMAIN listed
  /\ stage = "done" => \A i \in DOMAIN listed : i < turn
  /\ \A i \in DOMAIN listed : i < turn /\ found[listed[i]] = {} => listed[i] \in packages

WazuhInv == WazuhTypeOK /\ ListedInv /\ RowsInv /\ TurnInv

LEMMA WazuhFacts ==
  ASSUME WazuhTypeOK
  PROVE  /\ registered \in SUBSET Nat /\ IsFiniteSet(registered) /\ IsFiniteSet(Behind) /\ IsFiniteSet(Missed)
         /\ Cardinality(Behind) \in Nat /\ Cardinality(Missed) \in Nat /\ IsFiniteSet(always)
         /\ IsFiniteSet(Overlooked) /\ Cardinality(Overlooked) \in Nat
         /\ Len(listed) \in Nat /\ DOMAIN listed = 1..Len(listed) /\ \A i \in DOMAIN listed : listed[i] \in Agents /\ listed[i] \in Nat
         /\ AgentPage \in Nat \ {0} /\ PageSize \in Nat \ {0} /\ Cap \in Nat \ {0}
<1>1. registered \in SUBSET Nat /\ IsFiniteSet(registered)
  BY FS_Subset, WazuhAssumption DEF WazuhTypeOK
<1>2. Behind \in SUBSET registered /\ Missed \in SUBSET registered /\ always \in SUBSET registered
      /\ Overlooked \in SUBSET registered
  BY DEF Behind, Missed, Overlooked, WazuhTypeOK
<1>3. IsFiniteSet(Behind) /\ IsFiniteSet(Missed) /\ IsFiniteSet(always) /\ IsFiniteSet(Overlooked)
  BY <1>1, <1>2, FS_Subset
<1>4. Cardinality(Behind) \in Nat /\ Cardinality(Missed) \in Nat /\ Cardinality(Overlooked) \in Nat
  BY <1>3, FS_CardinalityType
<1>5. Len(listed) \in Nat /\ DOMAIN listed = 1..Len(listed) /\ \A i \in DOMAIN listed : listed[i] \in Agents
  BY LenProperties DEF WazuhTypeOK
<1> QED
  BY <1>1, <1>3, <1>4, <1>5, WazuhAssumption

LEMMA UnionIsAtMost ==
  ASSUME NEW S, IsFiniteSet(S), NEW T, IsFiniteSet(T), NEW U \in SUBSET (S \cup T)
  PROVE  /\ IsFiniteSet(U) /\ Cardinality(U) \in Nat /\ Cardinality(S) \in Nat /\ Cardinality(T) \in Nat
         /\ Cardinality(U) <= Cardinality(S) + Cardinality(T)
<1>1. IsFiniteSet(S \cup T) /\ Cardinality(S \cup T) = Cardinality(S) + Cardinality(T) - Cardinality(S \cap T)
  BY FS_Union
<1>2. IsFiniteSet(S \cap T)
  BY FS_Intersection
<1>3. Cardinality(S) \in Nat /\ Cardinality(T) \in Nat /\ Cardinality(S \cap T) \in Nat
  BY <1>2, FS_CardinalityType
<1>4. IsFiniteSet(U) /\ Cardinality(U) <= Cardinality(S \cup T)
  BY <1>1, FS_Subset
<1>5. Cardinality(U) \in Nat
  BY <1>4, FS_CardinalityType
<1> QED
  BY <1>1, <1>3, <1>4, <1>5

(* A page begins behind all that was listed: an offset only ever skips.     *)
LEMMA ListsOn ==
  ASSUME WazuhTypeOK, ListedInv, ListsPage
  PROVE  ListedInv'
<1> DEFINE S == registered
           all == Sorted(S)
           N == Cardinality(S)
           n == Len(listed)
           page == PageFrom(n)
           k == Len(page)
<1>1. /\ S \in SUBSET Nat /\ IsFiniteSet(S) /\ N \in Nat /\ n \in Nat /\ S \in SUBSET Int
      /\ all \in [1..N -> S] /\ Increasing(all) /\ \A a \in S : \E i \in 1..N : all[i] = a
  <2>1. S \in SUBSET Nat /\ IsFiniteSet(S) /\ n \in Nat
    BY WazuhFacts
  <2>2. S \in SUBSET Int
    BY <2>1
  <2>3. /\ N \in Nat /\ all \in [1..N -> S] /\ Increasing(all)
        /\ \A a \in S : \E i \in 1..N : all[i] = a
    BY <2>1, <2>2, SortedIs
  <2> QED
    BY <2>1, <2>2, <2>3
<1>2. /\ page \in Seq(S) /\ k \in Nat /\ k <= AgentPage
      /\ page # <<>> => n + k <= N
      /\ k < AgentPage => n + k >= N
      /\ \A i \in 1..k : page[i] = all[n + i]
  BY <1>1, WazuhFacts, PageIs
<1>3. /\ listed' = listed \o page /\ stage' = (IF k < AgentPage \/ n + k >= MostAgents THEN "inventory" ELSE "agents")
      /\ UNCHANGED <<registered, always, removals, skipped>> /\ stage = "agents"
  BY DEF ListsPage
<1>4. /\ Cardinality(Behind) <= n /\ Cardinality(Missed) + (n - Cardinality(Behind)) <= removals
      /\ Increasing(listed) /\ removals \in Nat /\ always \subseteq S /\ skipped = {}
  BY <1>3 DEF ListedInv, Before, WazuhTypeOK
<1> HIDE DEF all, N, n, page, k
<1>5. CASE page = <<>>
  <2>1. k = 0 /\ listed' = listed
    BY <1>3, <1>5, ConcatEmptySeq, EmptySeq DEF WazuhTypeOK, k
  <2>2. N <= n /\ stage' = "inventory"
    BY <1>1, <1>2, <1>3, <2>1, WazuhFacts
  <2>3. Cardinality(S \ Behind) = N - Cardinality(Behind) /\ IsFiniteSet(S \ Behind)
    <3>1. S \cap Behind = Behind
      BY DEF Behind
    <3> QED
      BY <1>1, <3>1, FS_Difference DEF N
  <2>4. always \ ToSet(listed) \in SUBSET (Missed \cup (S \ Behind))
    BY <1>4 DEF Missed
  <2>5. /\ Cardinality(always \ ToSet(listed)) <= Cardinality(Missed) + Cardinality(S \ Behind)
        /\ Cardinality(always \ ToSet(listed)) \in Nat
    BY <2>3, <2>4, WazuhFacts, UnionIsAtMost
  <2>8. Cardinality(always \ ToSet(listed)) <= removals
    BY <1>1, <1>4, <2>2, <2>3, <2>5, WazuhFacts
  <2>9. Cardinality(Overlooked') <= removals
    <3>1. Overlooked' \in SUBSET (always \ ToSet(listed))
      BY <1>3, <2>1 DEF Overlooked
    <3>2. Cardinality(Overlooked') <= Cardinality(always \ ToSet(listed)) /\ Cardinality(Overlooked') \in Nat
      BY <3>1, <2>3, <2>4, WazuhFacts, UnionIsAtMost, FS_Subset, FS_CardinalityType
    <3> QED
      BY <1>4, <2>5, <2>8, <3>2
  <2> QED
    BY <1>3, <1>4, <2>1, <2>2, <2>9 DEF ListedInv, Before
<1>6. CASE page # <<>>
  <2>1. k # 0 /\ n + k <= N
    BY <1>2, <1>6, EmptySeq DEF k
  <2>2. n \in 0..N /\ n + k \in 0..N
    BY <1>1, <1>2, <2>1
  <2>3. ASSUME NEW j \in 1..N, all[j] \in Behind PROVE j <= n
    <3>1. j \in 0..N
      OBVIOUS
    <3>2. FirstFew(all, j) \in SUBSET Behind
      <4>1. ASSUME NEW i \in 1..j PROVE all[i] \in Behind
        <5>1. i \in 1..N /\ all[i] \in S /\ all[j] \in S /\ (i = j \/ i < j)
          BY <1>1, <4>1
        <5>2. all[i] \in Int /\ all[j] \in Int
          BY <1>1, <5>1
        <5>3. all[i] <= all[j]
          BY <1>1, <5>1, <5>2 DEF Increasing
        <5>4. PICK x \in DOMAIN listed : all[j] <= listed[x]
          BY <2>3 DEF Behind
        <5>5. all[i] <= listed[x]
          BY <5>2, <5>3, <5>4, WazuhFacts
        <5> QED
          BY <5>1, <5>5 DEF Behind
      <4> QED
        BY <4>1 DEF FirstFew
    <3>3. Cardinality(FirstFew(all, j)) = j
      BY <1>1, <3>1, FirstFewAre DEF all, N
    <3>4. j <= Cardinality(Behind)
      BY <3>2, <3>3, WazuhFacts, FS_Subset
    <3> QED
      BY <1>1, <1>4, <3>4, WazuhFacts
  <2>4. ASSUME NEW i \in 1..k, NEW x \in DOMAIN listed PROVE listed[x] < page[i]
    <3>1. n + i \in 1..N /\ page[i] = all[n + i] /\ all[n + i] \in S /\ ~(n + i <= n)
      BY <1>1, <1>2, <2>1
    <3>2. all[n + i] \notin Behind
      BY <2>3, <3>1
    <3>3. ~(page[i] <= listed[x]) /\ page[i] \in Nat /\ listed[x] \in Nat
      BY <1>1, <3>1, <3>2, WazuhFacts DEF Behind
    <3> QED
      BY <3>3
  <2>5. /\ listed' \in Seq(Agents) /\ Len(listed') = n + k /\ DOMAIN listed' = 1..(n + k)
        /\ \A i \in 1..n : listed'[i] = listed[i] /\ i \in DOMAIN listed
        /\ \A i \in 1..k : listed'[n + i] = all[n + i] /\ listed'[n + i] = page[i]
    <3>1. page \in Seq(Agents) /\ listed \in Seq(Agents)
      <4>1. S \subseteq Agents
        BY DEF WazuhTypeOK
      <4>2. \A i \in 1..k : page[i] \in Agents
        BY <1>2, <4>1, LenProperties DEF k
      <4>3. page = [i \in 1..k |-> page[i]]
        BY <1>2, LenProperties DEF k
      <4> QED
        BY <1>2, <4>2, <4>3, IsASeq DEF WazuhTypeOK
    <3>2. /\ listed' \in Seq(Agents) /\ Len(listed') = n + k
          /\ \A i \in 1..(n + k) : listed'[i] = IF i <= n THEN listed[i] ELSE page[i - n]
      BY <1>3, <3>1, ConcatProperties DEF n, k
    <3>3. DOMAIN listed' = 1..(n + k) /\ DOMAIN listed = 1..n
      BY <3>2, LenProperties, WazuhFacts DEF n
    <3>4. \A i \in 1..n : i \in 1..(n + k) /\ i <= n
      BY <1>1, <1>2
    <3>5. \A i \in 1..k : n + i \in 1..(n + k) /\ ~(n + i <= n) /\ (n + i) - n = i
      BY <1>1, <1>2
    <3> QED
      BY <1>2, <3>2, <3>3, <3>4, <3>5
  <2>6. \A i \in 1..(n + k) : i \in 1..n \/ \E j \in 1..k : i = n + j
    <3>1. ASSUME NEW i \in 1..(n + k), i \notin 1..n PROVE i - n \in 1..k /\ i = n + (i - n)
      BY <1>1, <1>2, <3>1
    <3> QED
      BY <3>1
  <2>7. Increasing(listed')
    <3>1. ASSUME NEW i \in 1..(n + k), NEW j \in 1..(n + k), i < j PROVE listed'[i] < listed'[j]
      <4>1. CASE i \in 1..n /\ j \in 1..n
        BY <1>4, <2>5, <3>1, <4>1 DEF Increasing
      <4>2. ASSUME i \in 1..n, NEW y \in 1..k, j = n + y PROVE listed'[i] < listed'[j]
        BY <2>4, <2>5, <4>2
      <4>3. ASSUME NEW x \in 1..k, i = n + x, NEW y \in 1..k, j = n + y PROVE listed'[i] < listed'[j]
        <5>1. n + x \in 1..N /\ n + y \in 1..N /\ n + x < n + y
          BY <1>1, <1>2, <2>1, <3>1, <4>3
        <5> QED
          BY <1>1, <2>5, <4>3, <5>1 DEF Increasing
      <4>4. ~(\E x \in 1..k : i = n + x) \/ ~(j \in 1..n)
        BY <1>1, <1>2, <3>1
      <4> QED
        BY <2>6, <4>1, <4>2, <4>3, <4>4
    <3> QED
      BY <2>5, <3>1 DEF Increasing
  <2>8. Behind' = FirstFew(all, n + k)
    <3>1. ASSUME NEW a \in S, NEW i \in 1..(n + k), a <= listed'[i] PROVE a \in FirstFew(all, n + k)
      <4>1. PICK j \in 1..N : all[j] = a
        BY <1>1
      <4>2. k \in 1..k /\ n + k \in 1..N /\ n + k \in 1..(n + k) /\ (i = n + k \/ i < n + k)
        BY <1>1, <1>2, <2>1
      <4>3. all[n + k] = listed'[n + k] /\ all[n + k] \in S /\ all[n + k] \in Int /\ a \in Int
        BY <1>1, <2>5, <4>2
      <4>6. listed'[i] \in Agents /\ Agents \subseteq Nat
        BY <2>5, LenProperties, WazuhAssumption
      <4>7. listed'[i] <= listed'[n + k] /\ listed'[i] \in Int
        <5>0. \A x \in Agents : x \in Int
          BY <4>6
        <5>1. listed'[i] \in Int /\ listed'[n + k] \in Int
          BY <4>3, <4>6, <5>0
        <5>2. i = n + k \/ listed'[i] < listed'[n + k]
          BY <2>5, <2>7, <4>2 DEF Increasing
        <5> QED
          BY <5>1, <5>2
      <4>4. ~(all[n + k] < all[j])
        BY <3>1, <4>1, <4>3, <4>7
      <4>5. j <= n + k
        BY <1>1, <4>2, <4>4 DEF Increasing
      <4> QED
        BY <4>1, <4>5 DEF FirstFew
    <3>2. ASSUME NEW j \in 1..(n + k) PROVE all[j] \in S /\ all[j] <= listed'[n + k]
      <4>1. j \in 1..N /\ n + k \in 1..N /\ listed'[n + k] = all[n + k] /\ (j = n + k \/ j < n + k)
        BY <1>1, <1>2, <2>1, <2>5
      <4>2. all[j] \in Int /\ all[n + k] \in Int /\ all[j] \in S
        BY <1>1, <4>1
      <4> QED
        BY <1>1, <4>1, <4>2 DEF Increasing
    <3>3. n + k \in DOMAIN listed'
      BY <1>1, <1>2, <2>1, <2>5
    <3>4. Behind' = {a \in S : \E i \in 1..(n + k) : a <= listed'[i]}
      BY <1>3, <2>5 DEF Behind
    <3> QED
      BY <2>5, <3>1, <3>2, <3>3, <3>4 DEF FirstFew
  <2>9. Cardinality(Behind') = n + k /\ IsFiniteSet(FirstFew(all, n)) /\ Cardinality(FirstFew(all, n)) = n /\ FirstFew(all, n) \subseteq S
    BY <1>1, <2>2, <2>8, FirstFewAre DEF all, N
  <2>10. Behind \subseteq FirstFew(all, n)
    <3>1. ASSUME NEW a \in Behind PROVE a \in FirstFew(all, n)
      <4>1. PICK j \in 1..N : all[j] = a
        BY <1>1 DEF Behind
      <4> QED
        BY <2>3, <4>1 DEF FirstFew
    <3> QED
      BY <3>1
  <2>11. Missed' \in SUBSET (Missed \cup (FirstFew(all, n) \ Behind))
    <3>1. ASSUME NEW a \in Missed' PROVE a \in FirstFew(all, n) /\ a \notin ToSet(listed)
      <4>1. a \in FirstFew(all, n + k) /\ \A i \in 1..(n + k) : listed'[i] # a
        BY <2>5, <2>8 DEF Missed, ToSet
      <4>2. PICK j \in 1..(n + k) : all[j] = a
        BY <4>1 DEF FirstFew
      <4>3. j \in 1..n
        BY <2>5, <2>6, <4>1, <4>2
      <4>4. \A i \in DOMAIN listed : listed[i] # a
        <5>1. \A i \in 1..n : i \in 1..(n + k) /\ listed'[i] = listed[i]
          BY <1>1, <1>2, <2>5
        <5> QED
          BY <4>1, <5>1, WazuhFacts DEF n
      <4> QED
        BY <4>2, <4>3, <4>4 DEF FirstFew, ToSet
    <3> QED
      BY <3>1 DEF Missed
  <2>12. Cardinality(FirstFew(all, n) \ Behind) = n - Cardinality(Behind) /\ IsFiniteSet(FirstFew(all, n) \ Behind)
    <3>1. FirstFew(all, n) \cap Behind = Behind
      BY <2>10
    <3> QED
      BY <2>9, <3>1, FS_Difference
  <2>13. /\ IsFiniteSet(Missed') /\ Cardinality(Missed') \in Nat
         /\ Cardinality(Missed') <= Cardinality(Missed) + Cardinality(FirstFew(all, n) \ Behind)
    BY <2>11, <2>12, WazuhFacts, UnionIsAtMost
  <2>14. Cardinality(Missed') <= removals
    BY <1>1, <1>4, <2>12, <2>13, WazuhFacts
  \* When the list ends here, it ends with all there are or with as many as it may have: either way no agent up
  \* to its last is overlooked but those the offset has passed over.
  <2>15. stage' = "inventory" => Cardinality(Overlooked') <= removals
    <3>1. SUFFICES ASSUME stage' = "inventory" PROVE Cardinality(Overlooked') <= removals
      OBVIOUS
    <3>2. Overlooked' \in SUBSET Missed'
      <4>1. CASE k < AgentPage
        <5>1. n + k = N
          BY <1>1, <1>2, <2>1, <4>1
        <5>2. Behind' = S
          BY <1>1, <2>2, <2>8, <5>1, FirstFewAre DEF all, N
        <5> QED
          BY <1>3, <1>4, <5>2 DEF Missed, Overlooked
      <4>2. CASE ~(k < AgentPage)
        <5>1. n + k >= MostAgents
          BY <1>3, <3>1, <4>2
        <5>2. Cardinality(skipped') = 0 /\ n + k \in Nat
          BY <1>1, <1>2, <1>3, <1>4, FS_EmptySet
        <5>3. Full'
          BY <2>5, <5>1, <5>2 DEF Full, MostAgents
        <5> QED
          BY <1>3, <1>4, <5>3 DEF Missed, Overlooked, Behind
      <4> QED
        BY <4>1, <4>2
    <3>3. Cardinality(Overlooked') <= Cardinality(Missed') /\ Cardinality(Overlooked') \in Nat
      BY <2>13, <3>2, FS_Subset, FS_CardinalityType
    <3> QED
      BY <1>4, <2>13, <2>14, <3>3
  <2>16. Cardinality(Behind)' <= Len(listed)' /\ Cardinality(Missed)' + (Len(listed)' - Cardinality(Behind)') <= removals'
    BY <1>1, <1>2, <1>3, <1>4, <2>5, <2>9, <2>13, <2>14
  <2> QED
    BY <1>3, <2>7, <2>15, <2>16 DEF ListedInv, Before
<1> QED
  BY <1>5, <1>6

(* The server leads the list, so that without it the list ends as before.   *)
LEMMA ServerLeads ==
  ASSUME WazuhTypeOK, ListedInv, Server \in ToSet(listed)
  PROVE  /\ listed # <<>> /\ listed[1] = Server
         /\ Tail(listed) \in Seq(Agents) /\ Len(Tail(listed)) = Len(listed) - 1
         /\ \A i \in 1..(Len(listed) - 1) : Tail(listed)[i] = listed[i + 1]
<1>1. PICK i \in DOMAIN listed : listed[i] = Server
  BY DEF ToSet
<1>2. DOMAIN listed = 1..Len(listed) /\ Len(listed) \in Nat /\ \A j \in DOMAIN listed : listed[j] \in Nat
  BY WazuhFacts
<1>3. 1 \in DOMAIN listed /\ (i = 1 \/ 1 < i)
  BY <1>1, <1>2
<1>4. i = 1
  BY <1>1, <1>2, <1>3 DEF ListedInv, Increasing, Server
<1>5. listed # <<>>
  BY <1>2, <1>3, EmptySeq
<1>6. /\ Tail(listed) \in Seq(Agents) /\ Len(Tail(listed)) = Len(listed) - 1
      /\ \A j \in 1..(Len(listed) - 1) : Tail(listed)[j] = listed[j + 1]
  BY <1>5, HeadTailProperties DEF WazuhTypeOK
<1> QED
  BY <1>1, <1>4, <1>5, <1>6

LEMMA InventoriesKeep ==
  ASSUME WazuhTypeOK, ListedInv, ReadsInventories
  PROVE  ListedInv' /\ listed' \in Seq(Agents) /\ skipped' \in {{}, {Server}}
<1>1. /\ UNCHANGED <<registered, always, removals>> /\ stage = "inventory" /\ stage' \in {"cves", "done"}
      /\ skipped = {} /\ Cardinality(Overlooked) <= removals /\ Increasing(listed) /\ removals \in Nat
      /\ listed \in Seq(Agents)
  BY DEF ReadsInventories, Starts, ListedInv, Before, WazuhTypeOK
<1>2. PICK left \in SUBSET ({Server} \cap ToSet(listed)) :
        skipped' = left /\ listed' = IF left = {} THEN listed ELSE Tail(listed)
  BY Zenon DEF ReadsInventories
<1>3. CASE left = {}
  <2>1. listed' = listed /\ skipped' = skipped
    BY <1>1, <1>2, <1>3
  <2>2. Overlooked' = Overlooked
    BY <1>1, <2>1 DEF Overlooked, Full
  <2> QED
    BY <1>1, <2>1, <2>2 DEF ListedInv, Before
<1>4. CASE left # {}
  <2>1. left = {Server} /\ Server \in ToSet(listed) /\ listed' = Tail(listed) /\ skipped' = {Server}
    BY <1>2, <1>4
  <2> DEFINE n == Len(listed)
  <2>2. /\ n \in Nat /\ n # 0 /\ DOMAIN listed = 1..n /\ listed[1] = Server
        /\ listed' \in Seq(Agents) /\ Len(listed') = n - 1 /\ DOMAIN listed' = 1..(n - 1)
        /\ \A i \in 1..(n - 1) : listed'[i] = listed[i + 1] /\ i + 1 \in DOMAIN listed
    <3>1. n \in Nat /\ DOMAIN listed = 1..n /\ n # 0
      BY <2>1, ServerLeads, WazuhFacts, EmptySeq
    <3>2. /\ listed[1] = Server /\ listed' \in Seq(Agents) /\ Len(listed') = n - 1
          /\ \A i \in 1..(n - 1) : listed'[i] = listed[i + 1]
      BY <2>1, ServerLeads
    <3> QED
      BY <3>1, <3>2, LenProperties
  <2> HIDE DEF n
  <2>3. Increasing(listed')
    <3>1. ASSUME NEW i \in 1..(n - 1), NEW j \in 1..(n - 1), i < j PROVE listed'[i] < listed'[j]
      <4>1. i + 1 \in DOMAIN listed /\ j + 1 \in DOMAIN listed /\ i + 1 < j + 1
        BY <2>2, <3>1
      <4> QED
        BY <1>1, <2>2, <4>1 DEF Increasing
    <3> QED
      BY <2>2, <3>1 DEF Increasing
  <2>4. Full' <=> Full
    <3>1. Cardinality(skipped') = 1 /\ Cardinality(skipped) = 0
      BY <1>1, <2>1, FS_Singleton, FS_EmptySet
    <3>2. Len(listed') + 1 = n + 0
      BY <2>2
    <3> QED
      BY <3>1, <3>2 DEF Full, MostAgents, n
  <2>5. Overlooked' \in SUBSET Overlooked
    <3>1. ASSUME NEW a \in Overlooked' PROVE a \in Overlooked
      <4>1. a \in always /\ a # Server /\ a \notin ToSet(listed')
        BY <1>1, <2>1, <3>1 DEF Overlooked
      <4>2. \A i \in 1..n : i = 1 \/ (i - 1 \in 1..(n - 1) /\ (i - 1) + 1 = i)
        BY <2>2
      <4>3. a \notin ToSet(listed)
        <5>1. ASSUME NEW i \in 1..n, listed[i] = a PROVE FALSE
          <6>1. i - 1 \in 1..(n - 1) /\ listed'[i - 1] = listed[i]
            BY <2>2, <4>1, <4>2, <5>1
          <6> QED
            BY <2>2, <4>1, <5>1, <6>1 DEF ToSet
        <5> QED
          BY <2>2, <5>1 DEF ToSet
      <4>4. Full => \E i \in DOMAIN listed : a <= listed[i]
        BY <2>2, <2>4, <3>1 DEF Overlooked
      <4> QED
        BY <1>1, <4>1, <4>3, <4>4 DEF Overlooked
    <3> QED
      BY <3>1
  <2>6. Cardinality(Overlooked') <= removals
    <3>1. IsFiniteSet(Overlooked') /\ Cardinality(Overlooked') <= Cardinality(Overlooked) /\ Cardinality(Overlooked) \in Nat
      BY <2>5, WazuhFacts, FS_Subset
    <3>2. Cardinality(Overlooked') \in Nat
      BY <3>1, FS_CardinalityType
    <3> QED
      BY <1>1, <3>1, <3>2
  <2> QED
    BY <1>1, <2>1, <2>2, <2>3, <2>6 DEF ListedInv, Before
<1> QED
  BY <1>3, <1>4

(* Agents come behind the last one listed, and one that goes is counted.    *)
LEMMA ListedStep ==
  ASSUME WazuhTypeOK, ListedInv, [WazuhNext]_wazuhVars
  PROVE  ListedInv'
<1>0. IsFiniteSet(Behind) /\ IsFiniteSet(Missed) /\ Cardinality(Behind) \in Nat /\ Cardinality(Missed) \in Nat /\ Len(listed) \in Nat
      /\ DOMAIN listed = 1..Len(listed) /\ removals \in Nat /\ registered \in SUBSET Nat /\ \A i \in DOMAIN listed : listed[i] \in Nat
  BY WazuhFacts DEF WazuhTypeOK
<1>1. ASSUME NEW a \in Agents, IsRegistered(a) PROVE ListedInv'
  <2>1. UNCHANGED <<always, removals, stage, listed>> /\ registered' = registered \cup {a}
    BY <1>1 DEF IsRegistered
  <2>2. \A i \in DOMAIN listed : a > listed[i]
    BY <1>1 DEF IsRegistered, ToSet
  <2>3. a \in Nat
    BY WazuhAssumption
  <2>4. \A i \in DOMAIN listed : ~(a <= listed[i])
    BY <1>0, <2>2, <2>3
  <2>5. Behind' = Behind /\ Missed' = Missed
    BY <2>1, <2>4 DEF Behind, Missed
  <2>6. stage = "agents" /\ skipped' = skipped
    BY <1>1 DEF IsRegistered
  <2> QED
    BY <2>1, <2>5, <2>6 DEF ListedInv, Before
<1>2. ASSUME NEW a \in Agents, IsRemoved(a) PROVE ListedInv'
  <2>1. /\ UNCHANGED <<stage, listed>> /\ registered' = registered \ {a} /\ removals' = removals + 1
        /\ stage = "agents"
    BY <1>2 DEF IsRemoved
  <2>2. Behind' = Behind \ {a} /\ Missed' = Missed \ {a}
    BY <2>1 DEF Behind, Missed
  <2>3. /\ Cardinality(Behind') = IF a \in Behind THEN Cardinality(Behind) - 1 ELSE Cardinality(Behind)
        /\ Cardinality(Missed') = IF a \in Missed THEN Cardinality(Missed) - 1 ELSE Cardinality(Missed)
    BY <1>0, <2>2, FS_RemoveElement
  <2>4. /\ Cardinality(Behind) <= Len(listed) /\ Cardinality(Missed) + (Len(listed) - Cardinality(Behind)) <= removals
        /\ skipped' = {}
    BY <1>2, <2>1 DEF ListedInv, Before, IsRemoved
  <2>5. Cardinality(Behind') <= Len(listed') /\ Cardinality(Missed') + (Len(listed') - Cardinality(Behind')) <= removals'
    BY <1>0, <2>1, <2>3, <2>4
  <2> QED
    BY <2>1, <2>4, <2>5 DEF ListedInv, Before
<1>3. CASE ListsPage
  BY <1>3, ListsOn
<1>4. CASE \/ LogsIn \/ ListFails \/ SearchesPage \/ SearchFails \/ LeavesUnscored \/ CountsPackages
           \/ (\E a \in Agents, d \in Docs : DocumentsChange(a, d)) \/ UNCHANGED wazuhVars
  <2>1. /\ UNCHANGED <<registered, always, removals, listed, skipped>>
        /\ stage' \in Before => stage \in Before
        /\ stage' = "inventory" => stage = "inventory"
        /\ stage' \notin Before \cup {"failed"} => stage \notin Before \cup {"failed"}
    BY <1>4 DEF LogsIn, ListFails, SearchesPage, SearchFails, LeavesUnscored, CountsPackages, DocumentsChange, wazuhVars,
       Read, Settled, Starts, Before
  <2>2. Behind' = Behind /\ Missed' = Missed /\ Overlooked' = Overlooked
    BY <2>1 DEF Behind, Missed, Overlooked, Full
  <2> QED
    BY <2>1, <2>2 DEF ListedInv, Before
<1>5. CASE ReadsInventories
  BY <1>5, InventoriesKeep
<1> QED
  BY <1>1, <1>2, <1>3, <1>4, <1>5 DEF WazuhNext

(* The next page holds what sorts behind the last row, whatever came or     *)
(* went before it.                                                          *)
Due == {d \in documents[Turn] : rows = <<>> \/ d > Last(rows)}

LEMMA HitsAre ==
  ASSUME WazuhTypeOK, turn \in DOMAIN listed, NEW size \in Nat
  PROVE  /\ Due \in SUBSET Docs /\ Due \in SUBSET Nat
         /\ Hits(size) \in Seq(Docs) /\ Increasing(Hits(size)) /\ Len(Hits(size)) \in Nat /\ Len(Hits(size)) <= size
         /\ \A i \in DOMAIN Hits(size) : Hits(size)[i] \in Due
         /\ \A d \in Due : Hits(size) # <<>> /\ d <= Last(Hits(size)) => d \in ToSet(Hits(size))
<1> DEFINE all == Sorted(Due)
           N == Cardinality(Due)
           hits == Hits(size)
<1>1. Turn \in Agents /\ Docs \in SUBSET Nat /\ IsFiniteSet(Docs)
  BY WazuhFacts, WazuhAssumption DEF Turn
<1>2. Due \in SUBSET Docs /\ Due \in SUBSET Nat
  BY <1>1 DEF Due, WazuhTypeOK
<1>3. IsFiniteSet(Due) /\ Due \in SUBSET Int
  <2>1. IsFiniteSet(Due)
    BY <1>1, <1>2, FS_Subset
  <2>2. \A d \in Due : d \in Int
    BY <1>2
  <2> QED
    BY <2>1, <2>2
<1>4. N \in Nat /\ all \in [1..N -> Due] /\ Increasing(all) /\ \A d \in Due : \E i \in 1..N : all[i] = d
  BY <1>3, SortedIs
<1>5. hits = FirstOf(all, size)
  BY Zenon DEF Hits, Due
<1> HIDE DEF all, N, hits
<1>6. all \in Seq(Due) /\ Len(all) = N
  BY <1>4
<1>7. /\ hits \in Seq(Due) /\ Len(hits) = (IF size < N THEN size ELSE N) /\ \A i \in 1..Len(hits) : hits[i] = all[i]
  BY <1>5, <1>6, FirstOfIs
<1>8. /\ Len(hits) \in Nat /\ Len(hits) <= N /\ Len(hits) <= size /\ DOMAIN hits = 1..Len(hits) /\ \A i \in DOMAIN hits : hits[i] \in Due /\ i \in 1..N
      /\ DOMAIN all = 1..N
  BY <1>4, <1>7, LenProperties
<1>9. hits \in Seq(Docs)
  <2>1. hits = [i \in 1..Len(hits) |-> hits[i]] /\ \A i \in 1..Len(hits) : hits[i] \in Docs
    BY <1>2, <1>7, <1>8, LenProperties
  <2> QED
    BY <1>8, <2>1, IsASeq
<1>10. Increasing(hits)
  BY <1>4, <1>7, <1>8 DEF Increasing
<1>11. ASSUME NEW d \in Due, hits # <<>>, d <= Last(hits) PROVE d \in ToSet(hits)
  <2>1. PICK i \in 1..N : all[i] = d
    BY <1>4
  <2>2. Len(hits) \in 1..N /\ Last(hits) = all[Len(hits)]
    BY <1>7, <1>8, <1>11, EmptySeq DEF Last
  <2>3. all[i] \in Int /\ all[Len(hits)] \in Int
    BY <1>3, <1>4, <2>2
  <2>4. ~(all[Len(hits)] < all[i])
    BY <1>11, <2>1, <2>2, <2>3
  <2>5. i \in 1..Len(hits)
    BY <1>4, <1>8, <2>2, <2>4 DEF Increasing
  <2> QED
    BY <1>7, <1>8, <2>1, <2>5 DEF ToSet
<1> QED
  BY <1>2, <1>8, <1>9, <1>10, <1>11 DEF hits

LEMMA ReadsOnInOrder ==
  ASSUME WazuhTypeOK, RowsInv, turn \in DOMAIN listed, stage = "cves", NEW size \in Nat \ {0}, Len(Hits(size)) >= size
  PROVE  LET all == rows \o Hits(size)
         IN  /\ Increasing(all) /\ all # <<>> /\ all \in Seq(Docs)
             /\ \A d \in steady : d <= Last(all) => d \in ToSet(all)
<1> DEFINE h == Hits(size)
           n == Len(rows)
           k == Len(h)
           all == rows \o h
<1>1. /\ h \in Seq(Docs) /\ Increasing(h) /\ k \in Nat /\ \A i \in DOMAIN h : h[i] \in Due
      /\ \A d \in Due : h # <<>> /\ d <= Last(h) => d \in ToSet(h)
      /\ Due \in SUBSET Nat
  BY HitsAre
<1>2. rows \in Seq(Docs) /\ Increasing(rows) /\ steady \subseteq documents[Turn]
      /\ (rows # <<>> => \A d \in steady : d <= Last(rows) => d \in ToSet(rows))
  BY DEF WazuhTypeOK, RowsInv
<1>3. k >= size
  OBVIOUS
<1> HIDE DEF h, n, k, all
<1>4. n \in Nat /\ DOMAIN rows = 1..n /\ \A i \in 1..n : rows[i] \in Docs /\ rows[i] \in Nat
  BY <1>2, LenProperties, WazuhAssumption DEF n
<1>5. k >= 1 /\ DOMAIN h = 1..k /\ h # <<>> /\ \A i \in 1..k : h[i] \in Docs /\ h[i] \in Nat /\ h[i] \in Due
  <2>1. DOMAIN h = 1..k /\ \A i \in 1..k : h[i] \in Docs /\ h[i] \in Nat
    BY <1>1, LenProperties, WazuhAssumption DEF k
  <2>2. k >= 1
    BY <1>1, <1>3
  <2>3. h # <<>>
    BY <2>2, EmptySeq DEF k
  <2> QED
    BY <1>1, <2>1, <2>2, <2>3
<1>6. /\ all \in Seq(Docs) /\ Len(all) = n + k /\ DOMAIN all = 1..(n + k)
      /\ \A i \in 1..(n + k) : all[i] = IF i <= n THEN rows[i] ELSE h[i - n]
  <2>1. /\ all \in Seq(Docs) /\ Len(all) = n + k
        /\ \A i \in 1..(n + k) : all[i] = IF i <= n THEN rows[i] ELSE h[i - n]
    BY <1>1, <1>2, ConcatProperties DEF all, n, k
  <2> QED
    BY <2>1, LenProperties
<1>7. Last(all) = h[k] /\ Last(h) = h[k] /\ all # <<>>
  <2>1. n + k \in 1..(n + k) /\ ~(n + k <= n) /\ (n + k) - n = k /\ n + k # 0
    BY <1>1, <1>4, <1>5
  <2> QED
    BY <1>6, <2>1, EmptySeq DEF Last, k
<1>8. ASSUME NEW i \in 1..n, NEW j \in 1..k PROVE rows[i] < h[j]
  <2>1. rows # <<>>
    BY <1>4, EmptySeq DEF n
  <2>2. h[j] > rows[n]
    BY <1>5, <2>1 DEF Due, Last, n
  <2>3. n \in 1..n /\ (i = n \/ i < n) /\ rows[n] \in Nat /\ rows[i] \in Nat /\ h[j] \in Nat
    BY <1>4, <1>5
  <2>4. i = n \/ rows[i] < rows[n]
    BY <1>2, <1>4, <2>3 DEF Increasing
  <2> QED
    BY <2>2, <2>3, <2>4
<1>9. Increasing(all)
  <2>1. ASSUME NEW i \in 1..(n + k), NEW j \in 1..(n + k), i < j PROVE all[i] < all[j]
    <3>1. CASE j <= n
      <4>1. i \in 1..n /\ j \in 1..n /\ i <= n
        BY <1>4, <2>1, <3>1
      <4>2. all[i] = rows[i] /\ all[j] = rows[j]
        BY <1>6, <3>1, <4>1
      <4> QED
        BY <1>2, <1>4, <2>1, <4>1, <4>2 DEF Increasing
    <3>2. CASE i <= n /\ ~(j <= n)
      <4>1. i \in 1..n /\ j - n \in 1..k
        BY <1>1, <1>4, <3>2
      <4> QED
        BY <1>6, <1>8, <3>2, <4>1
    <3>3. CASE ~(i <= n) /\ ~(j <= n)
      <4>1. i - n \in 1..k /\ j - n \in 1..k /\ i - n < j - n
        BY <1>1, <1>4, <2>1, <3>3
      <4>2. h[i - n] < h[j - n]
        BY <1>1, <1>5, <4>1 DEF Increasing
      <4> QED
        BY <1>6, <3>3, <4>2
    <3> QED
      BY <1>4, <2>1, <3>1, <3>2, <3>3
  <2> QED
    BY <1>6, <2>1 DEF Increasing
<1>10. ASSUME NEW d \in steady, d <= Last(all) PROVE d \in ToSet(all)
  <2>1. d \in documents[Turn]
    BY <1>2
  <2>2. CASE d \in Due
    <3>1. d \in ToSet(h)
      BY <1>1, <1>5, <1>7, <1>10, <2>2
    <3>2. PICK i \in 1..k : h[i] = d
      BY <1>5, <3>1 DEF ToSet
    <3>3. n + i \in 1..(n + k) /\ ~(n + i <= n) /\ (n + i) - n = i
      BY <1>1, <1>4
    <3> QED
      BY <1>6, <3>2, <3>3 DEF ToSet
  <2>3. CASE d \notin Due
    <3>1. rows # <<>> /\ ~(d > Last(rows))
      BY <2>1, <2>3 DEF Due
    <3>2. Last(rows) \in Nat /\ d \in Nat
      <4>1. n # 0
        BY <1>2, <3>1, EmptySeq DEF n
      <4>2. n \in 1..n
        BY <1>4, <4>1
      <4>3. Turn \in Agents
        BY WazuhFacts DEF Turn
      <4>4. d \in Docs
        BY <2>1, <4>3 DEF WazuhTypeOK
      <4> QED
        BY <1>4, <4>2, <4>4, WazuhAssumption DEF Last, n
    <3>3. d \in ToSet(rows)
      BY <1>2, <3>1, <3>2
    <3>4. PICK i \in 1..n : rows[i] = d
      BY <1>4, <3>3 DEF ToSet
    <3>5. i \in 1..(n + k) /\ i <= n
      BY <1>1, <1>4
    <3> QED
      BY <1>6, <3>4, <3>5 DEF ToSet
  <2> QED
    BY <2>2, <2>3
<1> QED
  BY <1>6, <1>7, <1>9, <1>10 DEF all, h

(* A reader that starts with an agent has read nothing of it.               *)
LEMMA StartsAfresh ==
  ASSUME NEW n, Starts(n, listed'), UNCHANGED documents
  PROVE  RowsInv'
<1>1. rows' = <<>> /\ Len(rows') = 0 /\ Cap \in Nat
  BY WazuhAssumption, EmptySeq DEF Starts
<1> QED
  BY <1>1 DEF Starts, RowsInv, Turn, Increasing

(* A page is never larger than what the cap leaves.                         *)
LEMMA SizeIs ==
  ASSUME WazuhTypeOK, RowsInv, stage = "cves"
  PROVE  Size \in Nat /\ Len(rows) \in Nat /\ Cap \in Nat /\ Len(rows) + Size <= Cap
<1>1. Len(rows) \in Nat /\ Len(rows) <= Cap /\ Cap \in Nat /\ PageSize \in Nat
  BY WazuhFacts, LenProperties DEF WazuhTypeOK, RowsInv
<1> QED
  BY <1>1 DEF Size

LEMMA RowsStep ==
  ASSUME WazuhTypeOK, RowsInv, TurnInv, [WazuhNext]_wazuhVars
  PROVE  RowsInv'
<1>1. ASSUME NEW a \in Agents, NEW d \in Docs, DocumentsChange(a, d) PROVE RowsInv'
  <2>1. /\ stage = "cves" /\ UNCHANGED <<stage, listed, turn, rows>> /\ documents' = [documents EXCEPT ![a] = IF d \in @ THEN @ \ {d} ELSE @ \cup {d}]
        /\ steady' = IF Turn = a THEN steady \ {d} ELSE steady
    BY <1>1 DEF DocumentsChange, Turn
  <2>2. Turn' = Turn /\ Turn \in Agents
    BY <2>1, WazuhFacts DEF Turn, TurnInv
  <2>3. steady' \subseteq documents'[Turn] /\ steady' \subseteq steady
    BY <2>1, <2>2 DEF RowsInv, WazuhTypeOK
  <2> QED
    BY <2>1, <2>2, <2>3 DEF RowsInv
<1>2. CASE ReadsInventories
  <2>1. Starts(1, listed') /\ UNCHANGED documents
    BY <1>2, Zenon DEF ReadsInventories
  <2> QED
    BY <2>1, StartsAfresh
<1>3. ASSUME NEW result, Settled(result), UNCHANGED <<documents, listed>> PROVE RowsInv'
  BY <1>3, StartsAfresh DEF Settled
<1>4. ASSUME NEW all, NEW more, Read(all, more), UNCHANGED <<documents, listed>> PROVE RowsInv'
  <2>1. CASE all = <<>>
    BY <1>4, <2>1 DEF Read, RowsInv
  <2>2. CASE all # <<>>
    BY <1>3, <1>4, <2>2 DEF Read
  <2> QED
    BY <2>1, <2>2
<1>5. CASE SearchesPage
  <2>1. stage = "cves" /\ UNCHANGED <<documents, listed>> /\ turn \in DOMAIN listed
    BY <1>5 DEF SearchesPage, TurnInv
  <2> DEFINE all == rows \o Hits(Size)
  <2>4. Size \in Nat /\ Len(rows) \in Nat /\ Len(Hits(Size)) \in Nat /\ Len(Hits(Size)) <= Size /\ Len(rows) + Size <= Cap /\ Cap \in Nat
    BY <2>1, SizeIs, HitsAre
  <2>2. CASE Read(rows, Hits(1) # <<>>) \/ Read(all, FALSE)
    <3>1. \A x, more : Read(x, more) => RowsInv'
      BY <1>4, <2>1
    <3> QED
      BY <2>2, <3>1, Zenon
  <2>3. CASE Size \in Nat \ {0} /\ Len(Hits(Size)) >= Size /\ rows' = all /\ UNCHANGED <<stage, turn, steady, found, capped>>
    <3>1. Increasing(all) /\ \A d \in steady : d <= Last(all) => d \in ToSet(all)
      BY <2>1, <2>3, <2>4, ReadsOnInOrder
    <3>2. Len(all) <= Cap
      <4>1. Len(all) = Len(rows) + Len(Hits(Size))
        BY <2>1, <2>4, HitsAre, ConcatProperties DEF WazuhTypeOK
      <4> QED
        BY <2>4, <4>1
    <3>3. stage' = "cves" /\ Turn' = Turn /\ steady' \subseteq documents'[Turn']
      BY <2>1, <2>3 DEF Turn, RowsInv
    <3> HIDE DEF all
    <3> QED
      BY <2>3, <3>1, <3>2, <3>3 DEF RowsInv
  <2>5. \/ Read(rows, Hits(1) # <<>>) \/ Read(all, FALSE)
        \/ Size # 0 /\ ~(Len(Hits(Size)) < Size) /\ rows' = all /\ UNCHANGED <<stage, turn, steady, found, capped>>
    BY <1>5, Zenon DEF SearchesPage
  <2>6. ~(Len(Hits(Size)) < Size) => Len(Hits(Size)) >= Size
    BY <2>4
  <2> HIDE DEF all
  <2> QED
    BY <2>2, <2>3, <2>4, <2>5, <2>6
<1>6. CASE SearchFails \/ LeavesUnscored \/ CountsPackages
  <2>1. UNCHANGED <<documents, listed>> /\ \E result : Settled(result)
    BY <1>6 DEF SearchFails, LeavesUnscored, CountsPackages
  <2> QED
    BY <1>3, <2>1
<1>7. CASE LogsIn \/ ListsPage \/ ListFails
  BY <1>7 DEF LogsIn, ListsPage, ListFails, RowsInv
<1>8. ASSUME NEW a \in Agents, IsRegistered(a) \/ IsRemoved(a) PROVE RowsInv'
  BY <1>8 DEF IsRegistered, IsRemoved, RowsInv
<1>9. CASE UNCHANGED wazuhVars
  BY <1>9 DEF wazuhVars, RowsInv, Turn
<1> QED
  BY <1>1, <1>2, <1>5, <1>6, <1>7, <1>8, <1>9 DEF WazuhNext

(* Whatever an agent's turn comes to, it is without CVEs only if examined.  *)
LEMMA SettledIs ==
  ASSUME WazuhTypeOK, TurnInv, stage \in {"cves", "packages"}, NEW result \in SUBSET Int, Settled(result),
         UNCHANGED <<listed, packages>>, result = {} => Turn \in packages
  PROVE  TurnInv' /\ rows' \in Seq(Docs) /\ found' \in [Agents -> SUBSET Int] /\ turn' \in Nat
<1>1. turn \in DOMAIN listed /\ turn \in Nat /\ DOMAIN listed = 1..Len(listed) /\ Len(listed) \in Nat
      /\ \A i \in DOMAIN listed : listed[i] \in Agents
  BY WazuhFacts DEF TurnInv
<1>2. /\ found' = [found EXCEPT ![Turn] = result] /\ turn' = turn + 1
      /\ stage' = IF turn + 1 \in DOMAIN listed THEN "cves" ELSE "done"
  BY DEF Settled, Starts
<1>3. found' \in [Agents -> SUBSET Int]
  BY <1>2 DEF WazuhTypeOK
<1>4. ASSUME NEW i \in DOMAIN listed, i < turn + 1, found'[listed[i]] = {} PROVE listed[i] \in packages
  <2>1. CASE listed[i] = Turn
    BY <1>1, <1>2, <1>4, <2>1 DEF WazuhTypeOK
  <2>2. CASE listed[i] # Turn
    <3>1. i < turn
      BY <1>1, <1>4, <2>2 DEF Turn
    <3>2. found[listed[i]] = {}
      BY <1>2, <1>4, <2>2 DEF WazuhTypeOK
    <3> QED
      BY <3>1, <3>2 DEF TurnInv
  <2> QED
    BY <2>1, <2>2
<1>5. stage' = "done" => \A i \in DOMAIN listed : i < turn + 1
  BY <1>1, <1>2
<1>6. rows' \in Seq(Docs)
  BY EmptySeq DEF Settled, Starts
<1> QED
  BY <1>1, <1>2, <1>3, <1>4, <1>5, <1>6 DEF TurnInv, Before

LEMMA TurnStep ==
  ASSUME WazuhTypeOK, ListedInv, RowsInv, TurnInv, [WazuhNext]_wazuhVars
  PROVE  TurnInv' /\ rows' \in Seq(Docs) /\ found' \in [Agents -> SUBSET Int] /\ turn' \in Nat
<1> DEFINE Reader == rows' \in Seq(Docs) /\ found' \in [Agents -> SUBSET Int] /\ turn' \in Nat
<1>0. found \in [Agents -> SUBSET Int] /\ turn \in Nat /\ rows \in Seq(Docs) /\ <<>> \in Seq(Docs) /\ Docs \subseteq Int
  BY WazuhAssumption, EmptySeq DEF WazuhTypeOK
<1>1. CASE ReadsInventories
  <2>1. turn' = 1 /\ stage' \in {"cves", "done"} /\ (stage' = "cves" <=> 1 \in DOMAIN listed')
        /\ rows' = <<>> /\ UNCHANGED <<found, packages>>
    BY <1>1 DEF ReadsInventories, Starts
  <2>2. DOMAIN listed' = 1..Len(listed') /\ Len(listed') \in Nat
    BY <1>1, InventoriesKeep, LenProperties
  <2> QED
    BY <1>0, <2>1, <2>2 DEF TurnInv, Before
<1>2. CASE SearchFails \/ LeavesUnscored
  <2>1. stage = "cves" /\ Settled(Unscored) /\ UNCHANGED <<listed, packages>>
    BY <1>2 DEF SearchFails, LeavesUnscored
  <2>2. Unscored \in SUBSET Int /\ Unscored # {}
    BY DEF Unscored
  <2> QED
    BY <2>1, <2>2, SettledIs
<1>3. CASE CountsPackages
  <2>1. stage = "packages" /\ UNCHANGED <<listed, packages>> /\ (Settled(Counts(Turn \in packages)) \/ Settled(NotChecked))
    BY <1>3 DEF CountsPackages
  <2>2. NotChecked \in SUBSET Int /\ NotChecked # {} /\ NoInventory \in SUBSET Int /\ NoInventory # {}
    BY DEF NotChecked, NoInventory
  <2>3. (Turn \in packages /\ Settled({})) \/ Settled(NoInventory) \/ Settled(NotChecked)
    BY <2>1 DEF Counts
  <2> QED
    BY <2>1, <2>2, <2>3, SettledIs
<1>4. ASSUME stage = "cves", NEW all \in Seq(Docs), NEW more, Read(all, more), UNCHANGED <<listed, packages>>
      PROVE  TurnInv' /\ Reader
  <2>1. CASE all = <<>>
    BY <1>0, <1>4, <2>1 DEF Read, TurnInv, Before
  <2>2. CASE all # <<>>
    <3>1. Settled(ToSet(all))
      BY <1>4, <2>2 DEF Read
    <3>2. ToSet(all) \in SUBSET Int /\ ToSet(all) # {}
      <4>1. 1 \in DOMAIN all /\ \A i \in DOMAIN all : all[i] \in Docs
        BY <1>4, <2>2, LenProperties, EmptySeq
      <4>2. \A i \in DOMAIN all : all[i] \in Int
        BY <1>0, <4>1
      <4> QED
        BY <4>1, <4>2 DEF ToSet
    <3> QED
      BY <1>4, <3>1, <3>2, SettledIs
  <2> QED
    BY <2>1, <2>2
<1>5. CASE SearchesPage
  <2> DEFINE all == rows \o Hits(Size)
  <2>1. stage = "cves" /\ UNCHANGED <<listed, packages>> /\ rows \in Seq(Docs) /\ turn \in DOMAIN listed
    BY <1>5 DEF SearchesPage, WazuhTypeOK, TurnInv
  <2>2. all \in Seq(Docs)
    BY <2>1, SizeIs, HitsAre, ConcatProperties
  <2>3. \/ Read(rows, Hits(1) # <<>>) \/ Read(all, FALSE)
        \/ rows' = all /\ UNCHANGED <<stage, turn, steady, found, capped>>
    BY <1>5, Zenon DEF SearchesPage
  <2> HIDE DEF all
  <2>4. ASSUME NEW x \in Seq(Docs), NEW more, Read(x, more) PROVE TurnInv' /\ Reader
    BY <1>4, <2>1, <2>4
  <2>5. CASE rows' = all /\ UNCHANGED <<stage, turn, steady, found, capped>>
    BY <1>0, <2>1, <2>2, <2>5 DEF TurnInv
  <2>6. \A x \in Seq(Docs) : \A more : Read(x, more) => TurnInv' /\ Reader
    BY <2>4
  <2>7. Read(rows, Hits(1) # <<>>) \/ Read(all, FALSE) => TurnInv' /\ Reader
    BY <2>1, <2>2, <2>6, Zenon
  <2> QED
    BY <2>3, <2>5, <2>7
<1>6. CASE LogsIn \/ ListsPage \/ ListFails
  BY <1>0, <1>6 DEF LogsIn, ListsPage, ListFails, TurnInv, Before
<1>7. CASE (\E a \in Agents : IsRegistered(a) \/ IsRemoved(a) \/ \E d \in Docs : DocumentsChange(a, d)) \/ UNCHANGED wazuhVars
  BY <1>0, <1>7 DEF IsRegistered, IsRemoved, DocumentsChange, wazuhVars, TurnInv
<1> QED
  BY <1>1, <1>2, <1>3, <1>5, <1>6, <1>7 DEF WazuhNext

LEMMA WazuhTypes ==
  ASSUME WazuhInv, [WazuhNext]_wazuhVars
  PROVE  WazuhTypeOK'
<1>0. WazuhTypeOK /\ ListedInv /\ RowsInv /\ TurnInv
  BY DEF WazuhInv
<1>1. rows' \in Seq(Docs) /\ found' \in [Agents -> SUBSET Int] /\ turn' \in Nat
  BY <1>0, TurnStep
<1>2. ASSUME NEW a \in Agents, IsRegistered(a) \/ IsRemoved(a) PROVE WazuhTypeOK'
  BY <1>0, <1>1, <1>2 DEF WazuhTypeOK, IsRegistered, IsRemoved
<1>3. ASSUME NEW a \in Agents, NEW d \in Docs, DocumentsChange(a, d) PROVE WazuhTypeOK'
  BY <1>0, <1>1, <1>3 DEF WazuhTypeOK, DocumentsChange
<1>4. CASE ListsPage
  <2>1. UNCHANGED <<registered, always, removals, documents>> /\ stage' \in WazuhStages /\ listed' = listed \o PageFrom(Len(listed))
        /\ skipped' = skipped
    BY <1>4 DEF ListsPage, WazuhStages, Before
  <2>2. registered \in SUBSET Nat /\ IsFiniteSet(registered) /\ Len(listed) \in Nat /\ AgentPage \in Nat /\ registered \subseteq Agents
    BY <1>0, WazuhFacts DEF WazuhTypeOK
  <2> DEFINE page == PageFrom(Len(listed))
  <2>3. page \in Seq(registered)
    BY <2>2, PageIs
  <2> HIDE DEF page
  <2>4. page \in Seq(Agents)
    <3>1. page = [i \in 1..Len(page) |-> page[i]] /\ Len(page) \in Nat /\ \A i \in 1..Len(page) : page[i] \in Agents
      BY <2>2, <2>3, LenProperties
    <3> QED
      BY <3>1, IsASeq
  <2>5. listed' \in Seq(Agents)
    BY <1>0, <2>1, <2>4, ConcatProperties DEF WazuhTypeOK, page
  <2> QED
    BY <1>0, <1>1, <2>1, <2>5 DEF WazuhTypeOK
<1>5. CASE \/ LogsIn \/ ListFails \/ SearchesPage \/ SearchFails \/ LeavesUnscored \/ CountsPackages
           \/ UNCHANGED wazuhVars
  <2>1. UNCHANGED <<registered, always, removals, documents, listed, skipped>> /\ (stage' = stage \/ stage' \in WazuhStages)
    BY <1>5 DEF LogsIn, ListFails, SearchesPage, SearchFails, LeavesUnscored, CountsPackages, wazuhVars,
       Read, Settled, Starts, WazuhStages, Before
  <2> QED
    BY <1>0, <1>1, <2>1 DEF WazuhTypeOK
<1>6. CASE ReadsInventories
  <2>1. UNCHANGED <<registered, always, removals, documents>> /\ stage' \in WazuhStages
    BY <1>6 DEF ReadsInventories, Starts, WazuhStages
  <2>2. listed' \in Seq(Agents) /\ skipped' \in {{}, {Server}}
    BY <1>0, <1>6, InventoriesKeep
  <2> QED
    BY <1>0, <1>1, <2>1, <2>2 DEF WazuhTypeOK
<1> QED
  BY <1>2, <1>3, <1>4, <1>5, <1>6 DEF WazuhNext

(* The invariant of the reading.                                            *)
THEOREM WazuhAlways == WazuhSpec => []WazuhInv
<1>1. WazuhInit => WazuhInv
  <2> SUFFICES ASSUME WazuhInit PROVE WazuhInv
    OBVIOUS
  <2>1. WazuhTypeOK
    BY EmptySeq DEF WazuhInit, WazuhStarts, WazuhTypeOK, WazuhStages, Before
  <2>2. Behind = {} /\ Missed = {} /\ Cardinality({}) = 0 /\ Len(listed) = 0 /\ DOMAIN listed = {}
    <3>1. listed = <<>>
      BY DEF WazuhInit, WazuhStarts
    <3> QED
      BY <3>1, FS_EmptySet, EmptySeq DEF Behind, Missed
  <2>3. ListedInv
    BY <2>2 DEF WazuhInit, WazuhStarts, ListedInv, Increasing, Before
  <2>4. RowsInv /\ TurnInv
    BY <2>2 DEF WazuhInit, WazuhStarts, RowsInv, TurnInv
  <2> QED
    BY <2>1, <2>3, <2>4 DEF WazuhInv
<1>2. WazuhInv /\ [WazuhNext]_wazuhVars => WazuhInv'
  BY WazuhTypes, ListedStep, RowsStep, TurnStep DEF WazuhInv
<1> QED
  BY <1>1, <1>2, PTL DEF WazuhSpec

(* wazuh.py:239-348: every agent that is there throughout is listed once,   *)
(* but for as many as went meanwhile; its documents are read in order with  *)
(* none that stays left out; and none is called clean that was not examined.*)
THEOREM WazuhAlwaysHolds == WazuhSpec => []WazuhHolds
<1>1. WazuhInv => WazuhHolds
  <2> SUFFICES ASSUME WazuhInv PROVE WazuhHolds
    OBVIOUS
  <2>1. WazuhTypeOK /\ ListedInv /\ RowsInv /\ TurnInv
    BY DEF WazuhInv
  <2>2. /\ DOMAIN listed = 1..Len(listed) /\ Len(listed) \in Nat /\ \A i \in DOMAIN listed : listed[i] \in Nat
        /\ removals \in Nat
    BY <2>1, WazuhFacts DEF WazuhTypeOK
  <2>3. ListedOrShifted
    <3>1. ASSUME NEW i \in DOMAIN listed, NEW j \in DOMAIN listed, i # j PROVE listed[i] # listed[j]
      <4>1. i < j \/ j < i
        BY <2>2, <3>1
      <4>2. listed[i] < listed[j] \/ listed[j] < listed[i]
        BY <2>1, <4>1 DEF ListedInv, Increasing
      <4> QED
        BY <2>2, <4>2
    <3> QED
      BY <2>1, <3>1 DEF ListedOrShifted, ListedInv, Before
  <2>4. NothingIsSkipped
    BY <2>1 DEF NothingIsSkipped, RowsInv, Increasing
  <2>5. CleanIsExamined
    BY <2>1 DEF CleanIsExamined, TurnInv
  <2> QED
    BY <2>3, <2>4, <2>5 DEF WazuhHolds
<1> QED
  BY <1>1, WazuhAlways, PTL
=============================================================================
