# A TLA+ model of the Wazuh Network Mapper

The repository is a network mapper with two halves. The **backend** (`src/backend/vulnmapper`, Python) is a
command-line pipeline: it crawls the network over SNMP, adds the endpoints Wazuh knows, looks up the CVEs of
devices and packages, scores them, finds attack paths and prints one JSON graph. The **plugin** (`src/plugin`,
TypeScript) runs inside OpenSearch Dashboards: its server starts the backend as a child process, by hand, by a
schedule or because a liveness pass asks for it, keeps the result files and their history, and serves them to
the browser. This directory holds the TLA+ modules that model the parts where something other than a single
function call can go wrong, the TLC runs that check them and the proofs of their main theorems.

## 1. Inventory

| Component | State it keeps | Operations | What makes it correct | Modules |
|---|---|---|---|---|
| Scan service, `plugin/server/scan.ts` | module variables `scan`, `refiner`, `stopRunning`, `onScanDone`, `exclusiveTask`; per scan a closure, a child and its timer | `startScan`, `stopBackgroundScan`, `runExclusive`, handlers of the child | one writer of the result files at a time; the three files belong together; each scan ends, and its end is told to whoever asked | `Scan`, `ScanLock` |
| Result files | `graph.json`, `vulnerabilities.json`, `attack_paths.json`, two temp files | written atomically one by one | never newer than the graph; a failed scan leaves no trace | `Scan` |
| Rescore and recompute, `targets.ts`, `scoring/rescore.py` | none of their own | read the files, compute, write them back | nobody else writes in between; nothing of an earlier score is left | `Scan`, `Scoring` |
| History, `history.ts` | index and one folder a scan | `archiveScan`, pruning, `readChanges` | what the index offers is there; the scans compared are neighbours | `History` |
| Background of the plugin, `liveness.ts`, `autoRescan.ts`, `livenessRecompute.ts` | last automatic start, reasons pending and settled, failures; last recomputed set | timer tick, pass child, `onPass` | an asked scan happens, not twice for one reason; the routes follow the liveness | `Background` |
| Schedule, `schedule.ts` | the setting, the timer, the last outcome, a chain of saves | `set`, `load`, `fire`, `stop` | each slot at most once, none skipped silently; nothing recorded is lost | `Schedule` |
| Recommendation states, `recommendations.ts`, `fsutil.ts` | one file | read-modify-write under a promise chain | no update lost | `Tracker` |
| Network crawl, `network/crawl.py` | queue, `_queued`, counter, devices by id, ids by address, names, links, pending CDP entries | workers poll; `_resolve_cdp_links`; stops | each address once, each device once, the map of a sequential walk, termination | `Crawl` |
| SNMP access, `network/snmp.py` | credential of a device, GETBULK latch | walks, several columns at once | each row once, whatever the order of the agent | `Snmp` |
| Table parsers, `network/parse/` | none | forwarding tables per VLAN, later lookup of one entry | a port is the machine's own | `Tables` |
| Network document, `network/document.py`, `hosts.py` | the document | `build_document`, `merge_documents` | no device or edge twice | `Document` |
| Graph assembly, `assemble/` | what each method of `build()` leaves to the next | attach endpoints to ports | one machine, one node; the reasons are true; evidence stands | `Assemble` |
| Pipeline, `pipeline.py` | stage results, thread pool | `run`, the stages | concurrency changes nothing; a failed stage degrades and does not corrupt | `Pipeline` |
| Endpoints, `endpoints/` | token, page positions; OSV cache | paging, OSV queries | no page lost; what is cached is whole | `Wazuh`, `Osv` |
| Device CVEs, `devicecves/` | cache with age, request budget, spacing, unreachable latch | lookups | budget kept; a device never loses its CVEs to a bad day | `Nvd` |
| Scoring, `scoring/` | feeds on disk, CVE record cache, pool of fetches | feeds, records, OVSS | stale copies only as a fallback; no answer forgotten; exploited CVEs shown | `Feeds`, `CveRecords`, `Scoring` |
| Service scan, `servicescan/` | none | nmap | a failed host leaves the others | `Pipeline` |
| Checklist, `checklist/` | none | three-valued verdicts | missing data is no pass, but for what is named | `Checklist` |
| Attack paths, `attackpaths.py` | none | route search, inactive hosts removed | the best route; dead hosts do not start one | `AttackPaths`, `Scoring` |
| Liveness monitor, `liveness/` | one record per node over passes: state, misses, proven method, port memory; rescan reasons | a pass: probe, links, agents, wifi, MAC table, ports | silence below the threshold changes nothing; what comes back gets its state back | `Monitor` |
| HTTP routes, `routes/index.ts` | none | parse and forward | 409 while locked | those of what they call |
| Seeds, identity, vendors, roles, configuration, user interface, scripts | none that another part depends on | pure, or display | data | none |

**How they interact.** The routes, the scheduler and the liveness pass all call `startScan`, in one process and
one event loop: no two lines run at once, but every `await` lets any other handler run. The lock is two flags,
tested by `startScan` and `runExclusive` and released by several handlers. The child speaks to the server through
stdout (the graph), stderr (stages), its exit and the files it wrote. Liveness passes and recomputes are further
children; they meet the scans in the files and in the lock. In the backend the crawl runs `--concurrency` asyncio
workers over one queue, and several walks of one device at a time; the pipeline runs two stages in threads beside
the device CVEs, and the CVE records and OSV aliases are fetched by pools of threads. From one scan to the next the
backend leaves caches: NVD answers, CVE records, OSV answers, threat feeds.

**What is hard.** A stop, a timeout, a spawn error and the normal end of a scan race, each testing flags the others
set; the three files are replaced one await at a time; a scanner outlives its scan to fetch CVE records; every
scan uses the same two temp names; a task reads, thinks and writes back. In the crawl, one device answers at
several addresses polled by several workers, neighbours name each other before either is known, the same bounded
queue carries addresses and stops, and any poll may die in the middle. Every service asked over the network may fail, be
late or answer in part, and what is kept of it must neither hide an older answer nor pass for a whole one. The steps of the
assembly each undo some of what the ones before did. `PROJECT.json` lists each of these hazards
with its line and the properties that would catch it.

## 2. Modules

| Module | Content |
|---|---|
| `Scan` | the scan service: one action per handler up to its next `await`, one per step of a child |
| `ScanProperties` | type invariant, safety, action and liveness properties; the strengthening `ExclusionInv` |
| `ScanLock` | the abstract lock: a scan, a task or nobody holds it, the files change under it |
| `MCScan`, `MCScanSafety` | instance values; two scans with their rivals |
| `ScanProofs` | theorems |
| `Crawl` | the crawler: one action per stretch of a worker between two SNMP answers |
| `CrawlProperties`, `MCCrawl`, `CrawlProofs` | likewise; `MCCrawl` also defines the networks crawled |
| `Background` | the timer, the liveness pass, `autoRescan` and `livenessRecompute` over the abstract lock |
| `BackgroundProperties`, `MCBackground`, `BackgroundProofs` | likewise; `BackgroundProofs` also holds the theorems about `Scoring` and `AttackPaths`, what the plugin has recomputed |
| `Monitor` | a chain of liveness passes: what each kind of reading makes of the record of a node |
| `MonitorProperties`, `MCMonitor`, `MonitorProofs` | likewise; `MCMonitor` also defines the graphs |
| `Schedule`, `History`, `Tracker` | what the plugin's server keeps in files |
| `Nvd`, `CveRecords`, `Feeds`, `Osv`, `Wazuh` | what a scan asks of services, and the caches it leaves to the next |
| `Caches` | what the caches of `Feeds` and `Osv` promise together |
| `MCStores` | these eight, with their properties, one in focus at a time |
| `ServerStoreProofs`, `LookupProofs` | theorems about them: on `Schedule`, `History` and `Tracker`; on `Feeds`, `Osv`, `Nvd`, `CveRecords` and `Wazuh` |
| `Snmp`, `Tables`, `Document`, `Assemble` | how the network is read and made one graph |
| `Topology` | what `Document` and `Assemble` promise together |
| `Pipeline`, `Checklist`, `AttackPaths`, `Scoring` | the stages of a scan, the checks of a device, the routes and the scores |
| `ReadingProofs`, `PipelineProofs` | theorems about `Snmp` and `Tables`; about `Document`, `Assemble`, `Pipeline` and `Checklist` |
| `MCDocuments` | these eight (`Scoring` extends `AttackPaths`), with their inputs, one in focus at a time |

`Scan` implements `ScanLock` (`ScanProperties!Lock` is the refinement mapping: the holder is read off `scan.status` and
`exclusiveTask`, the files are the three result files). `Background` is built from the actions of
`ScanLock` itself (`lock == INSTANCE ScanLock`), so what it assumes of the scan service is what the scan service was
shown to keep.

### Scan

`scan`, `refiner`, `stopRunning`, `onScanDone` and `exclusiveTask` are the module variables of `scan.ts` by name
(closures are named by their run: 0 is `null`). `flags[r]` is the set of booleans of run `r`'s closure that are
true, with the armed timer and what befell the process; `completion[r]` is how far `complete()` has come,
`ending[r]` the status `end()` will set once the temp files are gone, `closing[r]` the state of the `'close'`
handler. A file's content is the number of the scan that made it. This is all the properties need: whether files
belong together, and whose they are.

One action is one turn of the event loop. `EventTurn` says that a continuation whose promise has resolved runs
before the next event, as in Node.js. `complete()` is therefore seven actions (`CompleteRead` ... `CompleteArchive`),
one for each await between which other handlers run, each with its failure. `Close` and `Refined` are the two halves
of the `'close'` handler around `await completion`. `Discarded` is what `end()` does after its await, for each of its
callers. The child writes its temp files, prints, fetches and exits, and may fail, be killed or print half a
document at any point. `Forget` drops the closure of a run nothing refers to any more; it keeps the state space
small and changes nothing that is read again.

### Crawl

A `Network` is a constant of the module: what answers at each address (`Host`), and the LLDP and CDP entries of each
device. Which of the enabled workers goes on, and whether a call fails, is nondeterminism. A worker's record
says where in `_poll` it is; `queue`, `queued`, `devices`, `idOf`, `links`, `pending` are the attributes of
`Crawler`. asyncio switches tasks only at an await, so an action runs from one SNMP answer to the next: taking an
item, identifying the device (the test whether it was polled and its record in one step), reading the neighbour
tables, and handling each entry. `Fails` is any exception of a poll. `StopWorkers` puts the stops, and raises
`QueueFull` when they do not fit. `ResolveCdpLinks` is the sequential end.

### Background

`pending`, `settled`, `failures` are the variables of the closure of `createAutoRescan`, `done` and `running` those of
`createLivenessRecompute`. `lastAutoStart` and `startedAt` are only used by their distance from now, which is
`age`, counted in liveness intervals; `Tick` is `setInterval`. A graph is identified by its `scan_time` in the code, and
by how many graphs were saved since in the model: `ScanSaves` makes every graph named by `liveness`, `pass` and
`done` one older. So the state stays bounded while any number of scans is made. `pass` is where the child of a pass
is (`started`, `read` the graph, `saved`), and the graph it read, which need not be the current one by the
time it is saved.

After `saved` the hooks run in one turn: first the rescan, then the recompute. `OnPassRescans` is the case that
the first starts a scan (the second is then refused), `OnPassRecomputes` and `OnPassDoesNothing` the others. All that
`autoRescan` does before it asks is in `FailuresSeen`, `SettledNow` and `Asks`. Scans are seen only as far as the hooks
see them: they save (with routes that leave nobody out, or with the old routes when that stage was skipped),
complete, fail, or are stopped by a manual request, which then starts its own (`Resume`, a continuation and
so before any other turn). Tasks read `liveness.json` and write the routes in two steps. `scanned` and `served` are
history variables, of which the actions read nothing.

### Monitor

Nothing but the pass itself touches the state while a pass is made, and its probers only read; so a pass is one
action, `Pass`, over readings chosen by `\E`: whether each probe replies, is silent or fails; the ports of each device
that answered SNMP; the clients of each access point; the agents' rows; the hosts in each forwarding table; or a
failure of each of these calls. `Checked` is `LivenessMonitor.check` for one node, one operator for each method it calls
and in its order: `Planned`, `Probed`, `CheckedIn`, `SeenOnWifi`, `InTable`, `Recovered`, `MarkedDown`. Nodes do not
influence each other but through what was read. `NewGraph` is a scan that replaces the graph between two passes; the
records are kept, as the code keeps `liveness.json`.

A record is the code's: `state`, `misses`, `proven_methods`, and `port_down` as `mark` (`NoMark` when there is none),
with `reply` for `_replied_now`. Times are counted in passes: an agent's check-in of age 0 came after the pass
before this one began, and a mark with `since` = 0 was made by this pass, so "checked in later than `since`" is
`age < since`. Misses stop counting at the threshold and ages beyond the oldest recent check-in are one: nothing
compares them further. `quiet` is a history variable. A graph is what a pass takes from one: which nodes have an agent, a usable address,
a MAC, which devices SNMP can read, and each endpoint's link.

### Schedule, History, Tracker

Time in `Schedule` counts the unit by which a timer may fire early; a slot is a multiple of the period, or the chosen hour
of a day. `timer` is the slot the timer is set for. `FireRefused` and `FireStarts` are the two ways `fire()` goes on,
and both arm the next slot by `ArmNext` in the same turn. `save()` appends to a promise chain
and fixes the text at once: `Save` appends the state to `writes`, `Write` is the next save of the chain ending, with or without
success. `load()` is read and settled in two steps, between which the owner may set a schedule if `SetBeforeLoad`:
nothing in the code awaits it. `rev` in a state is a history value that counts its changes.

`History` follows `archiveScan` await by await: folder, copies, index read, index written, the dropped folders removed one by
one. `chain` is the promise chain of archives. The reader (`readChanges`) finds an id in the index, then reads two folders. An
index that cannot be read counts as an empty one, any step may fail, and the server may stop between any two; `MaxFaults`
bounds these together. An id is the place of its scan in time.

`Tracker` is a route handler under `withFileLock`: `Posts` queues, `Reads` reads under the lock (a file that cannot be read is
taken as an empty one), `Writes` replaces the file or fails, and answers.

### Nvd, CveRecords, Feeds, Osv, Wazuh

In `Nvd` no clock is kept; each is what the code compares of it: `fresh`, how long an answer still serves; `rests`, how long
a query that failed is left alone; `spent` and `since`, the time since the client began and since its last request.
`Aged` is the passing of time. `Asks` is `_get` up to its request, with its four outcomes in the order of the code:
unreachable, no time to wait, no time after the wait, sent. The replies are actions: a page, the last page, "not
listed", malformed, busy (with the waits of the retries), refused, none. `Takes` and `StaleOrUnanswered` are what
`lookup` makes of an answer or of its absence. A scan ends by saving its cache, and only then the document is shown; it may die before
that, which keeps nothing. The cache on disk may be lost at any start.

`CveRecords` has one action per step of the scan's thread (`prefetch`, `load`, its wait, the reading of each
CVE, `finish`) and of a worker of the pool: it asks whether to stop, sends, keeps the answer, ends. `Feeds` is
`load_feed`: a version is the number of its publication; a download brings the newest, or nothing that can be parsed. `Osv` asks batches
of a set of packages in any order, then fetches the ids that do not name their CVE, each ending by itself also when
another one failed; what is complete is cached. `Wazuh` is `collect` and `score`: the login and its retries, the agents paged by
offset, up to a short page or `AgentMaxPages` of them, the inventories (`skipped` is the server when it is left out with its note, `unread` the
others whose inventory failed), each agent's documents paged by the sort values of the last row and cut at the cap, and the count of
packages for an agent with none. `registered` and `documents` change meanwhile. `ListedOrShifted` promises every agent that was there throughout, but for as many
as were removed, the server that is left out, and those behind the last of a list that is as long as a list may get (`Full`).

### Snmp, Tables

In `Snmp` an OID is a number and the subtree of a column its ten. What the agent holds is a function from an OID to the next one,
in whatever order, since some agents answer so. A walk holds its active columns, the OID each is at, and the rows so far;
`Takes` is what the code does with one varbind, `Taken` with an answer. The latch `bulkFailed` is shared by the walks of a device.

In `Tables` a switch is what it numbers how: each VLAN's context has bridge ports of its own, the default context other ones.
`collect_fdb` is an action for each walk, and each may be cut short or unanswered. `lookup_fdb_ports` is asked about what the
scan left, entry by entry, in the context the monitor reads a switch of that vendor in. Machines move between.

`SnmpAssumption` says that an agent holds finitely many OIDs and that the columns of a walk are not the same; `TablesAssumption` that bridge ports and
interfaces are positive numbers and no VLAN is 0, so that 0 can stand for none, as it does in `lookup_fdb_ports`.

### Document, Assemble

`Document` has the two functions as operators over what a first and a second crawl report: links in order, told from either end,
with or without ports. `ReportsAssumption` says what every crawl has in common: a device is polled or only known, and a link is told by a device that was
polled (`_handle_neighbor`, `_resolve_cdp_links`). Its other end may be in neither crawl, since a device may have another chassis id when it is polled than its
neighbours told (`MCCrawl` has one); so an edge of the document may end at no node, and only one end is promised to have been polled. `Topology` states what the
document and the graph promise together.

The actions of `Assemble` are the methods of `GraphAssembler.build` in its order: `MergeLldpPhantoms`, `LinkDevices`, `PlaceFromTables`,
`MergeLatePhantoms`, `AddLldpEndHosts`, `AddTableHosts`, `PlaceWifiClients`, `StampVlans`. The variables are the attributes these
methods pass on (`parent` is `parent_of`, `reason` is `unparented_reason`, `hosts` the three dictionaries of nodes no agent
reports). Loops over agents and clients, whose order matters, are recursive functions. The choice of a port among those that
learned a MAC (`Candidates`, `Before`, `Fact`) is `mactable.py`. `AssembleAssumption` says what every network document has in
common: tables of forwarding rows belong to devices that were polled and name MACs, and of each link one end was polled, since only a polled
device reports links (`crawl.py:391`, `crawl.py:466`).

### Pipeline

Each stage is an operator on the scan's state, written once; an action is a stage, or a step of one, taken by a thread.
`Sequential` composes the same operators as the code does with `CONCURRENT` off and is the specification of the threads.
`names` and `nmap` are the two threads, `looked` the nodes the main one has looked up meanwhile. `Run` is `_run_stage`: off, crashed
before it wrote, crashed after it wrote nodes and before it kept findings, ran. `Reassembles` is the second assembly.

### Checklist

A device is what it would say. `got` holds the rows read for each question of `collect_config`, in its order, and `contexts` those of the walks in each
VLAN's context. A question is not answered (no rows), answered, or its walk breaks off and leaves some of the rows
(`_walk_columns` returns what it has); these may be any, since an agent may hold a table in any order. The two TCP tables have rows
of their own, and `parse_tcp` joins what was read of them. The checks are operators of the device and of what was read, so that a verdict on
part can be compared with that on `Everything`. What the tables of one device have in common is `ChecklistAssumption`: port fast and BPDU guard are
two columns of one table (`tables.py:58`), a Cisco numbers its bridge ports device-wide (`collect.py:74`), an uplink has a name, and
a management port listed in a TCP table accepts connections, so that the table and the connection test do not contradict each other.

`PassesAreEarned` is weaker than the comment it comes from (`evaluate.py:14`), because the code is: nothing tells a check that rows of a table are missing.
`TakenForWhole` lists, check by check, the tables whose rows it takes for all there are, and `TookPartForWhole` the readings in
which it was given a part of them, one TCP table of two and the names of some interfaces among them; there a pass is not promised. Without any one of these
exceptions TLC finds a pass that is not earned. What is promised is the rest: for a table that is not listed a missing row makes the check `unknown`, and
so does a listed one of which nothing was read. `MissingDataIsNeverAPass` states the comment as it stands.

### AttackPaths, Scoring

`AttackPaths` has `AttackPathEngine` as operators: placement, reachability, the likelihood of an edge (in units of 1/10^`Steps`, so
products stay exact), the search with its order, the routes kept for each target, the starts. `BestHold` is the reference: the most an attacker may come to
by the rules of reachability, in any number of steps. `Scoring` is the state machine around them: a scan, a rescore
for other targets or newer feeds, a recompute for a liveness pass, each in the phases of the code, over the files the one before left.
Sorting is `Ordered`, which puts each finding at the place that counts those above it (`PlaceIn`). A spare port is a starting point without a node, so it has a
number of its own, above those of the nodes (`FirstSpare`) and with its VLAN to be read off (`LastVlan`). `ScoringAssumption` has these numberings, that
there are finitely many nodes and CVEs, that scores, weights and EPSS values are natural numbers, and that a node lists CVEs that are known; that the unit
of likelihood is a natural number is stated there because the provers know no exponents.

## 3. Runs

| Run | Expect | Shows |
|---|---|---|
| `MCScanSafety` | pass | two scans, failure of every step, beside both file-only tasks or beside two requests that may stop a background scan: the files and the archive never mix scans unsaid, an unsuccessful scan leaves no trace, a stop hits only the scan it was meant for, refining always has an owner, and `Scan` implements `ScanLock` |
| `MCScanLive` | pass | under the fairness below, every scan ends and refining ends |
| `MCScanStop` | violation | a stop that arrives while a failed scan removes its temp files is never answered |
| `MCCrawl` | pass | two workers on several hundred small networks: the map is that of a sequential walk, and the crawl ends |
| `MCCrawlFull` | violation | a node cap below the number of workers loses the whole crawl |
| `MCBackground` | pass | no reason is forgotten or asked for for ever; the routes follow the liveness while nobody else writes them |
| `MCBackgroundRoutes` | violation | a target update between two passes leaves the routes with the wrong hosts left out, for good |
| `MCMonitor` | pass | a host at a port, at an access point, with an agent or left behind by an old scan, over any chain of passes |
| `MCMonitorRevive` | violation | a host whose agent checks in while its port stays down is active and inactive in turn |
| `MCStores` | pass | the schedule, the archive, the tracker, and the clients of NVD, cve.org, OSV, the feeds and Wazuh with their caches, each with every failure and answer it may meet |
| `MCDocuments` | pass | walks, ports, the network document, the assembled graph, the stages and their threads, the checks, the routes and the scores, each over small inputs chosen to hold its hard cases |
| `MCDocumentsLost` | violation | a scan that assembles its graph a second time shows no port as having lost its link |

**Bounds of Scan.** Two scans (`MaxRuns = 2`): every property relates one scan to at most one other, an older one that
still runs, or to one task or request. `MCScanSafety` chooses once (`rivals`) whether tasks or requests compete with the
scans: no property is about both, and neither reads what the other leaves, so their product would only multiply the states. It has two requests, which are alike (symmetry),
since a stop can only hit the wrong scan when a second request overtakes the first.
`OldMap` is whether the map before the first scan has devices: with `"devices"`, `shouldReplaceGraph` may refuse, and with
`"empty"` (the liveness run) it never does. The liveness run has one scan, since a second start is allowed and not required.

**Bounds of Crawl.** Five addresses and three devices; `Webs` is every way the first device may tell of the two
others and these of each other (over LLDP with an address or a name only, over CDP likewise, or not at all), from one or
two seeds, and six networks add what those cannot have: a device at two addresses, dead addresses, a device
without an id of its own, more seeds than the cap, an earlier crawl. Two workers, the least at which two polls
overlap. `Alike` names the networks in which all neighbours tell the same of a device, for which
`FindsTheNetwork` compares the result with `Reach`, which knows no order: the least set of devices that has those at the seeds
and those its own members name. Two of its clauses were found by the proof, since the small networks have no such entries: of a chassis that
answers nowhere, two entries may give addresses of two other devices, and the second is not followed (`crawl.py:397`); and
a CDP entry taken for the neighbour of an LLDP entry on the same port is dropped, though another device sends it (`crawl.py:513`).

**Bounds of Background.** One host and one reason: both hooks treat sets of them only by equality, membership and emptiness. One graph
saved during a pass (`MaxSaves`): a pass for the current and one for an older graph are all the code tells apart. The minimal
interval is one tick and the longest two, so failures double it once. Others that take the lock are scans by hand and
target updates; a scheduled scan differs from these only in that it can be stopped, as an automatic one can.

**Bounds of Monitor.** One host and one device, which is its switch, its access point or both: a pass takes each node by itself,
and the device is there to answer or not. The four graphs of `Places` are the ways the code checks a host (by ping, by
table only, by agent, by client list), and a scan may change any of them for any other between two passes. Threshold 2, so that
there is a miss below it; `MaxAge` 1, so that a check-in may be from before or after a mark; one listed reason and
two kinds of them in one graph, so that the limit is met. The violation run has an agent in no graph.

**One in focus.** The modules that `MCStores` and `MCDocuments` put together share no state. A behaviour of all of
them is one behaviour of each, and their product would show nothing more; `focus` is the one that moves, the others stay as they
start. This is why one run is enough for eight stores.

**Bounds of MCStores.** The schedule: a period of two units and a day of four, so that frequencies differ; five units of time
hold two slots of each, one of them with a timer that fires one unit early; two changes and one restart are the least at which a save
may overtake another or a load. The history keeps two scans of four, so that one archive prunes while a request compares the
oldest two, with two faults (an archive that fails, then a stop). The tracker: three requests on two items, the third of which finds
what the first two left. NVD: two devices of the same software, so that the second asks of the cache what the first put
there; a budget of four units with waits of one and two, so that each of the limits (spacing, retry, budget) is the one that
ends a query; answers are fresh for 12 or 8 and failures rest for 6, with scans 7 or 13 apart, so that each may be met before and after.
The records: three CVEs, two threads. The feeds: three publications. Wazuh: up to four agents, one of them the server, in pages of one of
which three are read, three documents in pages of one with a cap of two, and one change: a list may be short, full, or longer than what is read of it. OSV: three packages in two batches, two states of OSV over three ticks of which an entry lasts two.

**Bounds of MCDocuments.** The inputs are lists of records in `MCDocuments.tla`, each with the reason beside it: agents that
answer in order, unsorted, or a row twice; switches of two vendors whose contexts number ports differently, with and without
SNMPv3; one to three links told of one pair from both ends, over one cable or two, or of a device cabled to itself, with a second crawl that knows
devices of the first and tells of one that is in no crawl; two switches, a neighbour and an access
point with four sets of forwarding rows and five of links; scans of one agent, one host and one switch with each stage off or
crashing early or late and every combination of answers; five devices to check, each table unread, read, or (for one walk of a reading, `MaxCuts`) cut short anywhere; one is
the least at which each exception of `TookPartForWhole` decides something, and the violation run, which asks about another module, has none;
five nodes with four CVEs, twelve networks, two choices of targets and of feeds over scans, rescores and recomputes.
They were taken so that each alternative of a definition decides something in some input, and so that each property is
violated by some mutant of the definitions it is about.

**Fairness.** Node.js runs every handler whose event happened, file operations settle, timers fire, and a process
sent SIGTERM and later SIGKILL dies: weak fairness of the handlers, the timer and `ChildKilled`. Nothing is assumed of
the scanner itself; it may hang for ever, and `EveryScanEnds` rests on the timer. Weak fairness of the task is an
assumption on the child of a recompute, for which the code has no time limit; a task that hangs keeps the lock, and
the hazards say so. In Crawl each worker is fair: every SNMP call has a timeout, so each await ends.
In Background the timer ticks, the hooks run, scans and tasks end (weak fairness). Strong fairness of the steps of
a pass and of a recompute says that not every one of them fails: without it nothing could be promised of either. A pass that always
outlives its interval would never be saved. `ReasonIsFollowed` excepts updates that take the lock over and over, and
`RoutesFollowUndisturbed` a recompute that outlives the next pass; nothing in the code excludes these. The other modules state no
liveness: their loops are bounded by the data, and what ends them in time is a safety property (`StageEndsInTime`).

**Deadlock** is not checked where the model may stop: when the scans and requests of the bound are used up, when a
crawl is over, and when the input of a focus is worked off.

## 4. Proofs

`ScanProofs` proves, for any number of scans, requests and kinds of task:

- `TypeCorrect`: `Spec => []TypeOK`.
- `Exclusion`: `Spec => []ExclusionInv`. "Whatever still touches the shared files is the running scan" is not
  inductive: a handler frees the lock after an await, so one must know that nothing of the same closure can still
  wake up. `ClosureInv` says how a closure and its process advance together (a completion begins only when the child
  has printed, and not once `ended`; `'close'` comes last), and `TempsOfTheRunningScan` and `RenamedInv` that no temp
  file outlives its scan. `OneScanAtATime`, `TempFilesAreCurrent` are consequences.
- `FilesUnderTheLock`: the action property `FilesChangeUnderTheLock`, from the same invariant.
- `Settled`: how each run ended is decided once, by the step that sets `ended`, and the status shown, the stop closure and `onScanDone`
  agree with it. `StopsAndReportsAreRight` (`StoppedAndToldRightly`) follows.
- `FilesAreOwned`: the invariant behind the three results on the files. It relates them to all closures so far: whatever has begun to
  replace the files and has not ended is the running scan; otherwise the three files are of one scan, save for what a
  rename that failed or a skipped stage left, and the archive holds nothing of a scan that was not kept. `FilesBelongTogether` (`FilesAgree`),
  `UnsuccessfulScansLeaveNoTrace` and `TasksSeeCurrentFiles` follow. The last needs the exclusion too: a task reads while no
  completion runs, and none can begin before it is released.
- `RefinersAreKnown`, `RefinersAreOwned` (`RefinersHaveAnOwner`): a refiner is the process of a closure that has completed, and each
  such process is one the service still knows, so a later scan or a stop reaches it.
- `NothingHangs` (`NeverHangs`) is what `ScansEnd` rests on besides fairness: a scan shown as running, or as refining, has at every moment a
  handler, a timer, a signal or a task left that ends it, though the scanner may hang. `WayOutInv` says that a process that lives has its
  timer armed or was told to stop, and that the end of the running scan, once decided, is under way until the lock is free.
- `ImplementsTheLock`: `Spec => KeepsTheLock`. Each step maps to a step of `ScanLock` or to a stutter; that the steps which
  write a file map to `Write` is where `OneAtATime` is needed.

`BackgroundProofs` proves, for any hosts, reasons and intervals, and any number of graphs saved during a pass:

- `BackgroundAlways`: `Spec => []BackgroundInv`. "Hosts are left out of the routes only by a pass over their graph" needs to know
  that a pass never reads a newer graph than `liveness.json` is of (`PassInv`), and that a task keeps scans out between
  its read and its write (`LockInv`, `TaskInv`). "Nothing settled unscanned" needs that whenever the scan shown is idle, the reasons
  asked for were scanned, unless a stopped scan's request is about to start its own (`PendingInv`).
- `TypeCorrect`, `NothingSettledUnscanned`, `RoutesAreOfTheirGraph` follow from it.
- `RescansDoNotLoop` (`AsksOnce`) is what `NoEndlessRescans` rests on besides fairness: an automatic scan asks for all that is listed, and until one fails
  nothing it asked for starts another while it stays listed. (A scan by hand may have completed in its place; see `OnlyNewReasonsRescan`.)

and, for any networks, CVEs, misconfigurations, marks, feeds, and numbers of findings shown and routes kept:

- `ScoringAlways`: `ScoringSpec => []ScoringInv`. A rescore reads the lists it wrote before, so "nothing of an earlier score is left" needs that
  lists which were cut and ordered anew, any number of times, are as good to score from as those the CVE stages wrote (`ListsAreAsGood`), and that the engine, which
  is built of the old lists beside the scoring, is that of the new ones (`EngineOfToday`, by `EngineIgnoresTheOrder`).
- `ScoresAlwaysHold` (`ScoresHold`): what is cut off a sorted list is below all that stays (`FirstFewOfAnOrder`), where `Ordered` is shown to sort by
  counting (`EveryPlaceIsTaken`: finitely many places below a bound, no two alike, are all taken).
- `LivenessAlwaysOnlyTakesStarts` (`LivenessOnlyTakesStarts`): inactive hosts change no edge (`InactiveHostsOnlyLoseStarts`), and a route that is among the
  first of many is among the first of fewer (`FewerKeepTheirPlace`).
- `RoutesAlwaysTheMostLikely` (`RoutesAreTheMostLikely`): the search goes over simple paths along the best edges, the reference over everything an attacker may
  do. `EdgeIsTheBestWay` says that an edge is the best of all ways to take the next asset. Two inductions over the number of steps then meet: a path
  the search grows is held (`PathsCanBeHeld`), and what is held is reached by a path at least as likely (`HeldIsReached`), where a way that comes back to an asset it
  holds is replaced by the path that was there first: likelihoods only fall, so going round never pays. `FirstOfAnOrder` says that a route is left out only
  when `Keep` others are above it.

`CrawlProofs` proves, for every network, number of workers and cap:

- `HoldsTrueAlways`: what a worker holds is true of the network (its address is queued, its entries are those of the
  device that answers there, and that device is online). From it `PolledByOne`, `PolledStaysPolled`.
- `PoolAlways`: each queued address is in the queue, at one worker, or settled, and in only one of these. From it
  `NoAddressTwice`, `QueueFits` (counting: the counter is the number of queued addresses, at most the cap) and
  `EverySettledWhenDone`.
- `OnlyGiven` and `OneLink`, from `GivenInv` and `LinksInv`: where each address came from, and that a pair that LLDP
  links gets no second link when CDP is resolved.
- `MapAlwaysWhole` (`MapIsWhole`), from `MapInv`. That no link hangs in the air (`EndsInv`) needs that everything an address is known to be of counts as seen.
  That the crawl finds `Reach` is shown from both sides while it runs: it stays inside every set that a walk cannot
  leave (`InsideInv`), and every device that a polled one names has a queued address or is still in the tables of the worker that holds them
  (`HandledInv`). The hard step is a neighbour that is not followed because it counts as seen: `SeenIsQueued` says that it then has a queued address, whichever
  table told of it first, which needs that a device is expected only where it answers (`ExpectedInv`) and that ids and names lead to it
  (`IdentityInv`). When the workers have stopped their tables are empty, and what was polled is a set a walk cannot leave.
- `CrawlNeverStuck` (`NeverStuck`) and `CrawlGoesOnward` (`GoesOnward`) are what `CrawlEnds` rests on besides fairness. With a worker at all, a crawl that
  is not over has a worker that polls, an idle one with an item, or what `run()` waits for; `StopsInv` says that no worker stops while
  addresses are queued, and that afterwards the queue holds as many stops as workers are left. And each step of the crawl is progress
  in a lexicographic measure (phase, seeds, reservations left, queue, the item of the worker that moves), of which each part is bounded:
  reservations by the cap, whatever loops the tables describe.

`MonitorProofs` proves, for any graphs, nodes, ports, readings and threshold:

- `MonitorAlways`: `Spec => []MonitorInv`. "Inactive only after so many quiet passes" is not inductive: `QuietInv` adds that misses never
  exceed the passes since the last reply (also across a mark, which resets them), and that a reply leaves none. `Sound` follows a
  record through the operators of a pass, one lemma each; `Evidenced` says why a pass that both probes a host and looks it up in a
  table counts one miss: the table is asked only of hosts no fast method ever proved, and silence on those counts nothing.
- `TypeCorrect`, `MarksAreTrue`, `NeverInactiveTooSoon`, `ActiveOnReplies`, and the action property `ReasonsStand`.

`ServerStoreProofs` proves, for what the server keeps:

- `NoneIsLost` (`NoStatusLost`), for any requests, items and statuses: only the head of the chain holds what it read, and as long as it
  does, the file is what it read.
- `AllIsSaved` (`NothingUnsaved`) and `RunsAreKept`, for every choice of periods, hours and bounds: saves land in order, and no step
  makes a recorded run disappear. The invariant orders everything that holds a state by its number of changes: the file is older than
  each save of the chain, each save than the next, and the last one is the state.
- `SlotsAlways`, and from it `ScheduleIsKept` (`ScheduleKeeps`): the timer is armed for the first slot of the choice after the last that ran, which
  exists because a period is at most a day, so that no slot passes unseen while the server is up.
- `HistoryAlwaysHolds` (`HistoryHolds`), for any scans, faults and size of the archive. `OrderInv` says that ids grow with the scans, in the index and
  in every request that has read it; `ArchiveInv` where an archive is between its files, its index and its pruning, and that the index
  it will write is the old one behind the new entry. From these an entry of the index always has its files.

All about the schedule is under the assumption `~SetBeforeLoad`: with a setting made before `load()` has ended it is false (see below).

`LookupProofs` proves, for what the backend asks of services that change while it asks:

- `FeedsKeepThreatData` (`ThreatDataIsKept`): the copy is what was stored last, and a scan scores with the copy.
- `OsvAlways` and `ServerAlwaysHasItsCves`: `AskingInv` says of each package asked that its ids are those OSV held at that tick,
  and that an id is resolved, waiting, or of a failed fetch.
- `AnswersAreKept` and `NvdNeverLosesCves` (`NeverLosesCves`): what a device is given is the last answer to its query, however old, and
  a failure since then takes none of it. `KeepInv` says that the queries of a device that has been shown CVEs have an answer, fresh or not, in the scan's cache and in the file,
  and that a device becomes `unavailable` only at a query without one.
- `CachesAlwaysWhole` (`CachesStayWhole`): the two invariants above together.
- `NvdAlways`, `NvdEndsInTime` (`StageEndsInTime`), `NvdIsConsiderate` (`Considerate`): `ClientInv` bounds the time spent by what a request may take at
  the moment it is sent; `CacheInv` says that a query rests at least as long by the scan's cache as by the file, since
  both age alike and only failures set it; `AtInv` and `FlightInv` say which query a request that is out is for.
- `RecordsAlwaysHold` (`RecordsHold`), for any number of CVEs and threads and any cache. `CountInv` carries the counting: among the
  requests sent after the stop, each belongs to a thread that had asked before it, so fewer than `Workers` of them; what was
  scored with is told from `used` and from how far each fetch has come.
- `WazuhAlwaysHolds` (`WazuhHolds`), for any agents, documents, page sizes, page limits and caps. `ListedInv` says why a removed agent costs at most one
  other: `Behind`, the agents there are up to the last one listed, falls short of the list by every agent that went since it was
  listed, and the agents the offset has passed over and that shortfall are together no more than the removals. `RowsInv` says that the rows of an agent
  are in order and hold every document that stayed, up to the last; `TurnInv` that the agents before the one whose turn it is have been judged.
  `SortedIs` shows that sorting a finite set of numbers is possible at all, which the proofs of the pages rest on.

`ReadingProofs` proves, for what is read of a switch:

- `WalksAlwaysReadTheTable` (`WalksReadTheTable`), for any agent that holds finitely many OIDs, in whatever order, any columns, limits and lengths of
  an answer. The rows of a walk are a *chain* (`IsChain`): each is the OID the agent has after the one before, within the subtree, none twice. A
  chain is no longer than the agent has OIDs (`ChainIsShort`, an injection), so the column is the one chain that nothing follows (`ColumnIs`), and a
  chain that is a beginning of it ends only as the whole (`BeginningsAreChains`). `Turns` counts how often it was a column's turn in the first rows of an
  answer, so that each row is the OID after the one its column is at (`AnswerIs`, `TakesOne`), wherever the answer is cut off; the walk's invariant `WalkIs` then
  says that a column still read has a beginning and a column no more read has all that was asked for.
- `PortsAlwaysTheirOwn` (`PortsAreTheirOwn`), for any switches, machines, VLANs and moves. `EntriesInv` traces each entry to a place where the machine
  has been, and its port to the name of the interface there; `TableInv` says the same of rows that wait for the ports of their context while machines
  move on; `ToldInv` that a bridge port the lookup was told is kept with the context that numbers it. For a machine that stayed, `StayersInv`
  says at each step of the lookup that its entry is still to be asked for or has led to the interface the scan named.

`PipelineProofs` proves, for any machines, names, services and findings, any set of stages that is on, and at most one that crashes:

- `ScanIsItsStages`: `PipelineSpec => []ThreadInv`. The scan is not compared at the end only: at each step of the main thread it *is* the
  sequence of stages so far (`Questioned`, `Called`, `LookedUp`, `Scanned`, `Weighed`, `Checked`, `Rated`, `Finished`), and what the other
  threads have read is what they would read alone. nmap's targets are taken before the names and the CVEs are, so the proof needs that no
  stage between changes what makes a host a target; and that looking the devices up one by one is looking them up together.
- `ThreadsChangeNothing` (`ConcurrentIsSequential`): the last of these is the sequential scan.
- `FailuresStay` (`FailureStaysInItsStage`): lines and warnings grow together (`Noted`), and a scan whose stage crashed before it wrote is
  `Alike` the scan with that stage off, which every later stage preserves.
- `ListedIsFoundAlways` (`ListedAreFound`): a node's findings and its entry are written together (`Base`, `Linked`), stage by stage; the
  badge of reachable CVEs is empty until the vectors are (`Unreached`), and what the scores list is taken from what is found. That at most
  one stage crashes is used: a crash of nmap while it writes leaves counts behind, which the scores then repair in the list but not in the count.

- `PassesAlwaysEarned` (`PassesAreEarned`), for any devices, any set of tables left unanswered and any number of walks that break off anywhere: `ReadingInv`
  says that a device is evaluated on rows it holds of what it was asked, or on nothing (`IsReading`); for each check a lemma says how what was not
  read stays visible in its result. When the tables that tell the ports are whole, the access ports only shrink as more is read, since an uplink may still get its name
  (`AccessPortsShrink`), and a VLAN that is known stays what it is (`VlansStay`); so each access port of the full reading was looked at, and a row missing of it made
  the check `unknown`. For the BPDU guard (`BpduEarned`), one port known to be guarded says that the column was read, so with that column whole all its ports are known, and the
  shortcut for ports that are all alike is no guess; where they differ, a port found through any context is the port it is in the full reading. This
  needs the clauses of the assumption on that table and the bridge ports: a device with a port-fast row and no guard row for a port would
  let the shortcut pass what the full reading cannot tell.

- `BuildAlways`, `ReasonsAlwaysTrue` (`ReasonsAreTrue`) and the action property `EvidenceAlwaysStands` (`EvidenceStands`), for any agents, devices, tables,
  links and lists of clients. `BuildInv` says for each method of `build()` what it may rely on, one lemma a method (`PhantomsLeave`,
  `TablesLeave`, `LateLeaves`, `EndsLeave`, `TableHostsLeave`, `WifiLeaves`). Two hazards take the work. A late agent may turn out to be a device and take
  away the parent of others: `Unclaimed` and `Announced` say that an agent LLDP placed is no device any more, `MayBeLate` that a device an agent may still
  turn out to be was never polled, so neither what a table placed (`Anchored`) nor what a late announcement did can lose its parent. And
  a reason is given in one method and withdrawn in another: `Reasoned` is kept through the loops over agents and clients (`LateInv`, `WifiInv`). The loops are
  recursive functions on 0..n; `LateAgentsLoop` and its two likes show that there is such a function, with `ByNumbers` for the induction,
  which is over a set of numbers and so within the prover's reach. `FactIs` shows that the choice of a port by four numbers has a least.
- `OneOfEachAlways` (`OneOfEach`), for any of the above and any two crawls. Of the graph, `ApartInv` says at each method which MACs two nodes may still share and
  why (`Excused`), but for agents that have one MAC between them: an agent that is a polled device, of which the report warns; an agent beside an LLDP neighbour whose switch is gone; a device that only a client list
  identifies (`Heard`). A device that is gone does not come back and the warnings only grow, so an excuse once true stays true (`ToldStays`), through the loop of late agents too
  (`LateApart`). Of the document, `MadeOf(edges, L)` says that a sequence of edges stands for a set of links, one edge for each pair (`Stands`); `DedupeIs` shows it of the
  loop of `_dedupe_edges`, link by link. The merge keeps the edges of the first crawl and adds those of the second whose pair it has not (`BothCrawlsHold`), so what an edge
  shows is told by one crawl alone.

The order of warnings and the content of names and findings do not matter to any of these. `LostLinksAreShown`, of the same module, is false and is a
violation run.

The assumptions are the modules' `ASSUME`s, which TLC evaluates in every run that extends them, and `~SetBeforeLoad` where it is named.

**Only model-checked**: all liveness (`EveryScanEnds`, `RefiningEnds`, `CrawlEnds`, `ReasonIsFollowed`, `NoEndlessRescans`,
`RoutesFollowUndisturbed`), which is out of the proof system's reach. The parts of `CrawlEnds`, `ScansEnd` and
`NoEndlessRescans` that need no fairness are proved (`CrawlNeverStuck` and `CrawlGoesOnward`, `NothingHangs`, `RescansDoNotLoop`). Every safety invariant that a run checks is stated by a theorem.

## 5. Not modelled

- Of Scan: the argument list of the child, the log tail, the stage display, the crash of the server itself (after a
  restart no code looks at what was left).
- Of Crawl: port inference, capabilities and the role, the discovery method, the contents of configuration tables (`Checklist` has those).
- Of Monitor: the texts of reasons, `method`, `last_seen`, and the command line.
- Of SNMP and the parsers: the protocol itself (pysnmp), decoding of LLDP and CDP fields, wireless client tables, clean-up of text.
- Of the pipeline and its stages: arguments, progress lines, the nmap command and its XML, NetBIOS packets, caps on unmanaged hosts.
- Of the lookups: the matching of versions and the CPE names of software families, which is a table of facts about
  vendors; the parsing of CVE records and of metric vectors.
- Of the assembly: port rows, labels, names of edges. Of the checklist and the attack paths: titles, reasons, evidence.
- Finer points of modules that are otherwise complete. `AttackPaths.Precedes`: of two routes equal in all else the shorter path comes first, where the code
  counts steps, routers passed on the way included (`attackpaths.py:154`, `379-387`). `Scan.CompleteRead`: the graph there is can be read; a failed read counts as none and
  the new graph always replaces it (`scan.ts:384`). `Scan.DiscardTemps`: removing a temp file does not fail (`scan.ts:274-275`).
  `Schedule.RunningScanEnds` records every run; a scheduled scan that is stopped for one by hand ends without `onDone` and is not recorded (`scan.ts:361-368`).
  `Osv.AnswersAlias`: an alias document is well formed; the code takes a malformed one for one without CVEs, and caches that (`osv.py:109-118`).
  `Tables.WalkedOrNot`: the walks of names, VLANs and base ports are read whole or not at all; those of the forwarding rows may be cut short.
- Components with status `not_modelled` in `PROJECT.json`: seeds, identity, vendors and roles are pure decoding of texts and bitmaps, whose results the
  modules take as given; configuration and types are declarations; the user interface keeps no state the server depends on;
  scripts are run once and by hand.

**Met while modelling, and left without a run.** The first group states something a comment, a document or a test of the repository denies; where a
definition here says it, it is named.

- `scan.ts:450`: the late exit of a displaced scanner ends the refining shown for a newer scan whose scanner still runs.
- `scan.ts:410`: a scan that skipped the attack paths leaves the routes of an earlier one beside its graph, and archives them,
  although `history.ts:78-79` says an entry is of one scan.
- `autoRescan.ts:6-8`: a reason an automatic scan did not clear is asked for again when a scan by hand failed in between
  (`OnlyNewReasonsRescan`).
- `schedule.ts:159`, `170`: `load()` is not awaited. A setting made before it ends is replaced in memory by what was read, or, saved
  before that read, has dropped the last run. A `stop()` before `load()` ends is undone by it: the timer is armed again.
- `assemble/graph.py:275`, `411`: an endpoint or a host whose MAC a polled device learned gets that device for its parent also when an
  agent of the device's MAC has been merged with it, which leaves a parent that is no node (`EveryEdgeEndsAtANode`, `tests/test_duplicates.py:245`).
- `scoring/stage.py:50-53`: the CVE that sets a node's score need not be listed once ten others are of a higher tier
  (`ScoreSetterIsListed`; ten findings of the KEV catalogue on one node are needed, `Shown` + 1 in the model).
- `evaluate.py:14`, "missing data is never a pass" (`MissingDataIsNeverAPass`): a walk that breaks off returns its rows so far (`snmp.py:258-259`, `278`), and no check can
  tell; `telnet`, `http`, `spare_ports`, `default_vlan`, `bpdu_guard` and `port_security` can each pass because the row that would fail them was cut off. A
  listener that is only in the TCP table that was not read is taken for absent when the other one was (`tables.py:100-116`). Spare ports pass when the interface names
  were not read, since the routed VLANs are then missing from those in use. A probe or a connection that times out counts as a device that does not answer.
- `collect.py:155` says the lookup reads the tables the scan read. Without ifName it gives the number where the scan has ifDescr; a
  bridge port without an interface is a raw number to the scan and nothing to the lookup; a Cisco switch the scan read in its default
  context is looked up per VLAN; a GET of a batch that is not answered counts as a miss.
- `pipeline.py` (above the thread pool) and `src/backend/README.md:70-72` have the names asked for beside the device CVEs; the code waits for the names before these begin.
- `document.py` `_dedupe_edges` speaks of one edge per cable; two cables between a pair become one edge, which may show a
  port of each.

The second group are behaviours nothing in the repository denies, and which a maintainer may want to know.

- `network/__main__.py:49`: `--concurrency 0` is accepted, and `run()` (`crawl.py:147`) then waits for `join()` for ever once a seed is queued. `NeverStuck`
  therefore asks for a worker.
- `crawl.py:397`: a neighbour first told without an address is known, and is not polled when another device tells its
  address.
- `monitor.py:260-264`: a host without an address, checked by the table only, is set to `unknown` before the table is
  read, so a miss below the threshold does not leave its state as it was.
- `monitor.py:284`, `456-460`: an agent reported gone while the node is marked is passed over, and when the port is up in the same
  pass the node returns as it was before, perhaps active, until the next.
- `monitor.py:488`: the walk behind `port_status` returns what it got and does not raise, so half an answer replaces the
  remembered ports (`"absent"` in the readings of the model).
- `scan.ts:329`: a second preempting request overwrites `whenStopped` of the first, which is then never answered.
- `schedule.ts`: the end of a long scan, recorded with the time of its slot, replaces a later skip as the last run.
- An index, tracker or cache that cannot be read is taken as an empty one and written back so.
- `wazuh.py:239-248`: agents are paged by offset; one removed meanwhile makes the scan miss another. After `AGENT_MAX_PAGES` pages
  (`wazuh.py:233`) the list ends without a note, and the agents behind them are in no graph.
- `osv.py`: `next_page_token` of a batch answer is not followed.
- Two backend processes that share `nvd-cache.json` (a scan of the plugin and one by hand) overwrite each other's; the one that saves last wins.
- A host that is looked up by its SNMP family and again by its services: the later lookup, without an answer, replaces the CVEs of the first.
- `pipeline.py:391`: an nmap stage that crashes while it applies its results leaves nodes with CVEs that have no findings. A NetBIOS
  name found after the device stage is missing in `vulnerabilities.json`.
- `hosts.py:285`: the second assembly also drops the crawl's warnings and `metadata.snmp` (`MCDocumentsLost` shows the lost links).
- A device that nobody polled and that is also an access point's client becomes two nodes.
- `attackpaths.py`: an inactive host starts no route and still is a stepping stone of one.
- `snmp.py:252`: GETBULK failing in one VLAN's context turns it off for the whole device.

## 6. What is left

To model: port inference and the text parsers could be given reference definitions;
they hold no state, and unit tests of the repository cover them.
