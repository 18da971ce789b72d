------------------------------- MODULE Pipeline -------------------------------
(***************************************************************************)
(* pipeline.py: one scan, from the assembled graph to the files, with the     *)
(* stages hosts.py, devicecves, servicescan and scoring add to it. Reverse    *)
(* DNS and nmap run in threads beside the main one (CONCURRENT); each stage   *)
(* is an operator on the scan's state, an action is one of them taken by one  *)
(* thread. A CVE is a number, the higher the worse.                           *)
(***************************************************************************)
EXTENDS Naturals, FiniteSets, Sequences, SequencesExt

CONSTANTS
  Agents, Hosts, Switches,  \* endpoints with a Wazuh agent, hosts without one, network devices
  Cves,                     \* positive numbers
  Urgent,                   \* the CVEs whose tier is P0
  TopCves,                  \* how many a node lists
  Worlds                    \* what the options, the network, NVD and the crashes of a scan may be

Assets == Agents \cup Hosts \cup Switches
Stages == <<"snmp", "names", "devices", "nmap", "vectors", "checklist", "ovss", "paths">>

\* An asset is one of the three, and at most one stage crashes, before it has written anything or after all.
ASSUME PipelineAssumption ==
  /\ Agents \cap Hosts = {} /\ Agents \cap Switches = {} /\ Hosts \cap Switches = {}
  /\ \A w \in Worlds : w.crash \in (ToSet(Stages) \X {"early", "late"}) \cup {<<"none", "never">>}

VARIABLES
  world,   \* the options (on), the answers and the stage that crashes
  scan,    \* the ScanContext and its document
  at,      \* the main thread: the stage it is at
  names,   \* the reverse DNS thread: idle, asking, done, and whom it asks
  nmap,    \* the nmap thread: idle, scanning, done, and its targets
  looked   \* the nodes device CVEs have looked up

pipelineVars == <<world, scan, at, names, nmap, looked>>

-----------------------------------------------------------------------------
\* The scan's state, and what a stage's line says.

Unknown == [known |-> FALSE, rows |-> {}]
Rows(answer) == IF answer.status = "ok" THEN [known |-> TRUE, rows |-> answer.rows] ELSE Unknown
Worst(S) == {c \in S : Cardinality({d \in S : d > c}) < TopCves}

Node(n) == [kind |-> IF n \in Switches THEN "device" ELSE "endpoint", name |-> IF n \in Hosts THEN "none" ELSE "own",
            family |-> FALSE, ports |-> FALSE, counted |-> IF n \in Agents THEN Rows(world.wazuh) ELSE Unknown,
            top |-> IF n \in Agents THEN Worst(Rows(world.wazuh).rows) ELSE {}, reachable |-> {}]

\* vulnerabilities.json: the agents' entries are always built, the others' once a stage adds them.
Entry(n) == [here |-> n \in Agents, name |-> IF n \in Agents THEN "own" ELSE "none",
             findings |-> IF n \in Agents THEN Rows(world.wazuh) ELSE Unknown]

\* assemble, then what main adds: the ports the previous graph had up, the crawl's warnings.
Assembled(devices, previous, warnings) ==
  [node |-> [n \in Assets |-> [Node(n) EXCEPT !.kind = IF n \in devices THEN "device" ELSE @]],
   entry |-> [n \in Assets |-> Entry(n)], cves |-> Rows(world.wazuh).rows, scored |-> {}, engine |-> FALSE,
   lost |-> previous /\ world.lost, warnings |-> warnings, lines |-> << >>]
FirstGraph == Assembled(Switches, TRUE, IF world.crawlEmpty THEN {"crawl_empty"} ELSE {})

Line(s, stage, status) == [s EXCEPT !.lines = Append(@, <<stage, status>>)]
BugFailed(s, stage) == Line(s, stage, "failed")
Failed(s, stage) == Line([s EXCEPT !.warnings = @ \cup {stage}], stage, "failed")
Crashes(stage, when) == world.crash = <<stage, when>>

\* _run_stage: off, crashed before it did anything, crashed with the nodes written and nothing kept, or ran.
Run(s, on, stage, written, kept) ==
  IF stage \notin on THEN Line(s, stage, "skipped")
  ELSE IF Crashes(stage, "early") THEN Failed(s, stage)
  ELSE IF Crashes(stage, "late") THEN Failed(written, stage)
  ELSE Line(kept, stage, "ran")

-----------------------------------------------------------------------------
\* The stages.

\* question_targets: the hosts without an agent that are not devices.
Targets(s) == {n \in Hosts : s.node[n].kind = "endpoint"}

\* run_snmp_question: hosts that forward are crawled and the graph is assembled again, without the previous
\* graph; then everyone who answered gains what it said.
Forwarding == {n \in Hosts : world.snmp[n] = "forwards"}
Reassembles(s) == IF Forwarding = {} THEN s ELSE Assembled(Switches \cup Forwarding, FALSE, {})
Heard(node, n) == [node EXCEPT !.name = "snmp", !.family = world.snmp[n] = "family"]
Answers(s) ==
  [s EXCEPT !.node = [n \in Assets |-> IF n \in Hosts /\ world.snmp[n] # "silent" THEN Heard(@[n], n) ELSE @[n]]]
SnmpQuestion(s, on) == Run(s, on, "snmp", Reassembles(s), Answers(Reassembles(s)))

\* lookup_names: whoever has no name is asked, and named when DNS answers.
Nameless(s) == {n \in Hosts : s.node[n].kind = "endpoint" /\ s.node[n].name = "none"}
Named(s, asked) ==
  [s EXCEPT !.node = [n \in Assets |-> IF n \in asked \cap world.dns THEN [@[n] EXCEPT !.name = "dns"] ELSE @[n]]]
NameLookup(s) == Named(s, Nameless(s))

\* The CVE fields of nodes from their lookups (apply_result), and their entries (device_entry, add_findings).
Apply(node, answer) == [node EXCEPT !.counted = Rows(answer), !.top = Worst(Rows(answer).rows)]
ApplyAll(s, S, answer) ==
  [s EXCEPT !.node = [n \in Assets |-> IF n \in S THEN Apply(@[n], answer[n]) ELSE @[n]]]
KeepFindings(s, S, answer) ==
  [s EXCEPT !.entry = [n \in Assets |->
                         IF n \in S THEN [here |-> TRUE, name |-> s.node[n].name, findings |-> Rows(answer[n])]
                         ELSE @[n]],
            !.cves = @ \cup UNION {Rows(answer[n]).rows : n \in S}]

\* run_device_cves: the devices, and the hosts that answered SNMP with a software family.
Lookups(s) == {n \in Assets : s.node[n].kind = "device" \/ s.node[n].family}
LookUpAll(s) == ApplyAll(s, Lookups(s), world.software)
KeepDevices(s) == KeepFindings(s, Lookups(s), world.software)
DevicesStage(s, on) == Run(s, on, "devices", LookUpAll(s), KeepDevices(LookUpAll(s)))

\* nmap_hosts reads; run_service_scan writes: ports, the NetBIOS name of a nameless host, and the CVEs of the
\* services that told a version.
Answering(S) == {n \in S : world.services[n].status # "silent"}
Versioned(S) == {n \in Answering(S) : world.services[n].status # "plain"}
Seen(node, n) ==
  [node EXCEPT !.ports = TRUE, !.name = IF node.name = "none" /\ n \in world.netbios THEN "netbios" ELSE node.name]
SeenBy(s, S) ==
  [s EXCEPT !.node = [n \in Assets |-> IF n \in Answering(S) THEN Seen(@[n], n) ELSE @[n]]]
ApplyScans(s, S) == ApplyAll(SeenBy(s, S), Versioned(S), world.services)
BugKeepServices(s, S) == [KeepFindings(s, Versioned(S), world.services) EXCEPT !.cves = s.cves]
KeepServices(s, S) == KeepFindings(s, Versioned(S), world.services)
NmapStage(s, on, S) == Run(s, on, "nmap", ApplyScans(s, S), KeepServices(ApplyScans(s, S), S))

\* run_cve_vectors: of a node's findings, or of those it lists when they are not known, the worst that is
\* reached over the network without privileges or interaction.
Listable(s, n) == IF s.entry[n].findings.known THEN s.entry[n].findings.rows ELSE s.node[n].top
Reached(s, n) ==
  LET easy == Listable(s, n) \cap world.easy
  IN IF s.node[n].counted.known THEN {c \in easy : \A d \in easy : d <= c} ELSE {}
Vectors(s) == [s EXCEPT !.node = [n \in Assets |-> [@[n] EXCEPT !.reachable = Reached(s, n)]]]

\* run_ovss: every finding gets its tier; a node lists the first by tier, then by score.
MoreUrgent(c, d) == (c \in Urgent /\ d \notin Urgent) \/ ((c \in Urgent <=> d \in Urgent) /\ c > d)
First(S) == {c \in S : Cardinality({d \in S : MoreUrgent(d, c)}) < TopCves}
Scored(s) ==
  [s EXCEPT !.node = [n \in Assets |-> [@[n] EXCEPT !.top = First(Listable(s, n))]],
            !.scored = UNION {{<<n, c>> : c \in Listable(s, n)} : n \in Assets}]
BuildsEngine(s) == [s EXCEPT !.engine = TRUE]

\* _attack_paths_skip: there is no engine when the OVSS stage failed.
PathsOn(s, on) == IF s.engine THEN on ELSE on \ {"paths"}

VectorsStage(s, on) == Run(s, on, "vectors", Vectors(s), Vectors(s))
ChecklistStage(s, on) == Run(s, on, "checklist", s, s)
OvssStage(s, on) == Run(s, on \cup {"ovss"}, "ovss", Scored(s), BuildsEngine(Scored(s)))
PathsStage(s, on) == Run(s, PathsOn(s, on), "paths", s, s)

-----------------------------------------------------------------------------
\* One stage after another, as CONCURRENT = False runs them: what every scan must come to.

Sequential(on) ==
  LET s0 == SnmpQuestion(FirstGraph, on)
      s1 == Run(s0, on, "names", NameLookup(s0), NameLookup(s0))
      s2 == DevicesStage(s1, on)
      s3 == NmapStage(s2, on, Targets(s2))
      s4 == ChecklistStage(VectorsStage(s3, on), on)
  IN PathsStage(OvssStage(s4, on), on)

-----------------------------------------------------------------------------
\* The threads.

Idle == [pc |-> "idle", of |-> {}]

PipelineStarts ==
  /\ scan = FirstGraph
  /\ at = "snmp" /\ names = Idle /\ nmap = Idle /\ looked = {}
PipelineInit == world \in Worlds /\ PipelineStarts

On(stage) == stage \in world.on

\* The question to the hosts, then the group: both threads are submitted before any result is waited for.
AsksHosts ==
  /\ at = "snmp"
  /\ scan' = SnmpQuestion(scan, world.on)
  /\ names' = [Idle EXCEPT !.pc = IF On("names") THEN "asked" ELSE "done"]
  /\ nmap' = [Idle EXCEPT !.pc = IF On("nmap") THEN "asked" ELSE "done"]
  /\ at' = "names"
  /\ UNCHANGED <<world, looked>>

NamesStart ==
  /\ names.pc = "asked"
  /\ names' = [pc |-> IF Crashes("names", "early") THEN "done" ELSE "asking", of |-> Nameless(scan)]
  /\ UNCHANGED <<world, scan, at, nmap, looked>>

NamesAnswer ==
  /\ names.pc = "asking"
  /\ scan' = Named(scan, names.of)
  /\ names' = [names EXCEPT !.pc = "done"]
  /\ UNCHANGED <<world, at, nmap, looked>>

NmapStart ==
  /\ nmap.pc = "asked"
  /\ nmap' = [pc |-> "scanning", of |-> Targets(scan)]
  /\ UNCHANGED <<world, scan, at, names, looked>>

NmapEnds ==
  /\ nmap.pc = "scanning"
  /\ nmap' = [nmap EXCEPT !.pc = "done"]
  /\ UNCHANGED <<world, scan, at, names, looked>>

\* The names are recorded, and so waited for, before the device CVEs begin.
Recorded(s, stage) ==
  IF ~On(stage) THEN Line(s, stage, "skipped")
  ELSE IF Crashes(stage, "early") \/ Crashes(stage, "late") THEN Failed(s, stage) ELSE Line(s, stage, "ran")
BugRecordsNames == /\ at = "names" /\ scan' = Recorded(scan, "names") /\ at' = "devices"
                   /\ UNCHANGED <<world, names, nmap, looked>>
RecordsNames ==
  /\ at = "names" /\ names.pc = "done"
  /\ scan' = Recorded(scan, "names")
  /\ at' = "devices"
  /\ UNCHANGED <<world, names, nmap, looked>>

LooksUpDevice ==
  /\ at = "devices" /\ On("devices") /\ ~Crashes("devices", "early")
  /\ \E n \in Lookups(scan) \ looked : scan' = ApplyAll(scan, {n}, world.software) /\ looked' = looked \cup {n}
  /\ UNCHANGED <<world, at, names, nmap>>

EndsDevices ==
  /\ at = "devices"
  /\ On("devices") /\ ~Crashes("devices", "early") => Lookups(scan) \subseteq looked
  /\ scan' = Recorded(IF On("devices") /\ world.crash[1] # "devices" THEN KeepDevices(scan) ELSE scan, "devices")
  /\ at' = "nmap"
  /\ UNCHANGED <<world, names, nmap, looked>>

\* What nmap found is applied here; an exception of its thread is raised here too.
AppliesNmap ==
  /\ at = "nmap" /\ nmap.pc = "done"
  /\ scan' = NmapStage(scan, world.on, nmap.of)
  /\ at' = "vectors"
  /\ UNCHANGED <<world, names, nmap, looked>>

RunsVectors ==
  /\ at = "vectors" /\ scan' = VectorsStage(scan, world.on) /\ at' = "checklist"
  /\ UNCHANGED <<world, names, nmap, looked>>
RunsChecklist ==
  /\ at = "checklist" /\ scan' = ChecklistStage(scan, world.on) /\ at' = "ovss"
  /\ UNCHANGED <<world, names, nmap, looked>>
RunsOvss ==
  /\ at = "ovss" /\ scan' = OvssStage(scan, world.on) /\ at' = "paths"
  /\ UNCHANGED <<world, names, nmap, looked>>
RunsPaths ==
  /\ at = "paths" /\ scan' = PathsStage(scan, world.on) /\ at' = "done"
  /\ UNCHANGED <<world, names, nmap, looked>>

PipelineNext ==
  \/ AsksHosts \/ NamesStart \/ NamesAnswer \/ NmapStart \/ NmapEnds \/ RecordsNames \/ LooksUpDevice
  \/ EndsDevices \/ AppliesNmap \/ RunsVectors \/ RunsChecklist \/ RunsOvss \/ RunsPaths

PipelineSpec == PipelineInit /\ [][PipelineNext]_pipelineVars
-----------------------------------------------------------------------------
\* Properties.

Ended == at = "done"

\* pipeline.py:501-507, "the outputs are the same either way": whatever the threads interleave, a scan comes to
\* the graph, findings, warnings and stage lines of the stages run one after another.
ConcurrentIsSequential == Ended => scan = Sequential(world.on)

\* An optional stage that crashes is recorded as failed and the scan goes on without it: when it crashed before
\* it wrote anything, all it leaves, its line and warning apart, is what the scan has with the stage turned off.
Data(s) == <<s.node, s.entry, s.cves, s.scored, s.lost>>
FailureStaysInItsStage ==
  Ended => LET stage == world.crash[1]
          IN /\ Crashes(stage, "early") /\ stage \in world.on \ {"ovss"} => Data(scan) = Data(Sequential(world.on \ {stage}))
             /\ {scan.lines[i][1] : i \in {j \in DOMAIN scan.lines : scan.lines[j][2] = "failed"}}
                  = scan.warnings \ {"crawl_empty"}
             /\ [i \in DOMAIN scan.lines |-> scan.lines[i][1]] = Stages

\* graph.json and vulnerabilities.json agree at the end: what a node lists, or says is easily reached, is among
\* its findings, all of these are in the catalogue and scored, and the node counts them, unless the very
\* stage that was writing them crashed (a host may be looked up twice, by its software and by its services).
ListedAreFound ==
  Ended => \A n \in {m \in Assets : scan.entry[m].here /\ scan.entry[m].findings.known} :
            LET found == scan.entry[n].findings.rows
            IN /\ found \subseteq scan.cves
               /\ scan.node[n].top \subseteq found
               /\ scan.engine => \A c \in found : <<n, c>> \in scan.scored
               /\ scan.node[n].reachable \subseteq found
               /\ scan.node[n].counted = scan.entry[n].findings \/ Crashes("nmap", "late")

\* pipeline.py:204-206: a port that was up in the graph this scan replaces and is down now shows as link lost.
LostLinksAreShown == Ended => scan.lost = world.lost
=============================================================================
