----------------------------- MODULE MCDocuments -----------------------------
(* What one scan reads and makes of it: the walks of a device's tables, where a *)
(* switch has a machine, the graph that is assembled, the stages that add to   *)
(* it, the checks of a device, and the scores with the attack paths. They are   *)
(* checked one at a time: the one in focus moves.                              *)
EXTENDS Snmp, Tables, Topology, Pipeline, Checklist, Scoring

VARIABLE focus

\* Two switches, a neighbour that may be an agent and an access point, with what they report of three hosts. A link
\* is one that a polled device told of.
MCNode(ip, pollable, equipment, fdb, clients) ==
  [ip |-> ip, pollable |-> pollable, unreachable |-> FALSE, equipment |-> equipment, ap |-> clients # << >>,
   own |-> {}, fdb |-> fdb, uplinks |-> {9}, clients |-> clients]
MCRow(m, p) == [mac |-> m, port |-> p, vlan |-> 10 * p]
MCLink(s, t) == [source |-> s, local |-> t, target |-> t, remote |-> 9]
MCAgent(m, ip, st) == [mac |-> m, ip |-> ip, status |-> st]
MCDrawn ==
  {[order |-> <<1, 2, 3, 5>>,
    node |-> (1 :> MCNode(13, TRUE, TRUE, f, << >>)) @@ (2 :> n2) @@ (3 :> n3) @@ (5 :> MCNode(0, TRUE, FALSE, {}, cl)),
    edges |-> e, arp |-> arp, agents |-> ags] :
    f \in {{}, {MCRow(2, 1)}, {MCRow(2, 1), MCRow(3, 1), MCRow(4, 2)}, {MCRow(4, 2), MCRow(4, 1), MCRow(2, 9)}},
    n2 \in {MCNode(ip, p, q, IF p THEN {MCRow(4, 1)} ELSE {}, << >>) : ip \in {0, 12}, p \in BOOLEAN, q \in BOOLEAN},
    n3 \in {MCNode(0, FALSE, q, {}, << >>) : q \in BOOLEAN},
    cl \in {<< >>, <<[mac |-> 2, ip |-> 11, radio |-> 1], [mac |-> 4, ip |-> 21, radio |-> 1]>>},
    e \in {<< >>, <<MCLink(1, 2)>>, <<MCLink(1, 2), MCLink(2, 3)>>, <<MCLink(2, 3), MCLink(1, 2)>>, <<MCLink(1, 3), MCLink(1, 2)>>},
    arp \in {<< >>, (2 :> 11), (4 :> 11) @@ (2 :> 21)},
    ags \in {<<MCAgent(m, 11, "active"), MCAgent(k, 21, st)>> : m \in {0, 2}, k \in {0, 2, 3}, st \in {"active", "disconnected"}}}
MCDocs ==
  {d \in MCDrawn : \A i \in DOMAIN d.edges : d.node[d.edges[i].source].pollable \/ d.node[d.edges[i].target].pollable}

\* One agent, one host without one and one switch, and every scan of them with at most one stage turned off and
\* one that crashes.
MCOne == [status |-> "ok", rows |-> {1}]
MCAnswers == {MCOne, [status |-> "ok", rows |-> {2, 3}], [status |-> "unavailable", rows |-> {}]}
MCServices == MCAnswers \cup {[status |-> s, rows |-> {}] : s \in {"silent", "plain"}}
MCStages == ToSet(Stages)
MCCrashes == {<<"none", "never">>} \cup {<<s, w>> : s \in MCStages, w \in {"early", "late"}}

\* What the assets and the services answer, with every stage on but at most one; a link has been lost.
MCAnswered ==
  {[on |-> MCStages \ off, snmp |-> [n \in Hosts |-> answer], dns |-> dns, netbios |-> Hosts, wazuh |-> wazuh,
    software |-> [n \in Assets |-> software], services |-> [n \in Hosts |-> services], easy |-> {1, 3},
    crash |-> <<"none", "never">>, lost |-> TRUE, crawlEmpty |-> TRUE] :
     off \in {{}} \cup {{s} : s \in MCStages \ {"ovss"}}, answer \in {"silent", "family", "forwards"},
     dns \in {{}, Hosts}, wazuh \in MCAnswers \ {MCOne}, software \in MCAnswers, services \in MCServices}

MCWorlds == MCAnswered \cup {[w EXCEPT !.crash = c] : w \in {x \in MCAnswered : x.on = MCStages}, c \in MCCrashes}

\* Switches of two vendors, with and without listeners, VLANs and a connection test. The tables of a Cisco are split
\* between two of them that list no TCP ports and one that has no spanning-tree extensions.
MCPort(n, e, r, o, l) == [name |-> n, ethernet |-> e, routes |-> r, oper |-> o, last |-> l]
MCDevice ==
  [cisco |-> TRUE, switch |-> TRUE, version |-> "v2c", defaultName |-> FALSE, probe |-> TRUE, answersDefault |-> FALSE,
   portTest |-> TRUE, filtered |-> FALSE, listens |-> {22, 23}, tcpConn |-> {22}, tcpListener |-> {22, 23}, uptime |-> 9,
   ifs |-> (1 :> MCPort(101, TRUE, 0, "up", 5)) @@ (2 :> MCPort(102, TRUE, 0, "down", 1)) @@ (3 :> MCPort(103, TRUE, 0, "up", 1))
           @@ (4 :> MCPort(104, FALSE, 20, "up", 1)),
   uplinks |-> {103}, used |-> {}, vmVlan |-> (1 :> 10) @@ (2 :> 20) @@ (3 :> 1),
   bridgePorts |-> (11 :> 1) @@ (12 :> 2) @@ (13 :> 3), pvid |-> (11 :> 10) @@ (12 :> 20) @@ (13 :> 1),
   context |-> (10 :> (11 :> 1)) @@ (20 :> ((12 :> 2) @@ (13 :> 3))), guardGlobal |-> "on", fastGlobal |-> "on",
   fastMode |-> (11 :> "default") @@ (12 :> "default") @@ (13 :> "disable"),
   guard |-> (11 :> "default") @@ (12 :> "enable") @@ (13 :> "disable"),
   securityGlobal |-> "on", security |-> (1 :> TRUE) @@ (2 :> TRUE) @@ (3 :> FALSE)]
MCBare == [MCDevice EXCEPT !.tcpConn = {}, !.tcpListener = {}, !.pvid = << >>, !.security = << >>]
MCPolled ==
  {[MCBare EXCEPT !.ifs = [i \in {1, 2, 4} |-> @[i]]],
   [MCBare EXCEPT !.ifs = (1 :> @[1]) @@ (2 :> MCPort(102, TRUE, 0, "down", 4)) @@ (3 :> @[3]),
                  !.guard = [@ EXCEPT ![11] = "enable", ![12] = "disable"], !.fastMode = << >>, !.filtered = TRUE],
   [MCDevice EXCEPT !.version = "v3", !.portTest = FALSE, !.used = {30}, !.ifs = [i \in 1..3 |-> @[i]], !.pvid = << >>, !.bridgePorts = << >>,
                    !.context = << >>, !.fastMode = << >>, !.guard = << >>, !.vmVlan[2] = 1, !.security[2] = FALSE],
   [MCDevice EXCEPT !.cisco = FALSE, !.listens = {}, !.tcpConn = {}, !.tcpListener = {}, !.ifs[4].routes = 30, !.pvid[12] = 0, !.probe = FALSE],
   [MCDevice EXCEPT !.cisco = FALSE, !.listens = {80}, !.tcpConn = {80, 443}, !.tcpListener = {}, !.ifs[4].routes = 30, !.pvid[12] = 10,
                    !.pvid[13] = 3, !.portTest = FALSE]}

\* A router or layer-3 switch, a switch with spare ports, a host on a VLAN, a Wi-Fi client of the switch and a
\* managed host, with four CVEs.
MCFlaws == (1 :> [vector |-> "NETWORK", complexity |-> "LOW", free |-> TRUE, cvss |-> 98])
        @@ (2 :> [vector |-> "ADJACENT", complexity |-> "MEDIUM", free |-> TRUE, cvss |-> 75])
        @@ (3 :> [vector |-> "NETWORK", complexity |-> "HIGH", free |-> TRUE, cvss |-> 50])
        @@ (4 :> [vector |-> "NETWORK", complexity |-> "LOW", free |-> FALSE, cvss |-> 100])
MCSwitch(role, l3, cves, config, spare, subs) ==
  [kind |-> "device", role |-> role, l3 |-> l3, vlan |-> 0, wifi |-> 0, subs |-> subs, managed |-> FALSE, offline |-> FALSE,
   known |-> TRUE, cves |-> cves, config |-> config, spare |-> spare, parent |-> 0]
MCHost(in, wifi, managed, offline, known, cves) ==
  [kind |-> "host", role |-> "none", l3 |-> {}, vlan |-> in, wifi |-> wifi, subs |-> {}, managed |-> managed, offline |-> offline,
   known |-> known, cves |-> cves, config |-> {}, spare |-> {}, parent |-> 2]
MCGraphs ==
  {<<MCSwitch(r[1], r[2], {3, 4}, {}, {}, {}), MCSwitch("none", {1}, d[1], d[2], {1}, k[2]),
     MCHost(1, 0, TRUE, a[1], TRUE, a[2]), MCHost(0, 2, FALSE, FALSE, TRUE, {}), MCHost(2, 0, TRUE, FALSE, k[1], {1, 2, 3})>> :
   r \in {<<"router", {1, 2}>>, <<"l3-switch", {1, 2}>>, <<"router", {1}>>},
   d \in {<<{2}, {}>>, <<{1, 4}, {}>>, <<{3}, {"MEDIUM"}>>},
   a \in {<<TRUE, {3}>>, <<FALSE, {1, 2}>>}, k \in {<<TRUE, {1}>>, <<FALSE, {1, 2}>>}}
MCOneMark == <<0, 0, 0, 0, 100>>
MCMarks == {MCOneMark, <<0, 50, 0, 0, 25>>}
MCQuiet == [kev |-> {}, epss |-> <<0, 10, 1, 3>>]
MCThreats == {MCQuiet, [kev |-> {3}, epss |-> <<2, 0, 0, 0>>]}

\* A device that holds its two columns in order, one that holds them unsorted, and one that answers a row twice.
MCHolds(order) == [o \in {order[i] : i \in 1..(Len(order) - 1)} |-> order[1 + CHOOSE i \in DOMAIN order : order[i] = o]]
MCSnmpAgents ==
  {[next |-> MCHolds(<<10, 11, 12, 13, 21, 22>>) @@ (20 :> 21), answersTo |-> {1, 2}],
   [next |-> MCHolds(<<10, 13, 11, 12, 22, 21>>) @@ (20 :> 22), answersTo |-> {2}],
   [next |-> MCHolds(<<10, 12, 11, 13>>) @@ (13 :> 12) @@ (20 :> 21) @@ (21 :> 30), answersTo |-> {1}]}
MCWalks == << <<10, 20>>, <<20, 10>> >>

\* Two machines on three ports of two VLANs, or at a port the switch does not name. A Cisco switch with VTP, whose
\* contexts number the same ports differently, one without 802.1Q whose ifName is empty, and both with SNMPv3.
MCPortNames == (1 :> 101) @@ (2 :> 102) @@ (3 :> 103) @@ (4 :> 104)
MCCatalyst ==
  [cisco |-> TRUE, v2c |-> TRUE, vtp |-> (10 :> TRUE) @@ (20 :> TRUE) @@ (30 :> FALSE) @@ (1002 :> TRUE), static |-> << >>,
   contexts |-> (10 :> (1 :> 1)) @@ (20 :> ((1 :> 2) @@ (2 :> 3))), vlanTable |-> FALSE, flat |-> {1},
   base |-> (1 :> 4) @@ (2 :> 1), ifName |-> MCPortNames, ifDescr |-> << >>,
   places |-> {<<10, 1>>, <<20, 2>>, <<20, 3>>, <<10, 0>>}]
MCOther ==
  [MCCatalyst EXCEPT !.cisco = FALSE, !.vtp = << >>, !.static = (10 :> TRUE) @@ (20 :> TRUE), !.contexts = << >>,
                     !.vlanTable = TRUE, !.flat = {10, 20}, !.base = (1 :> 3) @@ (2 :> 1) @@ (3 :> 2)]
MCBridges ==
  {MCCatalyst, MCOther, [MCCatalyst EXCEPT !.v2c = FALSE, !.flat = {10, 20}],
   [MCOther EXCEPT !.ifName = << >>, !.ifDescr = MCPortNames, !.v2c = FALSE, !.vlanTable = FALSE]}

\* Two devices that tell of each other, over one cable or two, and of a third that is polled or not; a second crawl
\* of the third, which tells of the first. A port is numbered by its device.
MCCable(s, t, l, r, p) == [source |-> s, target |-> t, local |-> l, remote |-> r, protocol |-> p]
MCTold ==
  {MCCable(1, 2, l, r, p) : l \in {0, 11}, r \in {0, 21}, p \in {"lldp", "cdp"}}
    \cup {MCCable(2, 1, l, 12, "lldp") : l \in {0, 22}} \cup {MCCable(2, 3, 23, 0, "cdp"), MCCable(1, 1, 11, 12, "lldp")}
MCReports ==
  {[base |-> [polled |-> {1, 2}, known |-> {3}, links |-> ls],
    extra |-> [polled |-> {3}, known |-> {1, 2, 4}, links |-> <<MCCable(3, 2, 32, 0, "lldp"), l, MCCable(3, 4, 33, 0, "lldp")>>],
    only |-> only] :
   ls \in UNION {[1..n -> MCTold] : n \in 1..3}, l \in {MCCable(3, 1, 0, 13, "lldp"), MCCable(3, 5, 0, 0, "cdp")}, only \in BOOLEAN}

-----------------------------------------------------------------------------
\* The initial states of those that are not in focus are fixed.
MCDoc == CHOOSE d \in MCDocs : TRUE
MCWorld == CHOOSE w \in MCAnswered : TRUE
MCGraph == CHOOSE g \in MCGraphs : TRUE
MCMib == CHOOSE a \in MCSnmpAgents : TRUE
MCReport == [base |-> NoDocument, extra |-> NoDocument, only |-> TRUE]
MCPlace == [x \in Machines |-> Away]

ReportsStart(f) == IF f = "document" THEN report \in Reports ELSE report = MCReport
DocumentsStart(f) == IF f = "assemble" THEN doc \in Documents ELSE doc = MCDoc
WorldsStart(f) == IF f = "pipeline" THEN world \in Worlds ELSE world = MCWorld
DevicesStart(f) == IF f = "checklist" THEN device \in Polled ELSE device = MCDevice
GraphsStart(f) == IF f = "scoring" THEN node \in ScoredGraphs ELSE node = MCGraph
MibsStart(f) == IF f = "snmp" THEN mib \in SnmpAgents /\ limit \in Limits ELSE mib = MCMib /\ limit = 0
BridgesStart(f) ==
  IF f = "tables" THEN bridge \in Bridges /\ place \in [Machines -> bridge.places] ELSE bridge = MCCatalyst /\ place = MCPlace
MCInit ==
  /\ focus \in {"snmp", "tables", "document", "assemble", "pipeline", "checklist", "scoring"}
  /\ ReportsStart(focus) /\ DocumentsStart(focus) /\ WorldsStart(focus) /\ DevicesStart(focus) /\ GraphsStart(focus) /\ MibsStart(focus) /\ BridgesStart(focus)
  /\ SnmpStarts /\ TablesStart /\ DocumentStarts /\ AssembleStarts /\ PipelineStarts /\ ChecklistStarts /\ ScoringInit
  /\ focus # "scoring" => weight = MCOneMark /\ feed = MCQuiet

\* What is not in focus stays as it starts.
Rest(f) ==
  /\ f # "snmp" => UNCHANGED snmpVars
  /\ f # "tables" => UNCHANGED tablesVars
  /\ f # "document" => UNCHANGED documentVars
  /\ f # "assemble" => UNCHANGED assembleVars
  /\ f # "pipeline" => UNCHANGED pipelineVars
  /\ f # "checklist" => UNCHANGED checklistVars
  /\ f # "scoring" => UNCHANGED scoringVars
MCNext ==
  /\ UNCHANGED focus
  /\ \/ focus = "snmp" /\ SnmpNext
     \/ focus = "tables" /\ TablesNext
     \/ focus = "document" /\ DocumentNext
     \/ focus = "assemble" /\ AssembleNext
     \/ focus = "pipeline" /\ PipelineNext
     \/ focus = "checklist" /\ ChecklistNext
     \/ focus = "scoring" /\ ScoringNext
  /\ Rest(focus)

MCSpec == MCInit /\ [][MCNext]_<<snmpVars, tablesVars, documentVars, assembleVars, pipelineVars, checklistVars, scoringVars, focus>>
=============================================================================
