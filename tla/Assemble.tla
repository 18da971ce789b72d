------------------------------ MODULE Assemble ------------------------------
(***************************************************************************)
(* assemble/graph.py and assemble/mactable.py: the agents Wazuh reported and *)
(* the crawl's document become one graph. GraphAssembler.build takes its     *)
(* steps in order, each reading what the ones before it left; an action here *)
(* is one of its methods. MAC addresses, chassis ids, addresses and ports    *)
(* are numbers, so that "the smallest" means what it means in the code; a    *)
(* chassis id from FirstName on is a host name, which no MAC is equal to.     *)
(* Two addresses are of one /24 when they have the same tens.                *)
(***************************************************************************)
EXTENDS Integers, FiniteSets, Sequences, SequencesExt

CONSTANTS
  Documents,   \* the inputs: a network document with the agents beside it
  FirstName    \* the first chassis id that is no MAC

None == 0

\* The tables of a switch are read while it is polled and name MAC addresses only; a link was reported by one of
\* its ends, which was polled.
Macs == 1..(FirstName - 1)
ASSUME AssembleAssumption ==
  /\ FirstName \in Nat
  /\ \A d \in Documents :
       /\ DOMAIN d.node \subseteq Nat \ {None}
       /\ d.order \in Seq(DOMAIN d.node)
       /\ d.agents \in Seq([mac : Macs \cup {None}, ip : Nat, status : STRING])
       /\ DOMAIN d.arp \subseteq Macs
       /\ d.edges \in Seq([source : Nat, local : Nat, target : Nat, remote : Nat])
       /\ \A i \in DOMAIN d.edges : \E c \in {d.edges[i].source, d.edges[i].target} \cap DOMAIN d.node : d.node[c].pollable
       /\ \A c \in DOMAIN d.node :
            /\ d.node[c].fdb \subseteq [mac : Macs, port : Nat, vlan : Nat]
            /\ d.node[c].fdb # {} => d.node[c].pollable
            /\ d.node[c].clients \in Seq([mac : Macs, ip : Nat, radio : Nat])

VARIABLES
  doc,       \* the input
  devices,   \* device_by_chassis: the crawled devices that still are nodes
  links,     \* lldp_edges, as positions in doc.edges
  mac,       \* the MAC of each agent's node; assembly may find one
  parent,    \* parent_of: where each agent and host hangs, on which port, by which evidence
  reason,    \* unparented_reason
  hosts,     \* the nodes no agent reports: lldp_hosts, discovered_nodes and wifi_hosts
  warned,    \* the devices agent_on_network_device was reported for
  vlan,      \* the VLAN of a host's node
  step       \* the next method of build()

assembleVars == <<doc, devices, links, mac, parent, reason, hosts, warned, vlan, step>>

Chassis == DOMAIN doc.node
AgentIds == DOMAIN doc.agents
MacOf(c) == IF c < FirstName THEN c ELSE None
Largest(S) == CHOOSE x \in S : \A y \in S : y <= x
Online(i) == doc.agents[i].status = "active"
SameSubnet(a, b) == a # None /\ b # None /\ a \div 10 = b \div 10
Unplaced == [to |-> None, port |-> None, by |-> "none"]

Over(f, g) == [x \in DOMAIN f \cup DOMAIN g |-> IF x \in DOMAIN f THEN f[x] ELSE g[x]]
Only(x, v) == [y \in {x} |-> v]
Without(f, S) == [x \in DOMAIN f \ S |-> f[x]]

-----------------------------------------------------------------------------
\* The lookup table of mactable.py.

\* Interface MACs of the devices, and the base MAC of each that was polled: never hosts.
Infra == (UNION {doc.node[c].own : c \in Chassis})
           \cup ({MacOf(c) : c \in {d \in Chassis : doc.node[d].pollable}} \ {None})

MacsOnPort(c, p) == {e.mac : e \in {f \in doc.node[c].fdb : f.port = p}}

\* Where a MAC was learned but on uplinks, each place with how many MACs share its port.
Candidates(m) ==
  IF m \in Infra THEN {}
  ELSE UNION {{[macs |-> Cardinality(MacsOnPort(c, e.port)), switch |-> c, port |-> e.port, vlan |-> e.vlan] :
               e \in {f \in doc.node[c].fdb : f.mac = m /\ f.port \notin doc.node[c].uplinks}} : c \in Chassis}

\* The port with the fewest MACs, then the lowest switch and port; of one port the first row.
Before(x, y) ==
  \/ x.macs < y.macs
  \/ x.macs = y.macs /\ x.switch < y.switch
  \/ x.macs = y.macs /\ x.switch = y.switch /\ x.port < y.port
  \/ x.macs = y.macs /\ x.switch = y.switch /\ x.port = y.port /\ x.vlan <= y.vlan
Fact(m) == CHOOSE x \in Candidates(m) : \A y \in Candidates(m) : Before(x, y)
Confidence(m) == IF Cardinality(Candidates(m)) = 1 THEN "resolved" ELSE "tiebreak"

Learned == {m \in UNION {{e.mac : e \in doc.node[c].fdb} : c \in Chassis} : Candidates(m) # {}}
IpOf(m) == IF m \in DOMAIN doc.arp THEN doc.arp[m] ELSE None
\* by_ip and arp_by_ip: of two MACs with one address the one read last stays.
Owner(ip, macs) == IF ip # None /\ \E m \in macs : IpOf(m) = ip
                   THEN Largest({m \in macs : IpOf(m) = ip}) ELSE None
ByIp(ip) == Owner(ip, Learned)
ArpByIp(ip) == Owner(ip, DOMAIN doc.arp)

-----------------------------------------------------------------------------
\* What the methods share.

\* The device that reported chassis c and its port, from the first link that names c.
Touching(c) == {i \in DOMAIN doc.edges : c \in {doc.edges[i].source, doc.edges[i].target}}
SwitchAndPort(c) ==
  IF Touching(c) = {} THEN [switch |-> None, port |-> None]
  ELSE LET e == doc.edges[CHOOSE i \in Touching(c) : \A j \in Touching(c) : i <= j]
       IN IF e.target = c THEN [switch |-> e.source, port |-> e.local] ELSE [switch |-> e.target, port |-> e.remote]

\* The first polled device of the /24 in the document's order, else the first of any kind.
Position(c) == CHOOSE i \in DOMAIN doc.order : doc.order[i] = c
FirstOf(S) == CHOOSE c \in S : \A d \in S : Position(c) <= Position(d)
SubnetParent(ip, left) ==
  LET near == {c \in left : SameSubnet(doc.node[c].ip, ip)}
      polled == {c \in near : doc.node[c].pollable}
  IN IF polled # {} THEN FirstOf(polled) ELSE IF near # {} THEN FirstOf(near) ELSE None

WhyUnplaced(i, m) == IF ~Online(i) THEN "offline" ELSE IF m = None THEN "no_mac" ELSE "absent"

ByLldp(c) == [to |-> SwitchAndPort(c).switch, port |-> SwitchAndPort(c).port, by |-> "lldp"]
BySubnet(i, left) ==
  LET gateway == IF Online(i) THEN SubnetParent(doc.agents[i].ip, left) ELSE None
  IN IF gateway = None THEN Unplaced ELSE [to |-> gateway, port |-> None, by |-> "subnet_fallback"]

Agent(i) == <<"endpoint", i>>
Host(key) == <<"host", key>>
Equipment(c) == doc.node[c].equipment
IsEndHost(c) == ~doc.node[c].pollable /\ ~doc.node[c].unreachable /\ ~doc.node[c].ap /\ ~Equipment(c)

\* _retire_devices: an endpoint whose subnet parent is gone is placed again, or left with the reason.
Moved(gone, p) == {i \in AgentIds : Agent(i) \in DOMAIN p /\ p[Agent(i)].to \in gone}
RetiredParents(gone, left, p) ==
  [x \in DOMAIN p |-> IF \E i \in Moved(gone, p) : x = Agent(i) THEN BySubnet(x[2], left) ELSE p[x]]
RetiredReasons(gone, left, p, macs, r) ==
  Over([i \in {j \in Moved(gone, p) : BySubnet(j, left) = Unplaced} |-> WhyUnplaced(i, macs[i])], r)
LinksAmong(left) == {i \in DOMAIN doc.edges : doc.edges[i].source \in left /\ doc.edges[i].target \in left}

-----------------------------------------------------------------------------
\* The methods of build(), in its order.

AssembleStarts ==
  /\ devices = Chassis
  /\ links = {}
  /\ mac = [i \in AgentIds |-> doc.agents[i].mac]
  /\ parent = << >> /\ reason = << >> /\ hosts = << >>
  /\ warned = {} /\ vlan = << >>
  /\ step = "phantoms"
AssembleInit == doc \in Documents /\ AssembleStarts

\* endpoints_by_mac: of two agents with one MAC the last.
AgentWith(m) == Largest({i \in AgentIds : mac[i] = m})
AnAgents(c) == MacOf(c) # None /\ \E i \in AgentIds : mac[i] = MacOf(c)

MergeLldpPhantoms ==
  /\ step = "phantoms"
  /\ LET merged == {c \in devices : AnAgents(c) /\ ~Equipment(c) /\ SwitchAndPort(c).switch \in devices}
     IN /\ warned' = {c \in devices : AnAgents(c) /\ Equipment(c)}
        /\ parent' = [x \in {Agent(AgentWith(c)) : c \in merged} |->
                        ByLldp(CHOOSE c \in merged : Agent(AgentWith(c)) = x)]
        /\ devices' = devices \ merged
  /\ step' = "links"
  /\ UNCHANGED <<doc, links, mac, reason, hosts, vlan>>

LinkDevices ==
  /\ step = "links"
  /\ links' = LinksAmong(devices)
  /\ step' = "tables"
  /\ UNCHANGED <<doc, devices, mac, parent, reason, hosts, warned, vlan>>

\* An agent without a MAC whose address the tables know takes the table's.
TableMac(i) == IF mac[i] = None THEN ByIp(doc.agents[i].ip) ELSE mac[i]
ByTable(m) == [to |-> Fact(m).switch, port |-> Fact(m).port, by |-> Confidence(m)]

PlaceFromTables ==
  /\ step = "tables"
  /\ LET open == {i \in AgentIds : Agent(i) \notin DOMAIN parent}
         placed(i) == IF TableMac(i) \in Learned THEN ByTable(TableMac(i)) ELSE BySubnet(i, devices)
     IN /\ mac' = [i \in AgentIds |-> IF i \in open THEN TableMac(i) ELSE mac[i]]
        /\ parent' = Over(parent, [x \in {Agent(i) : i \in open} |-> placed(x[2])])
        /\ reason' = [i \in {j \in open : placed(j) = Unplaced} |-> WhyUnplaced(i, TableMac(i))]
  /\ step' = "late"
  /\ UNCHANGED <<doc, devices, links, hosts, warned, vlan>>

\* The MAC an agent may be announced by: its own, or that of its ARP entry when a neighbour that is
\* no infrastructure announces it.
LateMac(i, macs) ==
  LET arp == ArpByIp(doc.agents[i].ip)
  IN IF macs[i] # None THEN macs[i]
     ELSE IF arp # None /\ arp \in devices /\ arp \notin Infra /\ ~Equipment(arp) THEN arp ELSE None

LateAgent(st, i) ==
  LET c == LateMac(i, st.mac)
      at == ByLldp(c)
  IN IF c = None \/ c \notin devices \/ c \in st.late THEN st
     ELSE IF Equipment(c) THEN [st EXCEPT !.warned = IF st.mac[i] = None THEN @ ELSE @ \cup {c}]
     ELSE IF at.to \notin devices \/ at.to \in st.late THEN st
     ELSE IF st.parent[Agent(i)].to = at.to /\ st.parent[Agent(i)].port = at.port
          THEN [st EXCEPT !.late = @ \cup {c}, !.mac[i] = c]
          ELSE [st EXCEPT !.late = @ \cup {c}, !.mac[i] = c, !.parent[Agent(i)] = at, !.reason = Without(@, {i})]

LateAgents(st) ==
  LET after[i \in 0..Len(doc.agents)] == IF i = 0 THEN st ELSE LateAgent(after[i - 1], i)
  IN after[Len(doc.agents)]

MergeLatePhantoms ==
  /\ step = "late"
  /\ LET st == LateAgents([late |-> {}, mac |-> mac, parent |-> parent, reason |-> reason, warned |-> warned])
         left == devices \ st.late
     IN /\ devices' = left
        /\ links' = links \cap LinksAmong(left)
        /\ mac' = st.mac
        /\ warned' = st.warned
        /\ parent' = RetiredParents(st.late, left, st.parent)
        /\ reason' = RetiredReasons(st.late, left, st.parent, st.mac, st.reason)
  /\ step' = "ends"
  /\ UNCHANGED <<doc, hosts, vlan>>

\* Neighbours no agent claimed that announce neither bridge nor router are hosts.
AddLldpEndHosts ==
  /\ step = "ends"
  /\ LET ends == {c \in devices : IsEndHost(c)}
         left == devices \ ends
         address(c) == IF doc.node[c].ip = None /\ MacOf(c) \in Learned THEN IpOf(MacOf(c)) ELSE doc.node[c].ip
         placed(c) == IF SwitchAndPort(c).switch \in left THEN ByLldp(c) ELSE Unplaced
     IN /\ hosts' = [x \in {Host(c) : c \in ends} |-> [mac |-> MacOf(x[2]), ip |-> address(x[2]), how |-> "lldp"]]
        /\ devices' = left
        /\ links' = links \cap LinksAmong(left)
        /\ parent' = Over(RetiredParents(ends, left, parent), [x \in {Host(c) : c \in ends} |-> placed(x[2])])
        /\ reason' = RetiredReasons(ends, left, parent, mac, reason)
  /\ step' = "hosts"
  /\ UNCHANGED <<doc, mac, warned, vlan>>

\* A learned MAC no node has is a host of its own.
BugKnownMacs == {MacOf(c) : c \in devices} \cup {doc.agents[i].mac : i \in AgentIds} \cup {hosts[h].mac : h \in DOMAIN hosts} \cup Infra
KnownMacs == {MacOf(c) : c \in devices} \cup {mac[i] : i \in AgentIds} \cup {hosts[h].mac : h \in DOMAIN hosts} \cup Infra

AddTableHosts ==
  /\ step = "hosts"
  /\ LET new == {Host(m) : m \in Learned \ KnownMacs}
     IN /\ hosts' = Over(hosts, [x \in new |-> [mac |-> x[2], ip |-> IpOf(x[2]), how |-> "fdb"]])
        /\ parent' = Over(parent, [x \in new |-> [to |-> Fact(x[2]).switch, port |-> Fact(x[2]).port, by |-> "fdb"]])
  /\ step' = "wifi"
  /\ UNCHANGED <<doc, devices, links, mac, reason, warned, vlan>>

\* What an access point's list of clients says: a client moves under it unless a wired
\* neighbour announced it, and one that nothing else knows becomes a host.
NodeWith(st, m) ==
  IF Host(m) \in DOMAIN st.hosts THEN Host(m)
  ELSE IF \E i \in AgentIds : st.mac[i] = m THEN Agent(Largest({i \in AgentIds : st.mac[i] = m})) ELSE << >>
Owners(st, client) == {i \in AgentIds : client.ip # None /\ st.mac[i] = None /\ doc.agents[i].ip = client.ip}

BugUnderAp(st, node, ap, client) == [st EXCEPT !.parent = Over(Only(node, [to |-> ap, port |-> client.radio, by |-> "wifi"]), @)]
UnderAp(st, node, ap, client) ==
  [st EXCEPT !.parent = Over(Only(node, [to |-> ap, port |-> client.radio, by |-> "wifi"]), @),
             !.reason = IF node[1] = "endpoint" THEN Without(@, {node[2]}) ELSE @]

BugWifiClient(st, ap, client) ==
  LET node == NodeWith(st, client.mac)
  IN IF client.mac \in Infra \/ node = << >> THEN st ELSE UnderAp(st, node, ap, client)
WifiClient(st, ap, client) ==
  LET m == client.mac
      node == NodeWith(st, m)
      owners == Owners(st, client)
      new == [mac |-> m, ip |-> IF client.ip # None THEN client.ip ELSE IpOf(m), how |-> "wifi"]
  IN IF m \in Infra THEN st
     ELSE IF node # << >>
          THEN IF st.parent[node].by = "lldp" THEN st ELSE UnderAp(st, node, ap, client)
     ELSE IF Cardinality(owners) = 1
          THEN LET i == CHOOSE i \in owners : TRUE   \* without a MAC it is not placed by LLDP
               IN UnderAp([st EXCEPT !.mac[i] = m], Agent(i), ap, client)
     ELSE UnderAp([st EXCEPT !.hosts = Over(Only(Host(m), new), @)], Host(m), ap, client)

ClientsOf(st, ap) ==
  LET clients == doc.node[ap].clients
      after[k \in 0..Len(clients)] == IF k = 0 THEN st ELSE WifiClient(after[k - 1], ap, clients[k])
  IN after[Len(clients)]
WifiClients(st) ==
  LET after[k \in 0..Len(doc.order)] ==
        IF k = 0 THEN st
        ELSE IF doc.order[k] \in devices THEN ClientsOf(after[k - 1], doc.order[k]) ELSE after[k - 1]
  IN after[Len(doc.order)]

PlaceWifiClients ==
  /\ step = "wifi"
  /\ LET st == WifiClients([hosts |-> hosts, mac |-> mac, parent |-> parent, reason |-> reason])
     IN hosts' = st.hosts /\ mac' = st.mac /\ parent' = st.parent /\ reason' = st.reason
  /\ step' = "vlans"
  /\ UNCHANGED <<doc, devices, links, warned, vlan>>

\* A host's VLAN is the one its parent switch learned its MAC on.
NodeMac(x) == IF x[1] = "endpoint" THEN mac[x[2]] ELSE hosts[x].mac

StampVlans ==
  /\ step = "vlans"
  /\ vlan' = [x \in {y \in DOMAIN parent : NodeMac(y) \in Learned /\ parent[y].to = Fact(NodeMac(y)).switch} |->
                Fact(NodeMac(x)).vlan]
  /\ step' = "done"
  /\ UNCHANGED <<doc, devices, links, mac, parent, reason, hosts, warned>>

AssembleNext ==
  \/ MergeLldpPhantoms \/ LinkDevices \/ PlaceFromTables \/ MergeLatePhantoms \/ AddLldpEndHosts
  \/ AddTableHosts \/ PlaceWifiClients \/ StampVlans

AssembleSpec == AssembleInit /\ [][AssembleNext]_assembleVars
-----------------------------------------------------------------------------
\* Properties.

Done == step = "done"

\* One machine, one node: at the end a MAC belongs to two nodes only where the code means to keep both, for
\* an agent on network equipment (reported), for a machine whose reporting switch is no node of the graph, for
\* agents with one MAC, and for a device nobody polled that is also an access point's client, which only
\* _place_wifi_clients does not look for among the devices.
NodesOf(m) == {x \in DOMAIN parent : NodeMac(x) = m} \cup {<<"device", c>> : c \in {d \in devices : MacOf(d) = m}}
Clients == UNION {{cl.mac : cl \in ToSet(doc.node[c].clients)} : c \in Chassis}
OneNodePerMachine ==
  Done => \A m \in {NodeMac(x) : x \in DOMAIN parent} \ {None} :
            Cardinality(NodesOf(m)) > 1 =>
              \/ m \in warned
              \/ m \in Chassis /\ SwitchAndPort(m).switch \notin devices
              \/ m \in devices \cap Clients
              \/ \E i, j \in AgentIds : i # j /\ mac[i] = m /\ mac[j] = m

\* unparented_endpoints: at the end an agent has a reason for being nowhere exactly when it is nowhere, and the
\* reason is true of the node it has become (steps after the one that gave the reason place agents, retire
\* their devices and find MACs).
ReasonsAreTrue ==
  Done => /\ DOMAIN reason = {i \in AgentIds : parent[Agent(i)].to = None}
          /\ \A i \in DOMAIN reason : reason[i] = "offline" <=> ~Online(i)
          /\ \A i \in DOMAIN reason : reason[i] = "no_mac" => mac[i] = None

\* What a switch or access point itself said of a machine is never replaced by weaker evidence: an LLDP
\* placement ends only with the device it names, and only an access point's list moves a host off a port.
EvidenceStands ==
  [][\A x \in DOMAIN parent :
       /\ parent[x].by = "lldp" /\ parent[x].to \in devices' => parent'[x] = parent[x]
       /\ parent[x].by \in {"resolved", "tiebreak"} => parent'[x] = parent[x] \/ parent'[x].by \in {"lldp", "wifi"}]_assembleVars

\* tests/test_duplicates.py:245: every edge of a host ends at a node of the graph.
EveryEdgeEndsAtANode == Done => \A x \in DOMAIN parent : parent[x].to \in devices \cup {None}
=============================================================================
