------------------------------ MODULE Checklist ------------------------------
(***************************************************************************)
(* checklist/collect.py, tables.py and evaluate.py: what the configuration   *)
(* checks of one polled device come to when each table it is asked for may   *)
(* stay unanswered, or break off after some of its rows. A device is a record *)
(* of what it would say; a row that is not read is in no table, a value that  *)
(* is not read is 0, "none" or "unknown". Titles, reasons and evidence are    *)
(* left out.                                                                 *)
(***************************************************************************)
EXTENDS Naturals, FiniteSets, Sequences, Functions

CONSTANTS
  Polled,      \* the devices, with the options of the scan that polls them
  BootWindow,  \* BOOT_WINDOW_S, in the ticks of sysUpTime
  MaxCuts      \* bound of the walks that break off after some rows

\* What the tables of one device have in common. A port is the record of what IF-MIB says of it, and an uplink goes
\* by a name, where a port without one goes by its index. The management ports in its TCP tables can be connected
\* to. Port fast and BPDU guard are columns of one table: a device that has the second has a row for every port of
\* the first. A Cisco numbers its bridge ports device-wide (collect.py:74): the contexts agree with one another and
\* with the table outside them, and no interface has two.
IsPort(i) == i = [name |-> i.name, ethernet |-> i.ethernet, routes |-> i.routes, oper |-> i.oper, last |-> i.last]
BridgePortTables(d) == {d.bridgePorts} \cup {d.context[v] : v \in DOMAIN d.context}
OnePortAnInterface(T) ==
  \A f, g \in T : \A p \in DOMAIN f, q \in DOMAIN g : p = q <=> f[p] = g[q]
ASSUME ChecklistAssumption ==
  /\ MaxCuts \in Nat
  /\ \A d \in Polled : /\ \A i \in DOMAIN d.ifs : IsPort(d.ifs[i])
                       /\ (d.tcpConn \cup d.tcpListener) \cap {23, 80} \subseteq d.listens
                       /\ d.uplinks \cap DOMAIN d.ifs = {}
                       /\ DOMAIN d.guard # {} => DOMAIN d.fastMode \subseteq DOMAIN d.guard
                       /\ d.fastGlobal \in {"on", "off", "none"}
                       /\ OnePortAnInterface(BridgePortTables(d))

VARIABLES
  device,
  asking,    \* the position of the next question in Questions, one past the end when all are asked
  got,       \* the rows read of each question, none when it is not asked or not answered
  contexts,  \* the bridge ports read in the context of each VLAN
  results    \* the result of each check, none until the device is evaluated

checklistVars == <<device, asking, got, contexts, results>>

\* collect_config asks in this order; contexts is a walk for each VLAN of an access port.
Questions == <<"probe", "uptime", "tcpConn", "tcpListener", "connect", "ifName", "ifDescr", "ifType", "ifOper",
               "ifLastChange", "bridgePorts", "pvid", "vmVlan", "scalars", "security", "fastMode", "guard", "contexts">>
CiscoOnly == {"vmVlan", "scalars", "security", "fastMode", "guard", "contexts"}
IfColumns == {"ifName", "ifDescr", "ifType", "ifOper", "ifLastChange"}

\* The rows of each question; a GET or a test has one answer, and the contexts are counted apart.
RowsOf(d, q) ==
  CASE q = "tcpConn" -> d.tcpConn [] q = "tcpListener" -> d.tcpListener [] q \in IfColumns -> DOMAIN d.ifs
    [] q = "bridgePorts" -> DOMAIN d.bridgePorts [] q = "pvid" -> DOMAIN d.pvid [] q = "vmVlan" -> DOMAIN d.vmVlan
    [] q = "security" -> DOMAIN d.security [] q = "fastMode" -> DOMAIN d.fastMode [] q = "guard" -> DOMAIN d.guard
    [] q = "contexts" -> {} [] OTHER -> {0}
CutShort(d, G, q) == G[q] \notin {{}, RowsOf(d, q)}

-----------------------------------------------------------------------------
\* The tables of a reading: G the rows of each question, V those of each context.

\* parse_interfaces: every row of ifType is an interface, with what the other columns have of it.
Names(G) == IF G["ifName"] # {} THEN G["ifName"] ELSE G["ifDescr"]
Interface(d, G, i) ==
  [d.ifs[i] EXCEPT !.name = IF i \in Names(G) THEN @ ELSE i, !.routes = IF i \in Names(G) THEN @ ELSE 0,
                   !.oper = IF i \in G["ifOper"] THEN @ ELSE "none", !.last = IF i \in G["ifLastChange"] THEN @ ELSE 0]
Interfaces(d, G) == [i \in G["ifType"] |-> Interface(d, G, i)]

\* parse_tcp: the ports of both tables, read when either has a row.
TcpTables == {"tcpConn", "tcpListener"}
TcpPorts(G) == G["tcpConn"] \cup G["tcpListener"]
TcpRead(G) == TcpPorts(G) # {}
VmVlan(d, G) == Restrict(d.vmVlan, G["vmVlan"])
Scalar(G, value) == IF G["scalars"] # {} THEN value ELSE "none"
BpduPorts(G) == G["fastMode"] \cup G["guard"]
Cell(f, S, i) == IF i \in S THEN f[i] ELSE "none"

\* bpdu_guard_on: a port's own setting wins, else the global one, where port fast is on.
GuardOn(d, G, p) ==
  LET own == Cell(d.guard, G["guard"], p)
      mode == Cell(d.fastMode, G["fastMode"], p)
      global == Scalar(G, d.guardGlobal)
      fast == Scalar(G, d.fastGlobal)
  IN IF own # "default" THEN CASE own = "enable" -> "on" [] own = "disable" -> "off" [] OTHER -> "unknown"
     ELSE IF global # "on" THEN IF global = "none" THEN "unknown" ELSE "off"
     ELSE CASE mode \in {"enable", "trunk"} -> "on"
            [] mode = "default" -> IF fast = "none" THEN "unknown" ELSE fast
            [] mode = "none" -> "unknown"
            [] OTHER -> "off"

\* access_ports: the Ethernet switch ports that are no uplink, and whether they can be told.
Members(d, G) == IF d.cisco THEN G["vmVlan"] ELSE {d.bridgePorts[p] : p \in G["bridgePorts"]}
PortsKnown(d, G) == G["ifType"] # {} /\ Members(d, G) # {}
AccessPorts(d, G) ==
  LET ifs == Interfaces(d, G)
  IN {i \in DOMAIN ifs \cap Members(d, G) : ifs[i].ethernet /\ ifs[i].name \notin d.uplinks}

\* _vlan_of
VlanOf(d, G) ==
  LET at == d.bridgePorts
      both == G["pvid"] \cap G["bridgePorts"]
  IN IF d.cisco /\ G["vmVlan"] # {} THEN VmVlan(d, G)
     ELSE [i \in {at[p] : p \in both} |-> d.pvid[CHOOSE p \in both : at[p] = i]]
VlanAt(d, G, i) == IF i \in DOMAIN VlanOf(d, G) THEN VlanOf(d, G)[i] ELSE 0

-----------------------------------------------------------------------------
\* The checks.

BugTcpPort(d, G, port) ==
  IF port \in TcpPorts(G) THEN "fail"
  ELSE IF TcpRead(G) \/ G["connect"] = {} THEN "pass"
  ELSE IF d.filtered THEN "unknown" ELSE IF port \in d.listens THEN "fail" ELSE "pass"
TcpPort(d, G, port) ==
  IF TcpRead(G) THEN IF port \in TcpPorts(G) THEN "fail" ELSE "pass"
  ELSE IF G["connect"] = {} \/ d.filtered THEN "unknown"
  ELSE IF port \in d.listens THEN "fail" ELSE "pass"

SnmpNoAuth(d) == IF d.version = "v3" THEN "pass" ELSE "fail"

\* A name that is not answered counts as one the device does not know.
DefaultCommunity(d, G) ==
  IF d.defaultName THEN "fail"
  ELSE IF ~d.probe THEN "not_checked"
  ELSE IF d.answersDefault THEN "fail" ELSE "pass"

\* l3_vlans and spare_ports: the ports without a link since the device booted, in a VLAN something uses.
L3Vlans(ifs) == {ifs[i].routes : i \in {j \in DOMAIN ifs : ifs[j].oper = "up"}} \ {0}
SparePorts(d, G) ==
  LET ports == AccessPorts(d, G)
      ifs == Interfaces(d, G)
      uptime == IF G["uptime"] # {} THEN d.uptime ELSE 0
      down == {i \in ports : ifs[i].oper = "down"}
      unclear == {i \in down : uptime = 0 \/ ifs[i].last = 0 \/ ifs[i].last > uptime}
      spare == {i \in down \ unclear : ifs[i].last <= BootWindow}
      used == {1} \cup d.used \cup L3Vlans(ifs) \cup ({VlanAt(d, G, i) : i \in {j \in ports : ifs[j].oper = "up"}} \ {0})
  IN IF VlanOf(d, G) = << >> THEN "unknown"
     ELSE IF \E i \in spare : VlanAt(d, G, i) \in used THEN "fail"
     ELSE IF unclear # {} \/ (\E i \in ports : ifs[i].oper = "none") \/ (\E i \in spare : VlanAt(d, G, i) = 0) THEN "unknown"
     ELSE "pass"

DefaultVlan(d, G) ==
  LET ports == AccessPorts(d, G)
  IN IF VlanOf(d, G) = << >> THEN "unknown"
     ELSE IF \E i \in ports : VlanAt(d, G, i) = 1 THEN "fail"
     ELSE IF \E i \in ports : VlanAt(d, G, i) = 0 THEN "unknown"
     ELSE "pass"

\* The bridge ports of an interface, by the contexts that were read before the table outside them.
InterfaceOf(d, G, V) ==
  LET in(p) == {v \in DOMAIN V : p \in V[v]}
  IN [p \in G["bridgePorts"] \cup (UNION {V[v] : v \in DOMAIN V}) |->
        IF in(p) # {} THEN d.context[CHOOSE v \in in(p) : TRUE][p] ELSE d.bridgePorts[p]]
PortsAt(d, G, V, i) == {p \in DOMAIN InterfaceOf(d, G, V) : InterfaceOf(d, G, V)[p] = i}

\* When all bridge ports are alike so is every access port; else each needs its interface, and of two bridge
\* ports with one interface the last counts.
BpduGuard(d, G, V) ==
  LET P == BpduPorts(G)
      states == {GuardOn(d, G, p) : p \in P}
      of(i) == PortsAt(d, G, V, i)
      state(i) == IF Cardinality(states) = 1 THEN CHOOSE s \in states : TRUE
                  ELSE IF of(i) \cap P = {} THEN "unknown" ELSE GuardOn(d, G, CHOOSE p \in of(i) : \A q \in of(i) : q <= p)
      seen == {state(i) : i \in AccessPorts(d, G)}
  IN IF P = {} \/ ("unknown" \in seen /\ "off" \notin seen) THEN "unknown" ELSE IF "off" \in seen THEN "fail" ELSE "pass"

PortSecurity(d, G) ==
  LET ports == AccessPorts(d, G)
      on == Restrict(d.security, G["security"])
      global == Scalar(G, d.securityGlobal)
  IN IF G["security"] = {} \/ global = "none" THEN "unknown"
     ELSE IF \E i \in ports \cap DOMAIN on : global = "off" \/ ~on[i] THEN "fail"
     ELSE IF ports \subseteq DOMAIN on THEN "pass" ELSE "unknown"

DeviceChecks == {"telnet", "http", "snmp_no_auth", "default_community"}
PortChecks == {"spare_ports", "default_vlan", "bpdu_guard", "port_security"}
CiscoChecks == {"bpdu_guard", "port_security"}

Check(k, d, G, V) ==
  CASE k = "telnet" -> TcpPort(d, G, 23)  [] k = "http" -> TcpPort(d, G, 80)
    [] k = "snmp_no_auth" -> SnmpNoAuth(d) [] k = "default_community" -> DefaultCommunity(d, G)
    [] k = "spare_ports" -> SparePorts(d, G) [] k = "default_vlan" -> DefaultVlan(d, G)
    [] k = "bpdu_guard" -> BpduGuard(d, G, V) [] k = "port_security" -> PortSecurity(d, G)

NotApplicable(k, d) == (k \in PortChecks /\ ~d.switch) \/ (k \in CiscoChecks /\ ~d.cisco)

\* evaluate, by _run for each check of the catalogue.
Evaluated(d, G, V) ==
  [k \in DeviceChecks \cup PortChecks |->
     IF NotApplicable(k, d) THEN "not_applicable"
     ELSE IF k \in PortChecks /\ ~PortsKnown(d, G) THEN "unknown"
     ELSE Check(k, d, G, V)]
EvaluatedWithoutData(d) ==
  [k \in DeviceChecks \cup PortChecks |-> IF NotApplicable(k, d) THEN "not_applicable" ELSE "unknown"]

-----------------------------------------------------------------------------
\* The reading of the tables, and the evaluation after it.

NothingRead == [q \in Range(Questions) |-> {}]
NoContexts == [v \in DOMAIN device.context |-> {}]
ChecklistStarts ==
  /\ asking = 1 /\ got = NothingRead /\ contexts = NoContexts
  /\ results = << >>
ChecklistInit == device \in Polled /\ ChecklistStarts

\* collect_config's conditions: a second source is asked only when the first said nothing.
Wanted(q, d, G) ==
  /\ q \in CiscoOnly => d.cisco
  /\ q = "probe" => d.probe
  /\ q = "connect" => d.portTest /\ ~TcpRead(G)
  /\ q = "ifDescr" => G["ifName"] = {}
  /\ q = "contexts" => /\ Cardinality({GuardOn(d, G, p) : p \in BpduPorts(G)}) > 1
                       /\ G["vmVlan"] # {} /\ d.version = "v2c"

Reading == results = << >> /\ asking <= Len(Questions)
Asked == Questions[asking]
Cuts == Cardinality({q \in DOMAIN got : CutShort(device, got, q)})

\* Walked whole, or the rows so far when the walk breaks off (_walk_columns): any of them, since an agent may hold
\* a table in any order.
Reads ==
  /\ Reading /\ Wanted(Asked, device, got)
  /\ \E S \in SUBSET RowsOf(device, Asked) \ {{}} :
       /\ S # RowsOf(device, Asked) => Cuts < MaxCuts
       /\ got' = [got EXCEPT ![Asked] = S]
  /\ asking' = asking + 1
  /\ UNCHANGED <<device, contexts, results>>

\* Not asked, or asked of a device that does not answer: a probe and a connection have an outcome all the same.
PassesOver ==
  /\ Reading
  /\ Asked \in {"probe", "connect"} => ~Wanted(Asked, device, got)
  /\ asking' = asking + 1
  /\ UNCHANGED <<device, got, contexts, results>>

\* _bridge_port_ifindex: the context of each VLAN that an access port is known to be in.
AccessVlans(d, G) == {d.vmVlan[i] : i \in G["vmVlan"]} \cap DOMAIN d.context
ReadsContexts ==
  /\ Reading /\ Asked = "contexts" /\ Wanted(Asked, device, got)
  /\ \E part \in SUBSET UNION {{v} \X DOMAIN device.context[v] : v \in AccessVlans(device, got)} :
       LET of(v) == {p \in DOMAIN device.context[v] : <<v, p>> \in part}
       IN /\ Cuts + Cardinality({v \in DOMAIN contexts : of(v) \notin {{}, DOMAIN device.context[v]}}) <= MaxCuts
          /\ contexts' = [v \in DOMAIN contexts |-> of(v)]
  /\ asking' = asking + 1
  /\ UNCHANGED <<device, got, results>>

\* _read_config: an exception on the way leaves {"failed": True}, and nothing of what was read so far.
ReadingFails ==
  /\ Reading
  /\ got' = NothingRead /\ contexts' = NoContexts
  /\ results' = EvaluatedWithoutData(device)
  /\ UNCHANGED <<device, asking>>

EvaluatesDevice ==
  /\ results = << >> /\ asking > Len(Questions)
  /\ results' = Evaluated(device, got, contexts)
  /\ UNCHANGED <<device, asking, got, contexts>>

ChecklistNext == Reads \/ PassesOver \/ ReadsContexts \/ ReadingFails \/ EvaluatesDevice
ChecklistSpec == ChecklistInit /\ [][ChecklistNext]_checklistVars
-----------------------------------------------------------------------------
\* Properties.

AllRows(d) == [q \in Range(Questions) |-> RowsOf(d, q)]
AllContexts(d) == [v \in DOMAIN d.context |-> DOMAIN d.context[v]]
Everything(d) == Evaluated(d, AllRows(d), AllContexts(d))

\* The tables whose rows a check takes for all there are, when it has some of them.
TakenForWhole(k, d) ==
  CASE k \in {"default_vlan", "port_security"} -> {"ifType", IF d.cisco THEN "vmVlan" ELSE "bridgePorts"}
    [] k = "bpdu_guard" -> {"ifType", "vmVlan", "guard"}
    [] k = "spare_ports" -> {"ifType", "ifOper"} \cup (IF d.cisco THEN {"vmVlan"} ELSE {"bridgePorts", "pvid"})
    [] OTHER -> {}
\* A check that was given a part as if it were the whole: the two TCP tables count as one, and for the spare ports
\* the VLANs the device itself routes are known by the names of its interfaces.
TookPartForWhole(k, d, G) ==
  \/ \E q \in TakenForWhole(k, d) : CutShort(d, G, q)
  \/ k = "spare_ports" /\ Names(G) # DOMAIN d.ifs
  \/ k \in {"telnet", "http"} /\ TcpRead(G) /\ \E q \in TcpTables : G[q] # RowsOf(d, q)

\* evaluate.py:14, "missing data is never a pass": a check passes on what was read only if it passes on
\* everything the device would have said, whatever stays unanswered and wherever a walk breaks off, unless it
\* took a part of a table for the whole: a walk returns the rows it has (snmp.py:258-259,278), and of these
\* tables nothing tells that rows are missing.
PassesAreEarned ==
  \A k \in DOMAIN results :
    results[k] = "pass" => Everything(device)[k] = "pass" \/ TookPartForWhole(k, device, got)

\* The same of every check and whatever was not read, as the comment says it.
MissingDataIsNeverAPass ==
  \A k \in DOMAIN results :
    results[k] = "pass" => Everything(device)[k] = "pass"
=============================================================================
