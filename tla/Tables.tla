-------------------------------- MODULE Tables --------------------------------
(***************************************************************************)
(* network/parse: where a switch has the machines behind it. The scan walks  *)
(* its forwarding table, per VLAN where it keeps one for each, and names the  *)
(* ports; the liveness monitor later asks for single entries of it. Both go   *)
(* from the bridge port, numbered in each VLAN's context on its own, to the   *)
(* interface and its name. From FirstPortName on a port is a name.            *)
(***************************************************************************)
EXTENDS Naturals, Sequences, FiniteSets, Functions, SequencesExt

CONSTANTS
  Bridges,   \* what a switch may be
  Machines,  \* the MACs behind it
  FirstPortName,  \* numbers from it on stand for names of ports
  MaxVlans,  \* _MAX_VLANS
  MaxMoves   \* how often a machine is moved to another port, VLAN or away

\* What all switches have in common: no VLAN is 0, nor is a bridge port or an interface, and both are numbers.
PortNumbers == 1..(FirstPortName - 1)
IsBase(base) == DOMAIN base \subseteq PortNumbers /\ Range(base) \subseteq PortNumbers
ASSUME TablesAssumption ==
  /\ FirstPortName \in Nat \ {0}
  /\ \A b \in Bridges : 0 \notin DOMAIN b.contexts /\ IsBase(b.base) /\ \A v \in DOMAIN b.contexts : IsBase(b.contexts[v])

VARIABLES
  bridge,
  place,     \* the VLAN and interface of each machine; interface 0 is one the switch does not name, VLAN 0 is away
  been,      \* every place a machine has been at
  moves,
  reading,   \* collect_fdb: where it is, and what it has read
  lookup,    \* lookup_fdb_ports: where it is, and what it was told
  answered   \* no request of the lookup has gone unanswered

tablesVars == <<bridge, place, been, moves, reading, lookup, answered>>

Away == <<0, 0>>
Nothing == << >>   \* a function of no values: a table without rows

-----------------------------------------------------------------------------
\* What the switch holds. The contexts number the ports of their VLAN; the default context has its own numbers.

BridgePortOf(base, i) == IF i = 0 THEN 0 ELSE CHOOSE p \in DOMAIN base : base[p] = i
Behind(vlans, base) ==
  {m \in Machines : place[m][1] \in vlans /\ (place[m][2] = 0 \/ place[m][2] \in Range(base))}
ContextTable(v) == [m \in Behind({v}, bridge.contexts[v]) |-> BridgePortOf(bridge.contexts[v], place[m][2])]
VlanTable == [m \in IF bridge.vlanTable THEN Behind(Nat \ {0}, bridge.base) ELSE {} |-> BridgePortOf(bridge.base, place[m][2])]
FlatTable == [m \in Behind(bridge.flat, bridge.base) |-> BridgePortOf(bridge.base, place[m][2])]

\* A walk gives the table, or the part of it that was read before the switch stopped answering.
Walked(table) == {Restrict(table, part) : part \in SUBSET DOMAIN table}
WalkedOrNot(table) == {table, Nothing}

-----------------------------------------------------------------------------
\* collect_fdb.

TablesStart ==
  /\ been = [m \in Machines |-> {place[m]}]
  /\ moves = 0 /\ answered = TRUE
  /\ reading = [at |-> "names", names |-> Nothing, vlans |-> << >>, contexts |-> {}, table |-> Nothing, entries |-> {}, named |-> FALSE]
  /\ lookup = [at |-> "none", entries |-> {}, port |-> Nothing, index |-> Nothing, found |-> Nothing]
TablesInit ==
  /\ bridge \in Bridges
  /\ place \in [Machines -> bridge.places]
  /\ TablesStart

ReadsOn(at, changed) == reading' = [k \in DOMAIN reading |-> IF k = "at" THEN at ELSE IF k \in DOMAIN changed THEN changed[k] ELSE reading[k]]

\* ifName, and ifDescr of a switch that gave none.
ReadsNames ==
  /\ reading.at = "names"
  /\ \E names \in WalkedOrNot(bridge.ifName) : \E descr \in WalkedOrNot(bridge.ifDescr) :
       ReadsOn("vlans", [names |-> IF names = Nothing THEN descr ELSE names, named |-> names # Nothing])
  /\ UNCHANGED <<bridge, place, been, moves, lookup, answered>>

\* The operational VLANs of VTP, else the static ones of 802.1Q; contexts are of SNMPv2c only.
Operational(vtp) == {v \in DOMAIN vtp : vtp[v] /\ v < 1002}
ReadsVlans ==
  /\ reading.at = "vlans"
  /\ \E vtp \in WalkedOrNot(bridge.vtp) : \E static \in WalkedOrNot(bridge.static) :
       LET vlans == IF Operational(vtp) # {} THEN Operational(vtp) ELSE DOMAIN static
           sorted == SetToSortSeq(vlans, LAMBDA a, b : a < b)
           first == IF Len(sorted) > MaxVlans THEN SubSeq(sorted, 1, MaxVlans) ELSE sorted
       IN ReadsOn("contexts", [vlans |-> IF bridge.v2c THEN first ELSE << >>])
  /\ UNCHANGED <<bridge, place, been, moves, lookup, answered>>

\* One VLAN's table in its context; the bridge ports are asked for only where it has rows.
ReadsContext ==
  /\ reading.at = "contexts" /\ reading.vlans # << >>
  /\ \E rows \in IF Head(reading.vlans) \in DOMAIN bridge.contexts THEN Walked(ContextTable(Head(reading.vlans))) ELSE {Nothing} :
       IF DOMAIN rows = {} THEN ReadsOn("contexts", [vlans |-> Tail(reading.vlans)])
       ELSE ReadsOn("contextPorts", [table |-> rows])
  /\ UNCHANGED <<bridge, place, been, moves, lookup, answered>>

\* resolve_port: bridge port, interface, name, as far as they are known.
ResolvePort(p, base, names) ==
  IF p \notin DOMAIN base THEN p ELSE IF base[p] \notin DOMAIN names THEN base[p] ELSE names[base[p]]
Entries(rows, base, vlans) ==
  {[mac |-> m, port |-> ResolvePort(rows[m], base, reading.names), vlan |-> vlans[m]] : m \in DOMAIN rows}

ReadsContextPorts ==
  /\ reading.at = "contextPorts"
  /\ LET v == Head(reading.vlans)
     IN \E base \in WalkedOrNot(bridge.contexts[v]) :
          ReadsOn("contexts", [vlans |-> Tail(reading.vlans), contexts |-> reading.contexts \cup {v},
                             entries |-> reading.entries \cup Entries(reading.table, base, [m \in DOMAIN reading.table |-> v])])
  /\ UNCHANGED <<bridge, place, been, moves, lookup, answered>>

\* The default context is read where no VLAN's had rows.
LeavesContexts ==
  /\ reading.at = "contexts" /\ reading.vlans = << >>
  /\ ReadsOn(IF reading.contexts = {} THEN "default" ELSE "done", [table |-> Nothing])
  /\ UNCHANGED <<bridge, place, been, moves, lookup, answered>>

\* build_fdb: the 802.1Q table, else the flat one, whose rows have no VLAN.
ReadsDefault ==
  /\ reading.at = "default"
  /\ \E q \in Walked(VlanTable) : \E base \in WalkedOrNot(bridge.base) :
       IF DOMAIN q # {} THEN ReadsOn("done", [entries |-> Entries(q, base, [m \in DOMAIN q |-> place[m][1]])])
       ELSE \E d \in Walked(FlatTable) : ReadsOn("done", [entries |-> Entries(d, base, [m \in DOMAIN d |-> 0])])
  /\ UNCHANGED <<bridge, place, been, moves, lookup, answered>>

-----------------------------------------------------------------------------
\* lookup_fdb_ports, of the entries the scan left. A GET of a batch may go unanswered; batches are of one here.

\* The monitor reads a switch of vendor Cisco per VLAN.
LooksUp ==
  /\ reading.at = "done" /\ lookup.at = "none"
  /\ lookup' = [lookup EXCEPT !.at = "entries",
                              !.entries = {e \in reading.entries : ~bridge.cisco \/ e.vlan # 0}]
  /\ UNCHANGED <<bridge, place, been, moves, reading, answered>>

\* The bridge port of one entry, in the context it is asked for in; port 0 is none.
ContextOf(e) == IF bridge.cisco THEN e.vlan ELSE 0
TableAsked(e) ==
  IF bridge.cisco THEN IF bridge.v2c /\ e.vlan \in DOMAIN bridge.contexts THEN ContextTable(e.vlan) ELSE Nothing
  ELSE IF e.vlan = 0 THEN FlatTable
  ELSE Restrict(VlanTable, {m \in DOMAIN VlanTable : place[m][1] = e.vlan})
AsksEntry(e) ==
  /\ lookup.at = "entries" /\ e \in lookup.entries
  /\ \E told \in BOOLEAN :
       /\ answered' = (answered /\ told)
       /\ lookup' = [lookup EXCEPT
            !.entries = @ \ {e},
            !.port = IF told /\ e.mac \in DOMAIN TableAsked(e) /\ TableAsked(e)[e.mac] # 0
                     THEN [x \in DOMAIN @ \cup {e} |-> IF x = e THEN <<TableAsked(e)[e.mac], ContextOf(e)>> ELSE @[x]] ELSE @]
  /\ UNCHANGED <<bridge, place, been, moves, reading>>

\* The interface of each bridge port, in its context.
BaseOf(context) == IF context = 0 THEN bridge.base ELSE bridge.contexts[context]
BugIndexOf(known, found) == LET same == {k \in DOMAIN known : k[1] = found[1]} IN IF same = {} THEN 0 ELSE known[CHOOSE k \in same : \A x \in same : k[2] <= x[2]]
IndexOf(known, found) == IF found \in DOMAIN known THEN known[found] ELSE 0
AsksPorts ==
  /\ lookup.at = "entries" /\ lookup.entries = {}
  /\ \E told \in SUBSET Range(lookup.port) :
       /\ answered' = (answered /\ told = Range(lookup.port))
       /\ lookup' = [lookup EXCEPT !.at = "ports", !.index = [f \in told |-> BaseOf(f[2])[f[1]]]]
  /\ UNCHANGED <<bridge, place, been, moves, reading>>

\* And its name: ifName, else its number.
AsksNames ==
  /\ lookup.at = "ports"
  /\ \E told \in SUBSET Range(lookup.index) :
       /\ answered' = (answered /\ told = Range(lookup.index))
       /\ lookup' = [lookup EXCEPT
            !.at = "done",
            !.found = [e \in {x \in DOMAIN lookup.port : IndexOf(lookup.index, lookup.port[x]) # 0} |->
                         LET i == IndexOf(lookup.index, lookup.port[e])
                         IN IF i \in told /\ i \in DOMAIN bridge.ifName THEN bridge.ifName[i] ELSE i]]
  /\ UNCHANGED <<bridge, place, been, moves, reading>>

Moves(m) ==
  /\ moves < MaxMoves /\ lookup.at # "done"
  /\ \E p \in bridge.places \cup {Away} :
       /\ p # place[m]
       /\ place' = [place EXCEPT ![m] = p]
       /\ been' = [been EXCEPT ![m] = @ \cup {p}]
  /\ moves' = moves + 1
  /\ UNCHANGED <<bridge, reading, lookup, answered>>

TablesNext ==
  \/ ReadsNames \/ ReadsVlans \/ ReadsContext \/ ReadsContextPorts \/ LeavesContexts \/ ReadsDefault
  \/ LooksUp \/ AsksPorts \/ AsksNames
  \/ \E e \in lookup.entries : AsksEntry(e)
  \/ \E m \in Machines : Moves(m)
TablesSpec == TablesInit /\ [][TablesNext]_tablesVars
-----------------------------------------------------------------------------
\* Properties.

NamesOf(i) == {t[i] : t \in {u \in {bridge.ifName, bridge.ifDescr} : i \in DOMAIN u}}

\* A port the scan names is one the machine has been at, in the VLAN it says, whatever went unanswered and however
\* the contexts number their ports.
PortsAreWhereTheyWere ==
  \A e \in reading.entries : e.port >= FirstPortName => \E p \in been[e.mac] : e.vlan \in {p[1], 0} /\ e.port \in NamesOf(p[2])

\* What the lookup finds is a port the machine has been at, so that no other machine's port is taken for its own.
FoundIsItsOwn ==
  \A e \in DOMAIN lookup.found :
    \E p \in been[e.mac] : e.vlan \in {p[1], 0} /\ lookup.found[e] \in NamesOf(p[2]) \cup {p[2]}

\* A machine that has not moved is found where the scan saw it, when the lookup is answered, the scan had the
\* switch's own port names, and it read the contexts the lookup reads.
SameContexts == bridge.cisco = (reading.contexts # {})
StayersAreFound ==
  lookup.at = "done" /\ answered /\ reading.named /\ SameContexts =>
    \A e \in reading.entries :
      Cardinality(been[e.mac]) = 1 /\ e.port >= FirstPortName => e \in DOMAIN lookup.found /\ lookup.found[e] = e.port

\* A machine's port is its own: the scan names only ports it has been at, and so does the lookup of a single entry,
\* which finds it there again if it stayed ("The tables are the ones collect_fdb reads", collect.py:155).
PortsAreTheirOwn == PortsAreWhereTheyWere /\ FoundIsItsOwn /\ StayersAreFound
=============================================================================
