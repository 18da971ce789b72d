------------------------------ MODULE Monitor ------------------------------
(***************************************************************************)
(* The liveness monitor (vulnmapper/liveness/monitor.py, records.py): what *)
(* a chain of passes makes of the record of each node, from what probes,   *)
(* switch ports, client lists, agent check-ins and forwarding tables say.  *)
(*                                                                         *)
(* A pass gathers its readings and then applies them, one kind after the   *)
(* other; nothing else touches the state meanwhile, so a pass is one step. *)
(* The readings are chosen freely: any device may be silent, or answer in  *)
(* part, at any pass.  Time counts in passes: the age of a check-in or of  *)
(* a mark is how many passes began since.                                  *)
(***************************************************************************)
EXTENDS Integers, FiniteSets

CONSTANTS Nodes,        \* of all graphs
          Graphs,       \* the graphs a scan may leave
          Ports,        \* of each device
          StrangeAgents, StrangeClients,   \* those that are in no graph
          Threshold,    \* misses that make a node inactive
          MaxAge,       \* passes for which a check-in is recent enough
          MaxReasons,   \* MAX_RESCAN_REASONS
          HasSnmp, UseAgents,   \* which credentials the pass is given
          None

Wifi == "wifi"          \* the "port" of a Wi-Fi client
Links == [device : Nodes, port : Ports \cup {Wifi}]

(* What a pass takes from a graph: its nodes, those with a usable address, *)
(* those an old scan left behind, the endpoints with an agent, the nodes   *)
(* with a MAC, the devices SNMP can read, the access points, each          *)
(* endpoint's link, and the ports that edges use.                          *)
GraphsOK ==
  \A g \in Graphs :
    /\ g.nodes \subseteq Nodes /\ g.devices \subseteq g.nodes
    /\ g.stale \subseteq g.nodes /\ g.macs \subseteq g.nodes
    /\ g.pollable \subseteq g.devices /\ g.aps \subseteq g.devices
    /\ g.agents \subseteq g.nodes \ g.devices
    /\ \A n \in g.nodes \ g.devices : g.link[n] \in Links \cup {None}
    /\ \A n \in g.devices : g.link[n] = None

ASSUME MonitorConstants ==
  /\ Threshold \in Nat \ {0} /\ MaxAge \in Nat /\ MaxReasons \in Nat \ {0}
  /\ HasSnmp \in BOOLEAN /\ UseAgents \in BOOLEAN
  /\ IsFiniteSet(Nodes) /\ IsFiniteSet(Ports)
  /\ IsFiniteSet(StrangeAgents) /\ IsFiniteSet(StrangeClients)
  /\ Wifi \notin Ports /\ None \notin Links
  /\ GraphsOK

VARIABLES graph,        \* graph.json
          current,      \* liveness.json was made for it
          records,      \* of the nodes, in liveness.json
          ports,        \* the port states it remembers
          reasons,      \* its rescan_reasons
          quiet         \* history: passes since the last reply, Threshold when the
                        \* agent was reported gone since

vars == <<graph, current, records, ports, reasons, quiet>>

NoMark == [link |-> None, previous |-> "unknown", since |-> 0]
MarkOf(link, previous, since) == [link |-> link, previous |-> previous, since |-> since]
(* reply and fresh tell what the last pass saw: a reply, and an agent that *)
(* had checked in since the pass before.                                   *)
NewRecord ==
  [state |-> "unknown", misses |-> 0, proven |-> {}, mark |-> NoMark, reply |-> "none",
   fresh |-> FALSE]

Unread == [p \in Ports |-> "absent"]

Init ==
  /\ graph \in Graphs /\ current = FALSE
  /\ records = [n \in Nodes |-> NewRecord]
  /\ ports = [d \in Nodes |-> Unread]
  /\ reasons = {}
  /\ quiet = [n \in Nodes |-> 0]

-----------------------------------------------------------------------------
(* How each node is checked.  A stale node steps aside for a live one at   *)
(* its address; one still shared is probed for nobody.                     *)
Shared(n) ==
  \E m \in graph.nodes \ {n} :
    graph.ip[m] = graph.ip[n] /\ (n \in graph.stale \/ m \notin graph.stale)

ByAgent == IF UseAgents THEN graph.agents ELSE {}

AccessPoints ==
  IF HasSnmp THEN {d \in graph.aps \cap graph.pollable : graph.ip[d] # None} ELSE {}

OnWifi(n) ==
  /\ graph.link[n] # None /\ graph.link[n].port = Wifi
  /\ graph.link[n].device \in AccessPoints /\ n \in graph.macs

ToProbe ==
  {n \in graph.nodes \ ByAgent : ~OnWifi(n) /\ graph.ip[n] # None /\ ~Shared(n)}

BySnmp == IF HasSnmp THEN ToProbe \cap graph.pollable ELSE {}

(* The agent's row: "late" stands for an active agent whose check-in is    *)
(* too old, and for any status the code does not know.                     *)
Rows == [says : {"unlisted", "gone", "late"}, age : {0}]
          \cup [says : {"active"}, age : 0 .. MaxAge]

PortStates == [Ports -> {"up", "down", "absent"}]

(* Wired hosts no agent speaks for, which the table of switch d may show.   *)
Wired(d) ==
  {n \in graph.macs \ (graph.devices \cup ByAgent) :
     graph.link[n] # None /\ graph.link[n].device = d /\ graph.link[n].port # Wifi}

(* The readings of a pass: the answer to each probe; the ports and clients *)
(* of the devices that answered SNMP; the agents' rows, and active agents  *)
(* in no graph; the hosts found at their ports in forwarding tables.  None *)
(* is a call that failed.                                                  *)
Answered(probe) == {d \in BySnmp : probe[d] = "reply"}

Readings(probe) ==
  LET up == Answered(probe)
      switches == {d \in up : Wired(d) # {}}
  IN  [probe : {probe},
       ports : [up -> PortStates \cup {None}],
       clients : [up \cap AccessPoints ->
                    SUBSET ({n \in graph.nodes : OnWifi(n)} \cup StrangeClients) \cup {None}],
       agents : [rows : [ByAgent -> Rows], strange : SUBSET StrangeAgents] \cup {None},
       tables : [switches -> SUBSET UNION {Wired(d) : d \in switches} \cup {None}]]

-----------------------------------------------------------------------------
(* A record carried from the last pass.  The ages of marks beyond the      *)
(* oldest recent check-in are not told apart.                              *)
Older(age) == IF age <= MaxAge THEN age + 1 ELSE age

Carried(n) ==
  LET old == records[n]
      mark == IF old.mark = NoMark THEN NoMark ELSE [old.mark EXCEPT !.since = Older(@)]
  IN  [old EXCEPT !.reply = "none", !.fresh = FALSE, !.mark = mark]

(* A node that is not probed is unknown, unless the down port decides.     *)
Planned(n, rec) ==
  IF n \in ByAgent \cup ToProbe \/ OnWifi(n) \/ rec.mark # NoMark THEN rec
  ELSE [rec EXCEPT !.state = "unknown"]

(* Misses beyond the threshold are not told apart.                         *)
OneMore(misses) == IF misses < Threshold THEN misses + 1 ELSE misses

ProvenFromStart == {"agent", "mac-table"}
Fast == {"icmp", "snmp", "agent", "wifi"}

Counts(rec, method) == method \in rec.proven \cup ProvenFromStart

ApplyProbe(rec, method, says) ==
  CASE says = "reply" ->
         [rec EXCEPT !.state = "active", !.misses = 0, !.proven = @ \cup {method}]
    [] says = "gone" -> [rec EXCEPT !.state = "inactive", !.misses = OneMore(@)]
    [] says = "silent" /\ Counts(rec, method) ->
         [rec EXCEPT !.misses = OneMore(@),
                     !.state = IF OneMore(rec.misses) >= Threshold THEN "inactive" ELSE @]
    [] OTHER -> rec

(* A live reply overrides a down port; otherwise the down port decides.    *)
Settle(rec, method, says) ==
  CASE says = "reply" -> [ApplyProbe(rec, method, says) EXCEPT !.mark = NoMark, !.reply = "live"]
    [] says # "reply" /\ rec.mark # NoMark -> rec
    [] OTHER -> ApplyProbe(rec, method, says)

Probed(r, n, rec) ==
  IF n \in ToProbe /\ r.probe[n] # "failed"
  THEN Settle(rec, IF n \in BySnmp THEN "snmp" ELSE "icmp", r.probe[n])
  ELSE rec

-----------------------------------------------------------------------------
(* The state of the node's link in this pass, "absent" when it was not read. *)
LinkState(r, n) ==
  LET link == graph.link[n] IN
  CASE link = None -> "absent"
    [] link # None /\ link.port = Wifi ->
         IF link.device \notin DOMAIN r.clients \/ r.clients[link.device] = None THEN "absent"
         ELSE IF n \in r.clients[link.device] THEN "up" ELSE "down"
    [] OTHER ->
         IF link.device \notin DOMAIN r.ports \/ r.ports[link.device] = None THEN "absent"
         ELSE r.ports[link.device][link.port]

IsDown(r, n, rec) ==
  \/ LinkState(r, n) = "down"
  \/ LinkState(r, n) = "absent" /\ graph.link[n] # None /\ rec.mark.link = graph.link[n]
DownSince(n, rec) == IF rec.mark.link = graph.link[n] THEN rec.mark.since ELSE 0

(* A check-in from before the link was seen down says nothing.             *)
Row(r, n) == r.agents.rows[n]

PortDecides(r, n, rec) == IsDown(r, n, rec) /\ Row(r, n).age >= DownSince(n, rec)

SaidOfAgent(row) ==
  CASE row.says = "active" -> "reply" [] row.says = "gone" -> "gone" [] OTHER -> "silent"

Listed(r, n) == n \in ByAgent /\ r.agents # None /\ Row(r, n).says # "unlisted"

CheckedIn(r, n, rec) ==
  LET noted == [rec EXCEPT !.fresh = Row(r, n) = [says |-> "active", age |-> 0]] IN
  CASE ~Listed(r, n) -> rec
    [] Listed(r, n) /\ Row(r, n).says = "active" /\ PortDecides(r, n, rec) -> noted
    [] OTHER -> Settle(noted, "agent", SaidOfAgent(Row(r, n)))

SeenOnWifi(r, n, rec) ==
  IF graph.link[n] # None /\ graph.link[n].port = Wifi /\ LinkState(r, n) = "up"
  THEN Settle(rec, "wifi", "reply") ELSE rec

(* A wired host no faster method ever proved is looked up in the table of  *)
(* its switch, if that answers; an entry is no live reply.                 *)
LookedUp(r, n, rec) ==
  /\ n \notin graph.devices \cup ByAgent /\ rec.reply = "none" /\ rec.mark = NoMark
  /\ n \in graph.macs /\ graph.link[n] # None /\ graph.link[n].port # Wifi
  /\ graph.link[n].device \in DOMAIN r.tables /\ r.tables[graph.link[n].device] # None
  /\ rec.proven \cap Fast = {}

InTable(r, n, rec) ==
  CASE ~LookedUp(r, n, rec) -> rec
    [] LookedUp(r, n, rec) /\ n \in r.tables[graph.link[n].device] ->
         [ApplyProbe(rec, "mac-table", "reply") EXCEPT !.reply = "table"]
    [] OTHER -> ApplyProbe(rec, "mac-table", "silent")

(* The link is up again, or the node is elsewhere: its earlier state comes *)
(* back.                                                                   *)
Recovered(r, n, rec) ==
  IF rec.mark # NoMark /\ (rec.mark.link # graph.link[n] \/ LinkState(r, n) = "up")
  THEN [rec EXCEPT !.state = rec.mark.previous, !.misses = 0, !.mark = NoMark]
  ELSE rec

(* The link is down and nothing live says otherwise: inactive at once.     *)
BugPortAlwaysWins(r, n, rec) ==
  IF LinkState(r, n) # "down" THEN rec
  ELSE [rec EXCEPT !.state = "inactive",
                   !.mark = IF rec.mark.link = graph.link[n] THEN @
                            ELSE MarkOf(graph.link[n], rec.state, 0)]
BugMarksLast(r, n, rec) ==
  IF LinkState(r, n) # "down" \/ rec.reply = "live" THEN rec
  ELSE [rec EXCEPT !.state = "inactive",
                   !.mark = IF rec.mark.link = graph.link[n] THEN @
                            ELSE MarkOf(graph.link[n], "inactive", 0)]
MarkedDown(r, n, rec) ==
  IF LinkState(r, n) # "down" \/ rec.reply = "live" THEN rec
  ELSE [rec EXCEPT !.state = "inactive",
                   !.mark = IF rec.mark.link = graph.link[n] THEN @
                            ELSE MarkOf(graph.link[n], rec.state, 0)]

(* The whole pass, for one node.                                           *)
Evidence(r, n) ==
  InTable(r, n, SeenOnWifi(r, n, CheckedIn(r, n, Probed(r, n, Planned(n, Carried(n))))))

Checked(r, n) == MarkedDown(r, n, Recovered(r, n, Evidence(r, n)))

-----------------------------------------------------------------------------
(* What the pass leaves behind: the port states, those of a device that    *)
(* did not answer as they were, and the reasons for a rescan.              *)
ReadDevices(r) == {d \in DOMAIN r.ports : r.ports[d] # None}

Remembered(r) ==
  [d \in Nodes |-> IF d \in ReadDevices(r) THEN r.ports[d]
                   ELSE IF d \in graph.devices THEN ports[d] ELSE Unread]

Reason(kind, device, what) == <<kind, <<device, what>>>>

CameUp(r) ==
  UNION {{Reason("port", d, p) : p \in {q \in Ports : /\ r.ports[d][q] = "up" /\ ports[d][q] = "down"
                                              /\ <<d, q>> \notin graph.linked}} :
         d \in ReadDevices(r)}

NewClients(r) ==
  UNION {{Reason("client", d, s) : s \in r.clients[d] \cap StrangeClients} :
         d \in {e \in DOMAIN r.clients : r.clients[e] # None}}

NewAgents(r) ==
  IF UseAgents /\ r.agents # None THEN {Reason("agent", None, s) : s \in r.agents.strange} ELSE {}

(* They stand until a new scan replaces the graph, and at most MaxReasons  *)
(* are listed, those of earlier passes first.                              *)
Standing == IF current THEN reasons ELSE {}

BugAnyOfThem(new) ==
  LET all == Standing \cup new IN
  IF Cardinality(all) <= MaxReasons THEN {all}
  ELSE {S \in SUBSET all : Cardinality(S) = MaxReasons}
Listing(new) ==
  LET room == MaxReasons - Cardinality(Standing)
      added == new \ Standing
  IN  IF Cardinality(added) <= room THEN {Standing \cup added}
      ELSE {Standing \cup S : S \in {T \in SUBSET added : Cardinality(T) = room}}

-----------------------------------------------------------------------------
(* An agent reported gone counts unless the down link explains it.         *)
SaidGone(r, n) == Listed(r, n) /\ Row(r, n).says = "gone" /\ records[n].mark = NoMark

Pass ==
  \E probe \in [ToProbe -> {"reply", "silent", "failed"}] : \E r \in Readings(probe) :
    /\ records' = [n \in Nodes |-> IF n \in graph.nodes THEN Checked(r, n) ELSE NewRecord]
    /\ ports' = Remembered(r)
    /\ reasons' \in Listing(CameUp(r) \cup NewClients(r) \cup NewAgents(r))
    /\ quiet' = [n \in Nodes |-> CASE n \notin graph.nodes \/ records'[n].reply # "none" -> 0
                                  [] n \in graph.nodes /\ records'[n].reply = "none" /\ SaidGone(r, n)
                                       -> Threshold
                                  [] OTHER -> OneMore(quiet[n])]
    /\ current' = TRUE
    /\ UNCHANGED graph

(* A scan replaces the graph.                                              *)
NewGraph ==
  /\ graph' \in Graphs /\ current' = FALSE
  /\ UNCHANGED <<records, ports, reasons, quiet>>

Next == Pass \/ NewGraph

Spec == Init /\ [][Next]_vars
=============================================================================
