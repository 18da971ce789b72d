------------------------ MODULE MonitorProperties ------------------------
(* What a chain of liveness passes promises about the nodes.               *)
EXTENDS Monitor

States == {"unknown", "active", "inactive"}
Methods == {"icmp", "snmp", "agent", "wifi", "mac-table"}
Marks == [link : Links \cup {None}, previous : States, since : 0 .. MaxAge + 1]
Records == [state : States, misses : 0 .. Threshold, proven : SUBSET Methods, mark : Marks,
            reply : {"none", "live", "table"},
            fresh : BOOLEAN]
AllReasons == 
  {"port", "client", "agent"} \X ((Nodes \cup {None}) \X (Ports \cup StrangeAgents \cup StrangeClients))

TypeOK ==
  /\ graph \in Graphs /\ current \in BOOLEAN
  /\ records \in [Nodes -> Records] /\ ports \in [Nodes -> PortStates]
  /\ reasons \subseteq AllReasons /\ Cardinality(reasons) <= MaxReasons
  /\ quiet \in [Nodes -> 0 .. Threshold]

Marked(n) == records[n].mark # NoMark

-----------------------------------------------------------------------------
(* monitor.py:47, 258-260: a node whose link is down is shown inactive,    *)
(* over any number of passes in which it or its switch is not read.        *)
MarkedIsInactive == \A n \in Nodes : Marked(n) => records[n].state = "inactive"

(* monitor.py:52-53, 447-460: once a pass was made for a new graph, no     *)
(* node is kept inactive by a link it does not have there.                 *)
MarksFollowTheGraph ==
  current => \A n \in Nodes : Marked(n) => records[n].mark.link = graph.link[n]

(* monitor.py:38-42: but for a down link and an agent reported gone, a     *)
(* node is inactive only after Threshold passes without a reply; links     *)
(* that go down and up in between never make it less.                      *)
InactiveForAReason ==
  \A n \in Nodes :
    records[n].state = "inactive" /\ (Marked(n) => records[n].mark.previous = "inactive") =>
      quiet[n] = Threshold

(* monitor.py:53: an up port never makes a node active by itself: what is  *)
(* active, or comes back as such, has replied.                             *)
ActiveHasReplied ==
  \A n \in Nodes : "active" \in {records[n].state, records[n].mark.previous} => records[n].proven # {}

(* monitor.py:49: a live reply wins over a down link, whatever else the    *)
(* pass read.                                                              *)
LiveReplyWins ==
  \A n \in Nodes : records[n].reply = "live" => records[n].state = "active" /\ ~Marked(n)

(* monitor.py:514-518: a suggestion stands until a new scan replaces the   *)
(* graph, however many new ones come.                                      *)
SuggestionsStand == [][current /\ current' => reasons \subseteq reasons']_vars

(* The strengthening of these that a pass keeps: how long a node was quiet *)
(* is known by its misses, and a reply leaves none.                        *)
Misses(rec, passes) ==
  rec.reply = "none" =>
    /\ rec.misses <= passes
    /\ rec.state = "inactive" /\ (rec.mark # NoMark => rec.mark.previous = "inactive") =>
         passes = Threshold

Replied(rec) ==
  rec.reply # "none" =>
    /\ rec.misses = 0
    /\ rec.state # "inactive" \/ (rec.mark # NoMark /\ rec.mark.previous = "active")

QuietInv == \A n \in Nodes : Misses(records[n], quiet[n]) /\ Replied(records[n])

MonitorInv ==
  /\ TypeOK /\ MarkedIsInactive /\ MarksFollowTheGraph /\ ActiveHasReplied /\ LiveReplyWins
  /\ QuietInv

-----------------------------------------------------------------------------
(* Claims of the documentation that the code breaks.                       *)

(* backend/README.md:838-842: a check-in later than port_down.since, which *)
(* "is when the port was first seen down", "also revives the node".  A     *)
(* check-in since the last pass is later than a pass that saw it down.     *)
LaterCheckInRevives ==
  [][current /\ current' =>
       \A n \in Nodes :
         /\ graph.link[n] # None /\ graph.link[n].port # Wifi
         /\ ports[graph.link[n].device][graph.link[n].port] = "down"
         /\ records'[n].fresh
         => records'[n].state # "inactive"]_vars
=============================================================================
