----------------------------- MODULE MCMonitor -----------------------------
(* Graphs for TLC's runs of the liveness monitor: a switch, which is also  *)
(* the access point, and a host that scans find in different places.       *)
EXTENDS MonitorProperties, TLC

CONSTANTS sw, h, p1, x1, x2, s1

At(port) == [device |-> sw, port |-> port]

(* A host at p1, which ping may reach and the forwarding table may show.   *)
Plain ==
  [nodes |-> {sw, h}, devices |-> {sw}, stale |-> {}, macs |-> {sw, h},
   pollable |-> {sw}, aps |-> {}, agents |-> {}, linked |-> {<<sw, p1>>},
   ip |-> (sw :> x1 @@ h :> x2), link |-> (sw :> None @@ h :> At(p1))]

(* The host is left from an old scan, and its address is the switch's now: *)
(* only the table can tell.                                                *)
LeftBehind == [Plain EXCEPT !.stale = {h}, !.ip[h] = x1]

WithAgent == [Plain EXCEPT !.agents = {h}]

(* The host is a Wi-Fi client, and nothing is linked to p1.                *)
OnWifiNow == [Plain EXCEPT !.link[h] = At(Wifi), !.linked = {}, !.aps = {sw}]

Places == {Plain, LeftBehind, WithAgent, OnWifiNow}
OnlyAgent == {WithAgent}
=============================================================================
