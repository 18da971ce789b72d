------------------------------ MODULE AttackPaths ------------------------------
(***************************************************************************)
(* attackpaths.py: the most likely routes from where an attacker may start to *)
(* the assets the owner marked. An engine e is what AttackPathEngine is built *)
(* from: the nodes, the CVEs each lists and the hosts a liveness pass marks   *)
(* inactive. Ids and VLANs are numbers, 0 is none; likelihoods are in units   *)
(* of 1/10^Steps.                                                             *)
(***************************************************************************)
EXTENDS Naturals, FiniteSets, Sequences, FiniteSetsExt, SequencesExt

CONSTANTS
  Nodes,      \* the node ids
  Flaws,      \* what the catalogue says of each CVE
  Keep,       \* KEEP_PER_TARGET
  LastVlan,   \* VLANs with spare ports are numbered from 1 to this
  FirstSpare  \* the ids of spare ports are above this, those of nodes below

Steps == Cardinality(Nodes)   \* no route is longer
Scale == 10 ^ Steps

-----------------------------------------------------------------------------
\* Where each asset sits.

IsDevice(e, n) == e.node[n].kind = "device"
\* A device's VLANs are those of its up layer-3 interfaces, a host's its own, a Wi-Fi client's that of the
\* only up sub-interface of its radio; without one the asset is not placed.
RadioVlans(e, n) == IF e.node[n].wifi = 0 THEN {} ELSE e.node[e.node[n].wifi].subs
Placement(e, n) ==
  IF IsDevice(e, n) THEN e.node[n].l3
  ELSE IF e.node[n].vlan # 0 THEN {e.node[n].vlan}
  ELSE IF Cardinality(RadioVlans(e, n)) = 1 THEN RadioVlans(e, n) ELSE {}
Placed(e) == {n \in Nodes : Placement(e, n) # {}}

Routed(e, n) == IF e.node[n].role \in {"router", "l3-switch"} THEN e.node[n].l3 ELSE {}
Routers(e) == {n \in Nodes : Routed(e, n) # {}}
\* _router_between, the lowest id; 0 when no router has an interface in both.
Router(e, A, B, ends) ==
  LET ways == {r \in Routers(e) \ ends : Routed(e, r) \cap A # {} /\ Routed(e, r) \cap B # {}}
  IN IF ways = {} THEN 0 ELSE Min(ways)

-----------------------------------------------------------------------------
\* What takes an asset over, in tenths: 0.9, 0.6 or 0.2 by complexity, 0 for nothing.

Complexities == {"LOW", "MEDIUM", "HIGH"}
Value(complexity) == CASE complexity = "LOW" -> 9 [] complexity = "MEDIUM" -> 6 [] complexity = "HIGH" -> 2
Usable(e, n) == IF e.node[n].known THEN e.node[n].cves ELSE ToSet(e.listed[n])
Qualifies(c, cross) == Flaws[c].free /\ Flaws[c].vector \in (IF cross THEN {"NETWORK"} ELSE {"NETWORK", "ADJACENT"})
Weaknesses(e, n, cross) == {Value(Flaws[c].complexity) : c \in {d \in Usable(e, n) : Qualifies(d, cross)}}
Misconfigs(e, n) == {Value(x) : x \in e.node[n].config}
BugTakeover(e, n, cross) == Max({0} \cup Weaknesses(e, n, cross) \cup Misconfigs(e, n))
\* A misconfiguration is used only from within the VLAN.
Takeover(e, n, cross) == Max({0} \cup Weaknesses(e, n, cross) \cup (IF cross THEN {} ELSE Misconfigs(e, n)))

-----------------------------------------------------------------------------
\* Starting points: hosts, and one for the spare ports of each VLAN of a switch.

Spare(n, vlan) == FirstSpare + (LastVlan + 1) * n + vlan
SpareStarts(e) == {s \in Nodes \X (1..LastVlan) : IsDevice(e, s[1]) /\ s[2] \in e.node[s[1]].spare}
IsStart(e, n) ==
  /\ ~IsDevice(e, n) /\ n \in Placed(e)
  /\ e.node[n].managed => e.listed[n] # << >>
CanStart(e, n) == ~(e.node[n].managed /\ e.node[n].offline) /\ n \notin e.inactive
StartsOf(e) == {n \in Nodes : IsStart(e, n) /\ CanStart(e, n)} \cup {Spare(s[1], s[2]) : s \in SpareStarts(e)}
Membership(e, s) == IF s \in Nodes THEN Placement(e, s) ELSE {(s - FirstSpare) % (LastVlan + 1)}

-----------------------------------------------------------------------------
\* reachability_graph: v can be taken over from u, with the tenths it takes; spare ports have no in-edges.

Edge(e, u, v) ==
  LET A == Membership(e, u)
      B == Placement(e, v)
  IN IF u = v \/ v \notin Placed(e) THEN 0
     ELSE IF A \cap B # {} THEN Takeover(e, v, FALSE)
     ELSE IF Router(e, A, B, {u, v}) # 0 THEN Takeover(e, v, TRUE) ELSE 0
Engine(e) == [starts |-> StartsOf(e), edge |-> [u \in Placed(e) \cup StartsOf(e) |-> [v \in Nodes |-> Edge(e, u, v)]]]

\* The paths from a start that pass no asset twice, with their likelihood.
Longer(edge, P) ==
  UNION {{[path |-> Append(p.path, v), likelihood |-> (p.likelihood * edge[Last(p.path)][v]) \div 10] :
            v \in {w \in Nodes \ ToSet(p.path) : edge[Last(p.path)][w] > 0}} : p \in P}
Growing(edge, s) ==
  LET grown[k \in 0..Steps] == IF k = 0 THEN {[path |-> <<s>>, likelihood |-> Scale]} ELSE Longer(edge, grown[k - 1])
  IN grown
Paths(edge, s) == LET grown == Growing(edge, s) IN UNION {grown[k] : k \in 1..Steps}

\* route: Dijkstra on the negative logarithms finds a most likely path.
MostLikely(P) == CHOOSE p \in P : \A q \in P : q.likelihood <= p.likelihood
Routes(edge, risk, s, t) ==
  LET P == {p \in Paths(edge, s) : Last(p.path) = t}
      best == MostLikely(P)
  IN IF P = {} THEN {}
     ELSE {[start |-> s, path |-> best.path, likelihood |-> best.likelihood,
            highest |-> Max({0} \cup {risk[n] : n \in ToSet(best.path) \cap Nodes})]}

\* _order_key: by likelihood, then the worst score on the way, then the steps, then the start; one route a start.
Precedes(r, q) ==
  \/ r.likelihood > q.likelihood
  \/ r.likelihood = q.likelihood /\ r.highest > q.highest
  \/ r.likelihood = q.likelihood /\ r.highest = q.highest /\ Len(r.path) < Len(q.path)
  \/ r.likelihood = q.likelihood /\ r.highest = q.highest /\ Len(r.path) = Len(q.path) /\ r.start < q.start
FirstRoutes(R) == {r \in R : Cardinality({q \in R : Precedes(q, r)}) < Keep}
RoutesTo(g, risk, t) == UNION {Routes(g.edge, risk, s, t) : s \in g.starts \ {t}}
Compute(g, risk, targets) == [t \in targets \cap Nodes |-> FirstRoutes(RoutesTo(g, risk, t))]

\* The hosts that depend on a device: those attached to it, for a router also those in the VLANs it routes.
Dependants(e, n) ==
  IF ~IsDevice(e, n) THEN 0
  ELSE Cardinality({h \in Nodes : ~IsDevice(e, h) /\ (e.node[h].parent = n \/ e.node[h].vlan \in Routed(e, n))})

-----------------------------------------------------------------------------
\* What REACHABILITY says an attacker can do, without the engine's graph: in tenths, all that takes v over
\* from a place in the VLANs A, whether in one of its VLANs or through a router that is neither end.
Ways(e, A, u, v) ==
  LET B == Placement(e, v)
      near == A \cap B # {}
      far == \E r \in Nodes \ {u, v} : Routed(e, r) \cap A # {} /\ Routed(e, r) \cap B # {}
      flaws == {c \in Usable(e, v) : Flaws[c].free}
  IN {Value(Flaws[c].complexity) : c \in {d \in flaws : Flaws[d].vector = "NETWORK" /\ (near \/ far)}}
       \cup {Value(Flaws[c].complexity) : c \in {d \in flaws : Flaws[d].vector = "ADJACENT" /\ near}}
       \cup (IF near THEN Misconfigs(e, v) ELSE {})

\* The places an attacker from s can hold after some takeovers, each with how likely.
Further(e, s, H) ==
  UNION {UNION {{<<v, (h[2] * w) \div 10>> : w \in Ways(e, Membership(e, h[1]), h[1], v)} : v \in Nodes \ {s, h[1]}} : h \in H}
HeldAfter(e, s) ==
  LET after[k \in 0..Steps] ==
        IF k = 0 THEN {<<s, Scale>>} ELSE LET before == after[k - 1] IN before \cup Further(e, s, before)
  IN after
Held(e, s) == HeldAfter(e, s)[Steps]
BestHold(e, s, t) == Max({0} \cup {h[2] : h \in {x \in Held(e, s) : x[1] = t}})
=============================================================================
