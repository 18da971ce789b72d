-------------------------------- MODULE Scoring --------------------------------
(***************************************************************************)
(* scoring/ovss.py, stage.py and rescore.py with attackpaths.py: a scan scores*)
(* every finding and node and computes the attack paths; later a rescore does *)
(* it again from the files, for other targets or feeds, and a recompute takes *)
(* only the paths again, for a liveness pass. Exposures, dependencies, weights*)
(* and EPSS threat are in hundredths, CVSS in tenths, an OVSS in thousandths.  *)
(***************************************************************************)
EXTENDS AttackPaths

CONSTANTS
  ScoredGraphs,  \* what a scan may find: the nodes and what NVD and Wazuh said of each
  TargetChoices, \* what the owner may mark: the FIPS 199 weight of each node, 0 for unmarked
  Feeds,         \* what the threat feeds may say: KEV and EPSS
  Shown          \* TOP_CVES

ScoringAssumption ==
  /\ IsFiniteSet(Nodes) /\ LastVlan \in Nat /\ FirstSpare \in Nat /\ Keep \in Nat /\ Shown \in Nat \ {0}
  /\ Scale \in Nat   \* as any power of ten: the provers know no exponents
  /\ \A n \in Nodes : n \in Nat \ {0} /\ n <= FirstSpare
  /\ IsFiniteSet(DOMAIN Flaws)
  /\ \A c \in DOMAIN Flaws : c \in Nat /\ Flaws[c].cvss \in Nat /\ Flaws[c].complexity \in Complexities
  /\ \A g \in ScoredGraphs, n \in Nodes : g[n].cves \subseteq DOMAIN Flaws /\ g[n].config \subseteq Complexities
  /\ \A w \in TargetChoices, n \in Nodes : w[n] \in Nat
  /\ \A f \in Feeds, c \in DOMAIN Flaws : f.epss[c] \in Nat
ASSUME ScoringAssumption

VARIABLES
  node,     \* graph.json: the nodes as the crawl and the CVE stages left them
  listed,   \* top_cves of each
  score,    \* the record of each finding: [score, tier]
  rollup,   \* node_record: the risk score and the tier of each node
  weight,   \* targets.json
  feed,     \* kev.json and epss.json
  live,     \* liveness.json: whether it is of this graph, and the inactive hosts
  engine,   \* the AttackPathEngine: its starts and its reachability graph
  paths,    \* attack_paths.json
  op,       \* what is being done: a scan, a rescore or a recompute
  phase     \* and where it is

scoringVars == <<node, listed, score, rollup, weight, feed, live, engine, paths, op, phase>>

Tiers == <<"P0", "P1", "P2", "P3">>
Rank(tier) == CHOOSE i \in DOMAIN Tiers : Tiers[i] = tier

-----------------------------------------------------------------------------
\* OVSS.

Bare(nodes) == [node |-> nodes]
\* The VLANs some router routes to another VLAN.
RoutedVlans(nodes) == UNION {V \in {Routed(Bare(nodes), n) : n \in Nodes} : Cardinality(V) >= 2}
Exposure(nodes, n) ==
  IF nodes[n].role = "router" THEN 100
  ELSE IF Placement(Bare(nodes), n) = {} THEN 50
  ELSE IF Placement(Bare(nodes), n) \cap RoutedVlans(nodes) = {} THEN 30 ELSE 50
Dependency(nodes, w, n) ==
  Max({w[n], Min({100, (100 * Dependants(Bare(nodes), n)) \div Max({Cardinality(Nodes) - 1, 1})})})

Threat(f, c) == IF c \in f.kev THEN 100 ELSE Min({100, 10 * f.epss[c]})
Ovss(f, c, exposure, dependency) ==
  (Flaws[c].cvss * (200 + exposure + dependency) * (100 + Threat(f, c)) + 400) \div 800
Cut(ovss) == IF ovss >= 6750 THEN "P0" ELSE IF ovss >= 4500 THEN "P1" ELSE IF ovss >= 2500 THEN "P2" ELSE "P3"
Tier(ovss, kev, potential, exposure) ==
  LET base == IF potential /\ ~kev /\ Cut(ovss) = "P0" THEN "P1" ELSE Cut(ovss)
  IN IF kev /\ exposure = 100 THEN "P0" ELSE IF kev /\ base \in {"P2", "P3"} THEN "P1" ELSE base

\* The rows scored: the findings, or the worst few the node carries when these are not known.
FindingRows(nodes, lists, n) == IF nodes[n].known THEN nodes[n].cves ELSE ToSet(lists[n])
Record(nodes, w, f, n, c) ==
  LET e == Exposure(nodes, n)
      s == Ovss(f, c, e, Dependency(nodes, w, n))
  IN [score |-> s, tier |-> Tier(s, c \in f.kev, ~nodes[n].managed, e)]
Scores(nodes, lists, w, f) ==
  [n \in Nodes |-> [c \in FindingRows(nodes, lists, n) |-> Record(nodes, w, f, n, c)]]

\* ovss_order, and top_cves: all findings compete, those not listed so far too.
Higher(r, c, d) ==
  \/ Rank(r[c].tier) < Rank(r[d].tier)
  \/ Rank(r[c].tier) = Rank(r[d].tier) /\ r[c].score > r[d].score
  \/ Rank(r[c].tier) = Rank(r[d].tier) /\ r[c].score = r[d].score /\ c < d
\* The place of c among S, and S in the order above, a set of pairs.
PlaceIn(S, above, c) == Cardinality({d \in S : <<d, c>> \in above})
Ordered(S, above) == [i \in 1..Cardinality(S) |-> CHOOSE c \in S : PlaceIn(S, above, c) = i - 1]
InOrder(S, r) == Ordered(S, {p \in S \X S : Higher(r, p[1], p[2])})
Cutoff(s) == SubSeq(s, 1, Min({Len(s), Shown}))
BugTop(nodes, lists, n, r) == Cutoff(InOrder(ToSet(lists[n]), r))
Top(nodes, lists, n, r) == Cutoff(InOrder(FindingRows(nodes, lists, n), r))

NodeRecord(r) ==
  [risk |-> Max({0} \cup {r[c].score : c \in DOMAIN r}),
   tier |-> IF DOMAIN r = {} THEN "none" ELSE Tiers[Min({Rank(r[c].tier) : c \in DOMAIN r})]]

-----------------------------------------------------------------------------
\* Scan, rescore, recompute.

\* enrich_agent: as the CVE stages leave it, a node lists its worst CVEs by CVSS.
Worse(c, d) == Flaws[c].cvss > Flaws[d].cvss \/ (Flaws[c].cvss = Flaws[d].cvss /\ c < d)
WorstOf(S) == Cutoff(Ordered(S, {p \in S \X S : Worse(p[1], p[2])}))
NoEngine == [starts |-> {}, edge |-> << >>]

\* inactive_hosts: none unless the pass was made for this graph.
Inactive(l) == IF l.current THEN l.hosts ELSE {}
View(inactive) == [node |-> node, listed |-> listed, inactive |-> inactive]
BugBuilt(inactive) ==
  Engine([View(inactive) EXCEPT !.node = [n \in Nodes |-> IF n \in inactive THEN [@[n] EXCEPT !.vlan = 0] ELSE @[n]]])
Built(inactive) == Engine(View(inactive))

ScoringInit ==
  /\ node \in ScoredGraphs /\ weight \in TargetChoices /\ feed \in Feeds
  /\ listed = [n \in Nodes |-> << >>] /\ score = [n \in Nodes |-> << >>]
  /\ rollup = [n \in Nodes |-> NodeRecord(<< >>)]
  /\ live = [current |-> FALSE, hosts |-> {}] /\ engine = NoEngine /\ paths = << >>
  /\ op = "none" /\ phase = "ended"

Begins(name) == phase = "ended" /\ op' = name

\* The pipeline: the graph is new, as the CVE stages left it, and liveness.json is of the one before.
Scans ==
  /\ Begins("scan") /\ op # "scan"
  /\ listed' = [n \in Nodes |-> WorstOf(node[n].cves)]
  /\ live' = [live EXCEPT !.current = FALSE]
  /\ phase' = "score"
  /\ UNCHANGED <<node, score, rollup, weight, feed, engine, paths>>

\* The owner marked assets, or the feeds on disk are newer: score again what the files hold.
Rescores ==
  /\ op # "none" /\ Begins("rescore")
  /\ weight' \in TargetChoices /\ feed' \in Feeds
  /\ phase' = "score"
  /\ UNCHANGED <<node, listed, score, rollup, live, engine, paths>>

\* A liveness pass was made for this graph: the paths are taken again with the scores there are.
Recomputes ==
  /\ op # "none" /\ Begins("recompute")
  /\ \E S \in SUBSET {n \in Nodes : node[n].kind = "host"} :
        /\ live' = [current |-> TRUE, hosts |-> S]
        /\ engine' = Built(S)
  /\ phase' = "paths"
  /\ UNCHANGED <<node, listed, score, rollup, weight, feed, paths>>

\* score_graph: every finding, then what the node lists and its record; the engine is built beside it.
ScoresFindings ==
  /\ phase = "score"
  /\ score' = Scores(node, listed, weight, feed)
  /\ engine' = Built(IF op = "scan" THEN {} ELSE Inactive(live))
  /\ phase' = "roll"
  /\ UNCHANGED <<node, listed, rollup, weight, feed, live, paths, op>>

RollsUp ==
  /\ phase = "roll"
  /\ listed' = [n \in Nodes |-> Top(node, listed, n, score[n])]
  /\ rollup' = [n \in Nodes |-> NodeRecord(score[n])]
  /\ phase' = "paths"
  /\ UNCHANGED <<node, score, weight, feed, live, engine, paths, op>>

ComputesPaths ==
  /\ phase = "paths"
  /\ paths' = Compute(engine, [n \in Nodes |-> rollup[n].risk], {n \in Nodes : weight[n] > 0})
  /\ phase' = "ended"
  /\ UNCHANGED <<node, listed, score, rollup, weight, feed, live, engine, op>>

ScoringNext == Scans \/ Rescores \/ Recomputes \/ ScoresFindings \/ RollsUp \/ ComputesPaths
ScoringSpec == ScoringInit /\ [][ScoringNext]_scoringVars
-----------------------------------------------------------------------------
\* Properties.

Complete == op # "none" /\ phase = "ended"

\* Every kept route is as likely as anything the reachability rules allow an attacker who starts there, however
\* many assets it takes over on the way, and a start without a kept route can hold the target no more
\* likely than those that have one (attackpaths.py REACHABILITY; route, _order_key).
RoutesAreTheMostLikely ==
  Complete =>
    LET e == View(Inactive(live))
    IN \A t \in DOMAIN paths :
         LET likelihoods == {r.likelihood : r \in paths[t]}
         IN \A s \in StartsOf(e) \ {t} :
              LET best == BestHold(e, s, t)
                  own == {r \in paths[t] : r.start = s}
              IN IF own = {} THEN best = 0 \/ (Cardinality(paths[t]) = Keep /\ \A l \in likelihoods : l >= best)
                 ELSE \A r \in own : r.likelihood = best

\* A liveness pass takes away starting points and nothing else: the routes from hosts that answer stay, an
\* inactive host can still be a stepping stone, and a pass made for another graph changes nothing
\* (attackpaths.py inactive_hosts, find_starts).
LivenessOnlyTakesStarts ==
  Complete =>
    LET plain == Compute(Engine(View({})), [n \in Nodes |-> rollup[n].risk], {n \in Nodes : weight[n] > 0})
    IN \A t \in DOMAIN paths :
         /\ live.current => \A r \in paths[t] : r.start \notin live.hosts
         /\ ~live.current => paths[t] = plain[t]
         /\ \A r \in plain[t] : r.start \notin live.hosts => r \in paths[t]

\* A vulnerability known to be exploited is at least P1, P0 on the egress device, and the node says so: its tier
\* is that of the first CVE it lists, whatever was listed before (a KEV entry may name a CVE that was not
\* among the worst). An exploited CVE is left out only for others of a tier as high.
ExploitedIsShown ==
  Complete =>
    \A n \in Nodes :
      /\ listed[n] # << >> => rollup[n].tier = score[n][listed[n][1]].tier
      /\ \A c \in feed.kev \cap DOMAIN score[n] :
           /\ score[n][c].tier \in {"P0", "P1"} /\ (node[n].role = "router" => score[n][c].tier = "P0")
           /\ c \in ToSet(listed[n]) \/ (\A d \in ToSet(listed[n]) : Rank(score[n][d].tier) <= Rank(score[n][c].tier))

\* A rescore leaves nothing of the scores before it: the files come to what a scan of the same network would
\* write with today's targets and feeds (rescore.py reads the very files it writes).
RescoringLeavesNothing ==
  Complete /\ op = "rescore" =>
    LET worst == [n \in Nodes |-> WorstOf(node[n].cves)]
        records == Scores(node, worst, weight, feed)
    IN /\ score = records
       /\ \A n \in Nodes : listed[n] = Top(node, worst, n, records[n])

\* The scores of the files, whatever scans, rescores and recomputes came before: exploited vulnerabilities are
\* shown, and nothing of an earlier score is left.
ScoresHold == ExploitedIsShown /\ RescoringLeavesNothing

\* scoring/stage.py:51-53, "so the CVEs that set the node's tier and score are always listed".
ScoreSetterIsListed ==
  Complete => \A n \in Nodes : listed[n] # << >> => \E c \in ToSet(listed[n]) : score[n][c].score = rollup[n].risk
=============================================================================
