------------------------------ MODULE Document ------------------------------
(* The network document (network/document.py): the links of a crawl become one *)
(* edge for each pair of devices, and what a second crawl found, from hosts    *)
(* that turned out to forward traffic, is merged into the document of the      *)
(* first (hosts.py).                                                           *)
EXTENDS Naturals, Sequences, SequencesExt, FiniteSets

CONSTANTS Reports  \* what a first and a second crawl may report: [base, extra, only], the crawls as [polled, known,
                   \* links], and whether the first document is of polled devices only

\* The first end of a link is the device that told of it, which was polled (crawl.py _handle_neighbor,
\* _resolve_cdp_links); the other end may be a device no crawl has, one that has another id when it is polled.
Links == [source : Nat, target : Nat, local : Nat, remote : Nat, protocol : STRING]
ASSUME ReportsAssumption ==
  \A r \in Reports : r.only \in BOOLEAN /\ \A crawl \in {r.base, r.extra} :
    /\ crawl.polled \cap crawl.known = {}
    /\ crawl.links \in Seq(Links)
    /\ \A i \in DOMAIN crawl.links : crawl.links[i].source \in crawl.polled

VARIABLES report,    \* the two crawls
          network,   \* the document: its polled and its other devices, and its edges in order
          parts      \* how many of the crawls it is made of

documentVars == <<report, network, parts>>

NoPort == 0
NoDocument == [polled |-> {}, known |-> {}, edges |-> << >>]

DocumentStarts == network = NoDocument /\ parts = 0
DocumentInit == report \in Reports /\ DocumentStarts

\* A link as seen from the smaller chassis id.
Oriented(link) == IF link.source <= link.target
                  THEN [source |-> link.source, target |-> link.target, local |-> link.local, remote |-> link.remote,
                        protocols |-> {link.protocol}]
                  ELSE [source |-> link.target, target |-> link.source, local |-> link.remote, remote |-> link.local,
                        protocols |-> {link.protocol}]
Or(a, b) == IF a = NoPort THEN b ELSE a
SamePair(e, f) == {e.source, e.target} = {f.source, f.target}
Joined(e, f) == [e EXCEPT !.local = Or(e.local, f.local), !.remote = Or(e.remote, f.remote),
                          !.protocols = e.protocols \cup f.protocols]

\* _dedupe_edges: the first link of a pair makes the edge, the later ones fill what it does not know.
WithLink(edges, link) ==
  LET f == Oriented(link)
  IN IF \E i \in DOMAIN edges : SamePair(edges[i], f)
     THEN [i \in DOMAIN edges |-> IF SamePair(edges[i], f) THEN Joined(edges[i], f) ELSE edges[i]]
     ELSE Append(edges, f)
DedupeEdges(links) ==
  LET after[k \in 0..Len(links)] == IF k = 0 THEN << >> ELSE WithLink(after[k - 1], links[k])
  IN after[Len(links)]

\* What a sequence has at the positions in I.
Kept(s, I) ==
  LET after[k \in 0..Len(s)] == IF k = 0 THEN << >> ELSE IF k \in I THEN Append(after[k - 1], s[k]) ELSE after[k - 1]
  IN after[Len(s)]

\* build_document: with pollable_only, devices that were not polled go, and the links that touch them.
AmongPolled(crawl) == {i \in DOMAIN crawl.links : {crawl.links[i].source, crawl.links[i].target} \subseteq crawl.polled}
BuildDocument(crawl, only) ==
  IF only THEN [polled |-> crawl.polled, known |-> {}, edges |-> DedupeEdges(Kept(crawl.links, AmongPolled(crawl)))]
  ELSE [polled |-> crawl.polled, known |-> crawl.known, edges |-> DedupeEdges(crawl.links)]

\* merge_documents: a device of both is polled if either polled it; a link of both keeps its first edge.
Added(edges, more) == {j \in DOMAIN more : \A i \in DOMAIN edges : ~SamePair(edges[i], more[j])}
MergeDocuments(base, extra) ==
  [polled |-> base.polled \cup extra.polled,
   known |-> (base.known \cup extra.known) \ (base.polled \cup extra.polled),
   edges |-> base.edges \o Kept(extra.edges, Added(base.edges, extra.edges))]

CrawlEmits ==
  /\ parts = 0 /\ parts' = 1
  /\ network' = BuildDocument(report.base, report.only) /\ UNCHANGED report
SecondCrawlIsMerged ==
  /\ parts = 1 /\ ~report.only /\ parts' = 2
  /\ network' = MergeDocuments(network, BuildDocument(report.extra, FALSE)) /\ UNCHANGED report

DocumentNext == CrawlEmits \/ SecondCrawlIsMerged
DocumentSpec == DocumentInit /\ [][DocumentNext]_documentVars
-----------------------------------------------------------------------------
\* Properties.

\* The links between two devices that an edge is made of: those of the first crawl, or, if it has none, the second's.
LinksOf(pair) ==
  LET of(crawl) == {l \in ToSet(crawl.links) : {l.source, l.target} = pair}
  IN IF of(report.base) # {} THEN of(report.base) ELSE of(report.extra)
PortsNamed(links, end) == ({l.local : l \in {k \in links : k.source = end}}
                             \cup {l.remote : l \in {k \in links : k.target = end}}) \ {NoPort}

\* Every pair of linked devices has one edge in the document, in whatever order and from whichever end its links
\* were told; each end shows a port that was told of that end, if any was (of a device cabled to itself, the ends are
\* one and the same); an edge is CDP's only when LLDP told none; one of its ends was polled, and both in a document of
\* polled devices only. No device of the crawls is lost, and one that either polled is a polled one (document.py
\* _dedupe_edges, build_document, merge_documents).
OneEdgePerPair ==
  /\ \A i, j \in DOMAIN network.edges : i # j => ~SamePair(network.edges[i], network.edges[j])
  /\ \A i \in DOMAIN network.edges :
       LET e == network.edges[i]
           links == LinksOf({e.source, e.target})
           Shows(port, end) == IF port = NoPort THEN PortsNamed(links, end) = {} ELSE port \in PortsNamed(links, end)
       IN /\ e.source # e.target => Shows(e.local, e.source) /\ Shows(e.remote, e.target)
          /\ "lldp" \in e.protocols <=> \E l \in links : l.protocol = "lldp"
          /\ {e.source, e.target} \cap network.polled # {}
          /\ report.only => {e.source, e.target} \subseteq network.polled
  /\ parts = 2 =>
       /\ network.polled = report.base.polled \cup report.extra.polled
       /\ network.polled \cup network.known = network.polled \cup report.base.known \cup report.extra.known
       /\ \A l \in ToSet(report.base.links) \cup ToSet(report.extra.links) :
            \E i \in DOMAIN network.edges : SamePair(network.edges[i], l)
  /\ network.polled \cap network.known = {}
=============================================================================
