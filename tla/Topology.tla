------------------------------ MODULE Topology ------------------------------
(* What the map of the network promises as a whole: the document the crawls    *)
(* leave (network/document.py) and the graph the agents are put into           *)
(* (assemble/graph.py).                                                        *)
EXTENDS Document, Assemble

\* They share no state: the assembly begins with a document that is ready.
TopologySpec == DocumentSpec /\ AssembleSpec

\* Two crawls, the agents and the tables tell of one machine or one cable many times, from both ends and by different
\* names: the network document has one edge for it, the graph one node (document.py _dedupe_edges, merge_documents;
\* assemble/graph.py).
OneOfEach == OneEdgePerPair /\ OneNodePerMachine
=============================================================================
