---------------------------- MODULE PipelineProofs ----------------------------
(* Theorems about the pipeline of one scan. The threads first: whatever they    *)
(* interleave, the scan is at every point what the stages up to there, one      *)
(* after another, make of the first graph. What a scan ends with are then facts *)
(* about that sequence, proved a stage at a time. Then the checks of a device,  *)
(* the methods that assemble the graph, and the network document.               *)
EXTENDS Pipeline, Checklist, Topology, FiniteSetTheorems, SequenceTheorems, WellFoundedInduction, TLAPS

\* A scan, a node and an entry are the records of their parts, the graph and the entries functions on the assets.
ScanOf(n, e, c, sc, g, l, w, li) ==
  [node |-> n, entry |-> e, cves |-> c, scored |-> sc, engine |-> g, lost |-> l, warnings |-> w, lines |-> li]
IsScan(s) == s = ScanOf(s.node, s.entry, s.cves, s.scored, s.engine, s.lost, s.warnings, s.lines)
IsNode(m) ==
  m = [kind |-> m.kind, name |-> m.name, family |-> m.family, ports |-> m.ports, counted |-> m.counted,
       top |-> m.top, reachable |-> m.reachable]
IsGraph(f) == f = [n \in Assets |-> f[n]] /\ \A n \in Assets : IsNode(f[n])
IsEntries(f) == f = [n \in Assets |-> f[n]]
Shape(s) == IsScan(s) /\ IsGraph(s.node) /\ IsEntries(s.entry)

LEMMA ScanOfIs ==
  ASSUME NEW n, NEW e, NEW c, NEW sc, NEW g, NEW l, NEW w, NEW li
  PROVE  LET s == ScanOf(n, e, c, sc, g, l, w, li)
         IN IsScan(s) /\ s.node = n /\ s.entry = e /\ s.cves = c /\ s.scored = sc /\ s.engine = g /\ s.lost = l
              /\ s.warnings = w /\ s.lines = li
  BY DEF ScanOf, IsScan

\* A function on the assets is told by its values, and a scan by its parts.
LEMMA SameFunction ==
  ASSUME NEW f, NEW g, f = [n \in Assets |-> f[n]], g = [n \in Assets |-> g[n]], \A n \in Assets : f[n] = g[n]
  PROVE  f = g
<1>1. [n \in Assets |-> f[n]] = [n \in Assets |-> g[n]]
  OBVIOUS
<1>2. QED
  BY <1>1, Zenon

LEMMA SameScan ==
  ASSUME NEW s, NEW t, IsScan(s), IsScan(t), s.node = t.node, s.entry = t.entry, s.cves = t.cves,
         s.scored = t.scored, s.engine = t.engine, s.lost = t.lost, s.warnings = t.warnings, s.lines = t.lines
  PROVE  s = t
  BY Zenon DEF IsScan

-----------------------------------------------------------------------------
\* What an assignment to one part of a scan leaves of the others.

LEMMA PutNode ==
  ASSUME NEW s, IsScan(s), NEW e
  PROVE  [s EXCEPT !.node = e] = ScanOf(e, s.entry, s.cves, s.scored, s.engine, s.lost, s.warnings, s.lines)
  BY DEF IsScan, ScanOf

LEMMA PutFindings ==
  ASSUME NEW s, IsScan(s), NEW e, NEW c
  PROVE  [s EXCEPT !.entry = e, !.cves = c] = ScanOf(s.node, e, c, s.scored, s.engine, s.lost, s.warnings, s.lines)
<1> DEFINE u == ScanOf(s.node, e, s.cves, s.scored, s.engine, s.lost, s.warnings, s.lines)
<1>1. [s EXCEPT !.entry = e] = u
  BY DEF IsScan, ScanOf
<1>2. [u EXCEPT !.cves = c] = ScanOf(s.node, e, c, s.scored, s.engine, s.lost, s.warnings, s.lines)
  BY DEF ScanOf
<1>3. [s EXCEPT !.entry = e, !.cves = c] = [[s EXCEPT !.entry = e] EXCEPT !.cves = c]
  BY DEF IsScan, ScanOf
<1>4. QED
  BY Zenon, <1>1, <1>2, <1>3

LEMMA PutScores ==
  ASSUME NEW s, IsScan(s), NEW e, NEW c
  PROVE  [s EXCEPT !.node = e, !.scored = c] = ScanOf(e, s.entry, s.cves, c, s.engine, s.lost, s.warnings, s.lines)
<1> DEFINE u == ScanOf(e, s.entry, s.cves, s.scored, s.engine, s.lost, s.warnings, s.lines)
<1>1. [s EXCEPT !.node = e] = u
  BY DEF IsScan, ScanOf
<1>2. [u EXCEPT !.scored = c] = ScanOf(e, s.entry, s.cves, c, s.engine, s.lost, s.warnings, s.lines)
  BY DEF ScanOf
<1>3. [s EXCEPT !.node = e, !.scored = c] = [[s EXCEPT !.node = e] EXCEPT !.scored = c]
  BY DEF IsScan, ScanOf
<1>4. QED
  BY Zenon, <1>1, <1>2, <1>3

LEMMA PutEngine ==
  ASSUME NEW s, IsScan(s), NEW e
  PROVE  [s EXCEPT !.engine = e] = ScanOf(s.node, s.entry, s.cves, s.scored, e, s.lost, s.warnings, s.lines)
  BY DEF IsScan, ScanOf

LEMMA PutWarnings ==
  ASSUME NEW s, IsScan(s), NEW e
  PROVE  [s EXCEPT !.warnings = e] = ScanOf(s.node, s.entry, s.cves, s.scored, s.engine, s.lost, e, s.lines)
  BY DEF IsScan, ScanOf

LEMMA PutLines ==
  ASSUME NEW s, IsScan(s), NEW e
  PROVE  [s EXCEPT !.lines = e] = ScanOf(s.node, s.entry, s.cves, s.scored, s.engine, s.lost, s.warnings, e)
  BY DEF IsScan, ScanOf

-----------------------------------------------------------------------------
\* What an assignment to one part of a node leaves of the others.

NodeOf(k, n, f, p, c, t, r) ==
  [kind |-> k, name |-> n, family |-> f, ports |-> p, counted |-> c, top |-> t, reachable |-> r]

LEMMA NodeOfIs ==
  ASSUME NEW k, NEW n, NEW f, NEW p, NEW c, NEW t, NEW r
  PROVE  LET m == NodeOf(k, n, f, p, c, t, r)
         IN IsNode(m) /\ m.kind = k /\ m.name = n /\ m.family = f /\ m.ports = p /\ m.counted = c /\ m.top = t
              /\ m.reachable = r
  BY DEF NodeOf, IsNode

LEMMA PutKind ==
  ASSUME NEW m, IsNode(m), NEW e
  PROVE  [m EXCEPT !.kind = e] = NodeOf(e, m.name, m.family, m.ports, m.counted, m.top, m.reachable)
  BY DEF IsNode, NodeOf

LEMMA PutName ==
  ASSUME NEW m, IsNode(m), NEW e
  PROVE  [m EXCEPT !.name = e] = NodeOf(m.kind, e, m.family, m.ports, m.counted, m.top, m.reachable)
  BY DEF IsNode, NodeOf

LEMMA PutTop ==
  ASSUME NEW m, IsNode(m), NEW e
  PROVE  [m EXCEPT !.top = e] = NodeOf(m.kind, m.name, m.family, m.ports, m.counted, e, m.reachable)
  BY DEF IsNode, NodeOf

LEMMA PutReachable ==
  ASSUME NEW m, IsNode(m), NEW e
  PROVE  [m EXCEPT !.reachable = e] = NodeOf(m.kind, m.name, m.family, m.ports, m.counted, m.top, e)
  BY DEF IsNode, NodeOf

LEMMA PutNameAndFamily ==
  ASSUME NEW m, IsNode(m), NEW e, NEW f
  PROVE  [m EXCEPT !.name = e, !.family = f] = NodeOf(m.kind, e, f, m.ports, m.counted, m.top, m.reachable)
<1> DEFINE u == NodeOf(m.kind, e, m.family, m.ports, m.counted, m.top, m.reachable)
<1>1. [m EXCEPT !.name = e] = u
  BY DEF IsNode, NodeOf
<1>2. [u EXCEPT !.family = f] = NodeOf(m.kind, e, f, m.ports, m.counted, m.top, m.reachable)
  BY DEF NodeOf
<1>3. [m EXCEPT !.name = e, !.family = f] = [[m EXCEPT !.name = e] EXCEPT !.family = f]
  BY DEF IsNode, NodeOf
<1>4. QED
  BY Zenon, <1>1, <1>2, <1>3

LEMMA PutPortsAndName ==
  ASSUME NEW m, IsNode(m), NEW e, NEW f
  PROVE  [m EXCEPT !.ports = f, !.name = e] = NodeOf(m.kind, e, m.family, f, m.counted, m.top, m.reachable)
<1> DEFINE u == NodeOf(m.kind, m.name, m.family, f, m.counted, m.top, m.reachable)
<1>1. [m EXCEPT !.ports = f] = u
  BY DEF IsNode, NodeOf
<1>2. [u EXCEPT !.name = e] = NodeOf(m.kind, e, m.family, f, m.counted, m.top, m.reachable)
  BY DEF NodeOf
<1>3. [m EXCEPT !.ports = f, !.name = e] = [[m EXCEPT !.ports = f] EXCEPT !.name = e]
  BY DEF IsNode, NodeOf
<1>4. QED
  BY Zenon, <1>1, <1>2, <1>3

LEMMA PutCves ==
  ASSUME NEW m, IsNode(m), NEW e, NEW f
  PROVE  [m EXCEPT !.counted = e, !.top = f] = NodeOf(m.kind, m.name, m.family, m.ports, e, f, m.reachable)
<1> DEFINE u == NodeOf(m.kind, m.name, m.family, m.ports, e, m.top, m.reachable)
<1>1. [m EXCEPT !.counted = e] = u
  BY DEF IsNode, NodeOf
<1>2. [u EXCEPT !.top = f] = NodeOf(m.kind, m.name, m.family, m.ports, e, f, m.reachable)
  BY DEF NodeOf
<1>3. [m EXCEPT !.counted = e, !.top = f] = [[m EXCEPT !.counted = e] EXCEPT !.top = f]
  BY DEF IsNode, NodeOf
<1>4. QED
  BY Zenon, <1>1, <1>2, <1>3

-----------------------------------------------------------------------------
\* What each part of a stage makes of a scan.

Same(s, t) ==
  s.entry = t.entry /\ s.cves = t.cves /\ s.scored = t.scored /\ s.engine = t.engine /\ s.lost = t.lost
Quiet(s, t) == s.warnings = t.warnings /\ s.lines = t.lines

LEMMA GraphPut ==
  ASSUME NEW s, Shape(s), NEW f, IsGraph(f)
  PROVE  LET t == [s EXCEPT !.node = f] IN Shape(t) /\ t.node = f /\ Same(t, s) /\ Quiet(t, s)
<1> DEFINE t == [s EXCEPT !.node = f]
<1>1. t = ScanOf(f, s.entry, s.cves, s.scored, s.engine, s.lost, s.warnings, s.lines)
  BY PutNode DEF Shape
<1>2. IsScan(t) /\ t.node = f /\ t.entry = s.entry /\ t.cves = s.cves /\ t.scored = s.scored /\ t.engine = s.engine
        /\ t.lost = s.lost /\ t.warnings = s.warnings /\ t.lines = s.lines
  BY <1>1, ScanOfIs
<1>3. QED
  BY <1>2 DEF Shape, Same, Quiet

LEMMA LineIs ==
  ASSUME NEW s, Shape(s), NEW stage, NEW status
  PROVE  LET t == Line(s, stage, status)
         IN Shape(t) /\ t.node = s.node /\ Same(t, s) /\ t.warnings = s.warnings
              /\ t.lines = Append(s.lines, <<stage, status>>)
<1> DEFINE e == Append(s.lines, <<stage, status>>)
           t == Line(s, stage, status)
<1>1. t = [s EXCEPT !.lines = e]
  BY Zenon DEF Line
<1>2. t = ScanOf(s.node, s.entry, s.cves, s.scored, s.engine, s.lost, s.warnings, e)
  BY <1>1, PutLines DEF Shape
<1> HIDE DEF e, t
<1>3. IsScan(t) /\ t.node = s.node /\ t.entry = s.entry /\ t.cves = s.cves /\ t.scored = s.scored /\ t.engine = s.engine
        /\ t.lost = s.lost /\ t.warnings = s.warnings /\ t.lines = e
  BY <1>2, ScanOfIs
<1>4. QED
  BY <1>3 DEF Shape, Same, t, e

LEMMA FailedIs ==
  ASSUME NEW s, Shape(s), NEW stage
  PROVE  LET t == Failed(s, stage)
         IN Shape(t) /\ t.node = s.node /\ Same(t, s) /\ t.warnings = s.warnings \cup {stage}
              /\ t.lines = Append(s.lines, <<stage, "failed">>)
<1> DEFINE u == [s EXCEPT !.warnings = s.warnings \cup {stage}]
<1>1. u = ScanOf(s.node, s.entry, s.cves, s.scored, s.engine, s.lost, s.warnings \cup {stage}, s.lines)
  BY PutWarnings DEF Shape
<1>2. Failed(s, stage) = Line(u, stage, "failed")
  BY Zenon DEF Failed
<1> HIDE DEF u
<1>3. IsScan(u) /\ u.node = s.node /\ u.entry = s.entry /\ u.cves = s.cves /\ u.scored = s.scored /\ u.engine = s.engine
        /\ u.lost = s.lost /\ u.warnings = s.warnings \cup {stage} /\ u.lines = s.lines
  BY <1>1, ScanOfIs
<1>4. Shape(u)
  BY <1>3 DEF Shape
<1> DEFINE t == Line(u, stage, "failed")
<1>5. Shape(t) /\ t.node = u.node /\ Same(t, u) /\ t.warnings = u.warnings /\ t.lines = Append(u.lines, <<stage, "failed">>)
  BY <1>4, LineIs
<1> HIDE DEF t
<1>6. Shape(t) /\ t.node = s.node /\ Same(t, s) /\ t.warnings = s.warnings \cup {stage}
        /\ t.lines = Append(s.lines, <<stage, "failed">>)
  BY <1>3, <1>5 DEF Same
<1>7. QED
  BY <1>2, <1>6 DEF t

\* A stage's lookups, names and answers change the nodes they are about, and no kind but the first question's.
LEMMA ApplyIs ==
  ASSUME NEW m, IsNode(m), NEW a
  PROVE  Apply(m, a) = NodeOf(m.kind, m.name, m.family, m.ports, Rows(a), Worst(Rows(a).rows), m.reachable)
  BY PutCves DEF Apply

LEMMA ApplyAllIs ==
  ASSUME NEW s, Shape(s), NEW S, NEW answer
  PROVE  LET t == ApplyAll(s, S, answer)
         IN Shape(t) /\ Same(t, s) /\ Quiet(t, s)
              /\ \A n \in Assets : t.node[n] = IF n \in S THEN Apply(s.node[n], answer[n]) ELSE s.node[n]
<1> DEFINE f == [n \in Assets |-> IF n \in S THEN Apply(s.node[n], answer[n]) ELSE s.node[n]]
<1>1. \A n \in Assets : f[n] = IF n \in S THEN Apply(s.node[n], answer[n]) ELSE s.node[n]
  OBVIOUS
<1>2. \A n \in Assets : IsNode(f[n])
  <2>1. \A n \in Assets : IsNode(s.node[n])
    BY DEF Shape, IsGraph
  <2>2. \A n \in Assets : IsNode(Apply(s.node[n], answer[n]))
    BY <2>1, ApplyIs, NodeOfIs
  <2>3. QED
    BY <1>1, <2>1, <2>2
<1>3. IsGraph(f)
  BY <1>2 DEF IsGraph
<1>4. ApplyAll(s, S, answer) = [s EXCEPT !.node = f]
  BY Zenon DEF ApplyAll
<1> HIDE DEF f
<1>5. QED
  BY <1>1, <1>3, <1>4, GraphPut

LEMMA NamedIs ==
  ASSUME NEW s, Shape(s), NEW asked
  PROVE  LET t == Named(s, asked)
         IN Shape(t) /\ Same(t, s) /\ Quiet(t, s)
              /\ \A n \in Assets : t.node[n] = IF n \in asked \cap world.dns THEN [s.node[n] EXCEPT !.name = "dns"] ELSE s.node[n]
<1> DEFINE f == [n \in Assets |-> IF n \in asked \cap world.dns THEN [s.node[n] EXCEPT !.name = "dns"] ELSE s.node[n]]
<1>1. \A n \in Assets : f[n] = IF n \in asked \cap world.dns THEN [s.node[n] EXCEPT !.name = "dns"] ELSE s.node[n]
  OBVIOUS
<1>2. \A n \in Assets : IsNode(f[n])
  <2>1. \A n \in Assets : IsNode(s.node[n])
    BY DEF Shape, IsGraph
  <2>2. \A n \in Assets : IsNode([s.node[n] EXCEPT !.name = "dns"])
    BY <2>1, PutName, NodeOfIs
  <2>3. QED
    BY <1>1, <2>1, <2>2
<1>3. IsGraph(f)
  BY <1>2 DEF IsGraph
<1>4. Named(s, asked) = [s EXCEPT !.node = f]
  BY Zenon DEF Named
<1> HIDE DEF f
<1>5. QED
  BY <1>1, <1>3, <1>4, GraphPut

LEMMA HeardIs ==
  ASSUME NEW m, IsNode(m), NEW n
  PROVE  Heard(m, n) = NodeOf(m.kind, "snmp", world.snmp[n] = "family", m.ports, m.counted, m.top, m.reachable)
<1> DEFINE f == world.snmp[n] = "family"
<1>1. Heard(m, n) = [m EXCEPT !.name = "snmp", !.family = f]
  BY Zenon DEF Heard
<1> HIDE DEF f
<1>2. Heard(m, n) = NodeOf(m.kind, "snmp", f, m.ports, m.counted, m.top, m.reachable)
  BY <1>1, PutNameAndFamily
<1>3. QED
  BY <1>2 DEF f

LEMMA AnswersIs ==
  ASSUME NEW s, Shape(s)
  PROVE  LET t == Answers(s)
         IN Shape(t) /\ Same(t, s) /\ Quiet(t, s)
              /\ \A n \in Assets : t.node[n] = IF n \in Hosts /\ world.snmp[n] # "silent" THEN Heard(s.node[n], n) ELSE s.node[n]
<1> DEFINE f == [n \in Assets |-> IF n \in Hosts /\ world.snmp[n] # "silent" THEN Heard(s.node[n], n) ELSE s.node[n]]
<1>1. \A n \in Assets : f[n] = IF n \in Hosts /\ world.snmp[n] # "silent" THEN Heard(s.node[n], n) ELSE s.node[n]
  OBVIOUS
<1>2. \A n \in Assets : IsNode(f[n])
  <2>1. \A n \in Assets : IsNode(s.node[n])
    BY DEF Shape, IsGraph
  <2>2. \A n \in Assets : IsNode(Heard(s.node[n], n))
    BY <2>1, HeardIs, NodeOfIs
  <2>3. QED
    BY <1>1, <2>1, <2>2
<1>3. IsGraph(f)
  BY <1>2 DEF IsGraph
<1>4. Answers(s) = [s EXCEPT !.node = f]
  BY Zenon DEF Answers
<1> HIDE DEF f
<1>5. QED
  BY <1>1, <1>3, <1>4, GraphPut

LEMMA SeenIs ==
  ASSUME NEW m, IsNode(m), NEW n
  PROVE  LET k == Seen(m, n)
         IN IsNode(k) /\ k.kind = m.kind /\ k.family = m.family /\ k.counted = m.counted /\ k.top = m.top
              /\ k.reachable = m.reachable
              /\ k.ports = TRUE /\ k.name = IF m.name = "none" /\ n \in world.netbios THEN "netbios" ELSE m.name
<1> DEFINE e == IF m.name = "none" /\ n \in world.netbios THEN "netbios" ELSE m.name
<1>1. Seen(m, n) = [m EXCEPT !.ports = TRUE, !.name = e]
  BY Zenon DEF Seen
<1> HIDE DEF e
<1>2. Seen(m, n) = NodeOf(m.kind, e, m.family, TRUE, m.counted, m.top, m.reachable)
  BY <1>1, PutPortsAndName
<1>3. LET k == Seen(m, n)
      IN IsNode(k) /\ k.kind = m.kind /\ k.family = m.family /\ k.counted = m.counted /\ k.top = m.top
           /\ k.reachable = m.reachable /\ k.ports = TRUE /\ k.name = e
  BY <1>2 DEF NodeOf, IsNode
<1>4. e = IF m.name = "none" /\ n \in world.netbios THEN "netbios" ELSE m.name
  BY DEF e
<1>5. QED
  BY <1>3, <1>4, Zenon

LEMMA SeenByIs ==
  ASSUME NEW s, Shape(s), NEW S
  PROVE  LET t == SeenBy(s, S)
         IN Shape(t) /\ Same(t, s) /\ Quiet(t, s)
              /\ \A n \in Assets : t.node[n] = IF n \in Answering(S) THEN Seen(s.node[n], n) ELSE s.node[n]
<1> DEFINE f == [n \in Assets |-> IF n \in Answering(S) THEN Seen(s.node[n], n) ELSE s.node[n]]
<1>1. \A n \in Assets : f[n] = IF n \in Answering(S) THEN Seen(s.node[n], n) ELSE s.node[n]
  OBVIOUS
<1>2. \A n \in Assets : IsNode(f[n])
  <2>1. \A n \in Assets : IsNode(s.node[n])
    BY DEF Shape, IsGraph
  <2>2. \A n \in Assets : IsNode(Seen(s.node[n], n))
    BY <2>1, SeenIs, Zenon
  <2>3. QED
    BY <1>1, <2>1, <2>2
<1>3. IsGraph(f)
  BY <1>2 DEF IsGraph
<1>4. SeenBy(s, S) = [s EXCEPT !.node = f]
  BY Zenon DEF SeenBy
<1> HIDE DEF f
<1>5. QED
  BY <1>1, <1>3, <1>4, GraphPut

LEMMA VectorsIs ==
  ASSUME NEW s, Shape(s)
  PROVE  LET t == Vectors(s)
         IN Shape(t) /\ Same(t, s) /\ Quiet(t, s)
              /\ \A n \in Assets : t.node[n] = [s.node[n] EXCEPT !.reachable = Reached(s, n)]
<1> DEFINE f == [n \in Assets |-> [s.node[n] EXCEPT !.reachable = Reached(s, n)]]
<1>1. \A n \in Assets : f[n] = [s.node[n] EXCEPT !.reachable = Reached(s, n)]
  OBVIOUS
<1>2. \A n \in Assets : IsNode(f[n])
  <2>1. \A n \in Assets : IsNode(s.node[n])
    BY DEF Shape, IsGraph
  <2>2. QED
    BY <1>1, <2>1, PutReachable, NodeOfIs
<1>3. IsGraph(f)
  BY <1>2 DEF IsGraph
<1>4. Vectors(s) = [s EXCEPT !.node = f]
  BY Zenon DEF Vectors
<1> HIDE DEF f
<1>5. QED
  BY <1>1, <1>3, <1>4, GraphPut

\* What a stage adds to vulnerabilities.json, and what the scores add to the graph.
EntryOf(s, answer, n) == [here |-> TRUE, name |-> s.node[n].name, findings |-> Rows(answer[n])]

LEMMA KeepFindingsIs ==
  ASSUME NEW s, Shape(s), NEW S, NEW answer
  PROVE  LET t == KeepFindings(s, S, answer)
         IN /\ Shape(t) /\ Quiet(t, s) /\ t.node = s.node /\ t.scored = s.scored /\ t.engine = s.engine /\ t.lost = s.lost
            /\ \A n \in Assets : t.entry[n] = IF n \in S THEN EntryOf(s, answer, n) ELSE s.entry[n]
            /\ t.cves = s.cves \cup UNION {Rows(answer[n]).rows : n \in S}
<1> DEFINE f == [n \in Assets |-> IF n \in S THEN EntryOf(s, answer, n) ELSE s.entry[n]]
           c == s.cves \cup UNION {Rows(answer[n]).rows : n \in S}
           t == KeepFindings(s, S, answer)
<1>1. \A n \in Assets : f[n] = IF n \in S THEN EntryOf(s, answer, n) ELSE s.entry[n]
  OBVIOUS
<1>2. IsEntries(f)
  BY DEF IsEntries
<1>3. t = [s EXCEPT !.entry = f, !.cves = c]
  BY Zenon DEF KeepFindings, EntryOf
<1> HIDE DEF f, c, t
<1>4. t = ScanOf(s.node, f, c, s.scored, s.engine, s.lost, s.warnings, s.lines)
  BY <1>3, PutFindings DEF Shape
<1>5. IsScan(t) /\ t.node = s.node /\ t.entry = f /\ t.cves = c /\ t.scored = s.scored /\ t.engine = s.engine
        /\ t.lost = s.lost /\ t.warnings = s.warnings /\ t.lines = s.lines
  BY <1>4, ScanOfIs
<1>6. Shape(t) /\ Quiet(t, s)
  BY <1>2, <1>5 DEF Shape, Quiet
<1>7. QED
  BY <1>1, <1>5, <1>6 DEF t, c

LEMMA ScoredIs ==
  ASSUME NEW s, Shape(s)
  PROVE  LET t == Scored(s)
         IN /\ Shape(t) /\ Quiet(t, s) /\ t.entry = s.entry /\ t.cves = s.cves /\ t.engine = s.engine /\ t.lost = s.lost
            /\ \A n \in Assets : t.node[n] = [s.node[n] EXCEPT !.top = First(Listable(s, n))]
            /\ t.scored = UNION {{<<n, c>> : c \in Listable(s, n)} : n \in Assets}
<1> DEFINE f == [n \in Assets |-> [s.node[n] EXCEPT !.top = First(Listable(s, n))]]
           c == UNION {{<<n, d>> : d \in Listable(s, n)} : n \in Assets}
           t == Scored(s)
<1>1. \A n \in Assets : f[n] = [s.node[n] EXCEPT !.top = First(Listable(s, n))]
  OBVIOUS
<1>2. IsGraph(f)
  <2>1. \A n \in Assets : IsNode(s.node[n])
    BY DEF Shape, IsGraph
  <2>2. \A n \in Assets : IsNode(f[n])
    BY <1>1, <2>1, PutTop, NodeOfIs
  <2>3. QED
    BY <2>2 DEF IsGraph
<1>3. t = [s EXCEPT !.node = f, !.scored = c]
  BY Zenon DEF Scored
<1> HIDE DEF f, c, t
<1>4. t = ScanOf(f, s.entry, s.cves, c, s.engine, s.lost, s.warnings, s.lines)
  BY <1>3, PutScores DEF Shape
<1>5. IsScan(t) /\ t.node = f /\ t.entry = s.entry /\ t.cves = s.cves /\ t.scored = c /\ t.engine = s.engine
        /\ t.lost = s.lost /\ t.warnings = s.warnings /\ t.lines = s.lines
  BY <1>4, ScanOfIs
<1>6. Shape(t) /\ Quiet(t, s)
  BY <1>2, <1>5 DEF Shape, Quiet
<1>7. QED
  BY <1>1, <1>5, <1>6 DEF t, c

LEMMA BuildsEngineIs ==
  ASSUME NEW s, Shape(s)
  PROVE  LET t == BuildsEngine(s)
         IN Shape(t) /\ Quiet(t, s) /\ t.node = s.node /\ t.entry = s.entry /\ t.cves = s.cves /\ t.scored = s.scored
              /\ t.engine = TRUE /\ t.lost = s.lost
<1>1. BuildsEngine(s) = ScanOf(s.node, s.entry, s.cves, s.scored, TRUE, s.lost, s.warnings, s.lines)
  BY PutEngine DEF BuildsEngine, Shape
<1>2. QED
  BY <1>1 DEF ScanOf, Shape, Quiet, IsScan

LEMMA NodeIs ==
  ASSUME NEW n
  PROVE  LET m == Node(n)
         IN /\ IsNode(m) /\ m.kind = (IF n \in Switches THEN "device" ELSE "endpoint") /\ m.family = FALSE /\ m.reachable = {}
            /\ n \in Agents => m.counted = Rows(world.wazuh) /\ m.top = Worst(Rows(world.wazuh).rows)
  BY DEF Node, IsNode

LEMMA AssembledIs ==
  ASSUME NEW switches, NEW previous, NEW warnings
  PROVE  LET t == Assembled(switches, previous, warnings)
         IN /\ Shape(t) /\ t.cves = Rows(world.wazuh).rows /\ t.scored = {} /\ t.engine = FALSE
            /\ t.warnings = warnings /\ t.lines = << >>
            /\ \A n \in Assets : t.node[n] = [Node(n) EXCEPT !.kind = IF n \in switches THEN "device" ELSE Node(n).kind]
            /\ \A n \in Assets : t.entry[n] = Entry(n)
<1> DEFINE f == [n \in Assets |-> [Node(n) EXCEPT !.kind = IF n \in switches THEN "device" ELSE Node(n).kind]]
           e == [n \in Assets |-> Entry(n)]
           b == previous /\ world.lost
           t == Assembled(switches, previous, warnings)
<1>1. t = ScanOf(f, e, Rows(world.wazuh).rows, {}, FALSE, b, warnings, << >>)
  BY Zenon DEF Assembled, ScanOf
<1>2. \A n \in Assets : f[n] = [Node(n) EXCEPT !.kind = IF n \in switches THEN "device" ELSE Node(n).kind]
  OBVIOUS
<1>3. IsGraph(f)
  <2>1. \A n, k : IsNode([Node(n) EXCEPT !.kind = k])
    <3>1. \A m : IsNode(m) => \A k : IsNode([m EXCEPT !.kind = k])
      BY PutKind, NodeOfIs
    <3>2. \A n : IsNode(Node(n))
      BY NodeIs
    <3>3. QED
      BY <3>1, <3>2, Zenon
  <2>2. \A n \in Assets : IsNode(f[n])
    BY <1>2, <2>1, Zenon
  <2>3. QED
    BY <2>2 DEF IsGraph
<1>4. IsEntries(e) /\ \A n \in Assets : e[n] = Entry(n)
  BY DEF IsEntries
<1> HIDE DEF f, e, b, t
<1>5. IsScan(t) /\ t.node = f /\ t.entry = e /\ t.cves = Rows(world.wazuh).rows /\ t.scored = {} /\ t.engine = FALSE
        /\ t.lost = b /\ t.warnings = warnings /\ t.lines = << >>
  BY <1>1 DEF ScanOf, IsScan
<1>6. Shape(t)
  BY <1>3, <1>4, <1>5 DEF Shape
<1>7. QED
  BY <1>2, <1>4, <1>5, <1>6, Zenon DEF t

-----------------------------------------------------------------------------
\* The stages one after another, as the main thread passes them.

Questioned == SnmpQuestion(FirstGraph, world.on)
Called == Run(Questioned, world.on, "names", NameLookup(Questioned), NameLookup(Questioned))
LookedUp == DevicesStage(Called, world.on)
Scanned == NmapStage(LookedUp, world.on, Targets(LookedUp))
Weighed == VectorsStage(Scanned, world.on)
Checked == ChecklistStage(Weighed, world.on)
Rated == OvssStage(Checked, world.on)
Finished == PathsStage(Rated, world.on)

LEMMA FinishedIsSequential == Finished = Sequential(world.on)
  BY Zenon DEF Finished, Rated, Checked, Weighed, Scanned, LookedUp, Called, Questioned, Sequential

\* They depend on what a scan is given, which no step changes.
LEMMA Frozen ==
  ASSUME world' = world
  PROVE  Questioned' = Questioned /\ Called' = Called /\ LookedUp' = LookedUp /\ Scanned' = Scanned /\ Weighed' = Weighed
           /\ Checked' = Checked /\ Rated' = Rated /\ Finished' = Finished
<1>1. FirstGraph' = FirstGraph
  BY DEF FirstGraph, Assembled, Node, Entry, Rows, Worst
<1>2. Questioned' = Questioned
  BY <1>1 DEF Questioned, SnmpQuestion, Run, Crashes, Answers, Heard, Reassembles, Assembled, Node, Entry, Rows, Worst, Forwarding
<1>3. Called' = Called
  BY <1>2 DEF Called, Run, Crashes, NameLookup, Named
<1>4. LookedUp' = LookedUp
  BY <1>3 DEF LookedUp, DevicesStage, Run, Crashes, LookUpAll, KeepDevices
<1>5. Scanned' = Scanned
  BY <1>4 DEF Scanned, NmapStage, Run, Crashes, ApplyScans, KeepServices, SeenBy, Seen, Versioned, Answering
<1>6. Weighed' = Weighed
  BY <1>5 DEF Weighed, VectorsStage, Run, Crashes, Vectors, Reached
<1>7. Checked' = Checked
  BY <1>6 DEF Checked, ChecklistStage, Run, Crashes
<1>8. Rated' = Rated
  BY <1>7 DEF Rated, OvssStage, Run, Crashes
<1>9. Finished' = Finished
  BY <1>8 DEF Finished, PathsStage, PathsOn, Run, Crashes
<1>10. QED
  BY <1>2, <1>3, <1>4, <1>5, <1>6, <1>7, <1>8, <1>9

-----------------------------------------------------------------------------
\* Every scan has its shape, and after the first question no stage changes who is a device or answers SNMP.

LEMMA RunIs ==
  ASSUME NEW s, Shape(s), NEW w, Shape(w), NEW k, Shape(k), NEW on, NEW stage
  PROVE  Shape(Run(s, on, stage, w, k))
  BY LineIs, FailedIs DEF Run

SameKinds(t, s) == \A n \in Assets : t.node[n].kind = s.node[n].kind /\ t.node[n].family = s.node[n].family

LEMMA KindsOfRun ==
  ASSUME NEW s, Shape(s), NEW w, Shape(w), SameKinds(w, s), NEW k, Shape(k), SameKinds(k, s), NEW on, NEW stage
  PROVE  SameKinds(Run(s, on, stage, w, k), s)
  BY LineIs, FailedIs DEF Run, SameKinds

LEMMA KindsChoose ==
  ASSUME NEW s, NEW t, SameKinds(t, s)
  PROVE  Lookups(t) = Lookups(s) /\ Targets(t) = Targets(s)
  BY DEF Lookups, Targets, SameKinds, Assets

LEMMA FirstGraphShape == Shape(FirstGraph)
  BY AssembledIs DEF FirstGraph

LEMMA NamedKinds ==
  ASSUME NEW s, Shape(s), NEW asked
  PROVE  Shape(Named(s, asked)) /\ SameKinds(Named(s, asked), s)
<1>1. \A n \in Assets : IsNode(s.node[n])
  BY DEF Shape, IsGraph
<1>2. \A m : IsNode(m) => [m EXCEPT !.name = "dns"].kind = m.kind /\ [m EXCEPT !.name = "dns"].family = m.family
  BY PutName, NodeOfIs
<1>3. \A n \in Assets : LET k == Named(s, asked).node[n] IN k.kind = s.node[n].kind /\ k.family = s.node[n].family
  <2>1. \A n \in Assets : Named(s, asked).node[n] = [s.node[n] EXCEPT !.name = "dns"] \/ Named(s, asked).node[n] = s.node[n]
    BY NamedIs
  <2>2. QED
    BY <1>1, <1>2, <2>1, Zenon
<1>4. QED
  BY <1>3, NamedIs DEF SameKinds

LEMMA AppliedKinds ==
  ASSUME NEW s, Shape(s), NEW S, NEW answer
  PROVE  Shape(ApplyAll(s, S, answer)) /\ SameKinds(ApplyAll(s, S, answer), s)
<1>1. \A n \in Assets : IsNode(s.node[n])
  BY DEF Shape, IsGraph
<1>2. \A m : IsNode(m) => \A a : Apply(m, a).kind = m.kind /\ Apply(m, a).family = m.family
  BY ApplyIs, NodeOfIs
<1>3. \A n \in Assets : LET k == ApplyAll(s, S, answer).node[n] IN k.kind = s.node[n].kind /\ k.family = s.node[n].family
  BY <1>1, <1>2, ApplyAllIs
<1>4. QED
  BY <1>3, ApplyAllIs DEF SameKinds

LEMMA KeptKinds ==
  ASSUME NEW s, Shape(s), NEW S, NEW answer
  PROVE  Shape(KeepFindings(s, S, answer)) /\ SameKinds(KeepFindings(s, S, answer), s)
  BY KeepFindingsIs DEF SameKinds

LEMMA QuestionedShape == Shape(Questioned)
<1>1. Shape(Reassembles(FirstGraph))
  BY FirstGraphShape, AssembledIs DEF Reassembles
<1>2. Shape(Answers(Reassembles(FirstGraph)))
  BY <1>1, AnswersIs
<1>3. QED
  BY <1>1, <1>2, FirstGraphShape, RunIs DEF Questioned, SnmpQuestion

LEMMA CalledShape == Shape(Called) /\ SameKinds(Called, Questioned)
  BY QuestionedShape, NamedKinds, RunIs, KindsOfRun DEF Called, NameLookup

LEMMA LookedUpShape == Shape(LookedUp) /\ SameKinds(LookedUp, Questioned)
<1> DEFINE w == LookUpAll(Called)
           k == KeepDevices(w)
<1>1. Shape(w) /\ SameKinds(w, Called)
  BY CalledShape, AppliedKinds DEF LookUpAll
<1>2. Shape(k) /\ SameKinds(k, w)
  BY <1>1, KeptKinds DEF KeepDevices
<1>3. SameKinds(k, Called)
  BY <1>1, <1>2 DEF SameKinds
<1> HIDE DEF w, k
<1>4. Shape(LookedUp) /\ SameKinds(LookedUp, Called)
  BY <1>1, <1>2, <1>3, CalledShape, RunIs, KindsOfRun DEF LookedUp, DevicesStage, w, k
<1>5. QED
  BY <1>4, CalledShape DEF SameKinds

\* Devices looked up one after another are looked up together.
LEMMA ApplyMore ==
  ASSUME NEW s, Shape(s), NEW S, NEW answer, NEW n, n \notin S
  PROVE  ApplyAll(ApplyAll(s, S, answer), {n}, answer) = ApplyAll(s, S \cup {n}, answer)
<1> DEFINE a == ApplyAll(s, S, answer)
           b == ApplyAll(a, {n}, answer)
           c == ApplyAll(s, S \cup {n}, answer)
<1>1. Shape(a) /\ Same(a, s) /\ Quiet(a, s)
        /\ \A m \in Assets : a.node[m] = IF m \in S THEN Apply(s.node[m], answer[m]) ELSE s.node[m]
  BY ApplyAllIs
<1>2. Shape(c) /\ Same(c, s) /\ Quiet(c, s)
        /\ \A m \in Assets : c.node[m] = IF m \in S \cup {n} THEN Apply(s.node[m], answer[m]) ELSE s.node[m]
  BY ApplyAllIs
<1> HIDE DEF a, c
<1>3. Shape(b) /\ Same(b, a) /\ Quiet(b, a)
        /\ \A m \in Assets : b.node[m] = IF m \in {n} THEN Apply(a.node[m], answer[m]) ELSE a.node[m]
  BY <1>1, ApplyAllIs
<1> HIDE DEF b
<1>4. \A m \in Assets : b.node[m] = c.node[m]
  BY <1>1, <1>2, <1>3
<1>5. b.node = c.node
  BY <1>2, <1>3, <1>4, SameFunction DEF Shape, IsGraph
<1>6. b = c
  BY <1>1, <1>2, <1>3, <1>5, SameScan DEF Shape, Same, Quiet
<1>7. QED
  BY <1>6 DEF a, b, c

LEMMA ApplyNone ==
  ASSUME NEW s, Shape(s), NEW answer
  PROVE  ApplyAll(s, {}, answer) = s
<1> DEFINE a == ApplyAll(s, {}, answer)
<1>1. Shape(a) /\ Same(a, s) /\ Quiet(a, s) /\ \A m \in Assets : a.node[m] = s.node[m]
  BY ApplyAllIs
<1> HIDE DEF a
<1>2. a.node = s.node
  BY <1>1, SameFunction DEF Shape, IsGraph
<1>3. a = s
  BY <1>1, <1>2, SameScan DEF Shape, Same, Quiet
<1>4. QED
  BY <1>3 DEF a

-----------------------------------------------------------------------------
\* What the threads have when: the scan is the sequence up to where the main thread is, but for the names, which
\* the thread sets while the main one waits for them, and the devices, looked up one at a time. The hosts nmap
\* scans are taken while others write: no stage beside it changes which they are.

RunsDevices == On("devices") /\ ~Crashes("devices", "early")

NamesThread ==
  \/ names.pc = "asked" /\ On("names") /\ scan = Questioned
  \/ names.pc = "asking" /\ On("names") /\ ~Crashes("names", "early") /\ names.of = Nameless(Questioned) /\ scan = Questioned
  \/ /\ names.pc = "done"
     /\ scan = IF On("names") /\ ~Crashes("names", "early") THEN NameLookup(Questioned) ELSE Questioned

ThreadInv ==
  /\ world \in Worlds
  /\ at \in {"snmp", "names", "devices", "nmap", "vectors", "checklist", "ovss", "paths", "done"}
  /\ at = "snmp" => scan = FirstGraph /\ names = Idle /\ nmap = Idle
  /\ at \in {"snmp", "names"} => looked = {}
  /\ at = "names" => NamesThread
  /\ at \notin {"snmp", "names"} => names.pc = "done"
  /\ at # "snmp" /\ On("nmap") => nmap.pc = "asked" \/ nmap.of = Targets(Questioned)
  /\ at \notin {"snmp", "names", "devices", "nmap"} => nmap.pc = "done"
  /\ at = "devices" => /\ scan = ApplyAll(Called, looked, world.software) /\ looked \subseteq Lookups(Called)
                       /\ ~RunsDevices => looked = {}
  /\ at = "nmap" => scan = LookedUp
  /\ at = "vectors" => scan = Scanned
  /\ at = "checklist" => scan = Weighed
  /\ at = "ovss" => scan = Checked
  /\ at = "paths" => scan = Rated
  /\ at = "done" => scan = Finished

\* A stage crashes before it wrote anything or after all, never both, and the stage named is the one that does.
LEMMA CrashIs ==
  ASSUME world \in Worlds, NEW stage
  PROVE  /\ ~(Crashes(stage, "early") /\ Crashes(stage, "late"))
         /\ stage \in ToSet(Stages) => (world.crash[1] = stage <=> Crashes(stage, "early") \/ Crashes(stage, "late"))
<1>1. world.crash \in ToSet(Stages) \X {"early", "late"} \/ world.crash = <<"none", "never">>
  BY PipelineAssumption
<1>2. "none" \notin ToSet(Stages)
  BY DEF ToSet, Stages
<1>3. QED
  BY <1>1, <1>2 DEF Crashes

LEMMA DevicesIsAStage == "devices" \in ToSet(Stages)
  BY DEF ToSet, Stages

\* What the main thread records is what the stage comes to.
LEMMA RecordedIs ==
  ASSUME world \in Worlds, NEW stage, NEW s
  PROVE  /\ ~On(stage) => \A t, w, k : Recorded(t, stage) = Run(t, world.on, stage, w, k)
         /\ On(stage) /\ Crashes(stage, "early") => \A w, k : Recorded(s, stage) = Run(s, world.on, stage, w, k)
         /\ On(stage) /\ Crashes(stage, "late") => \A t, k : Recorded(s, stage) = Run(t, world.on, stage, s, k)
         /\ On(stage) /\ ~Crashes(stage, "early") /\ ~Crashes(stage, "late") =>
              \A t, w : Recorded(s, stage) = Run(t, world.on, stage, w, s)
  BY CrashIs DEF Recorded, Run, On

\* The rest of a step that moves neither the main thread nor the scan.
Beside == world' = world /\ scan' = scan /\ at' = at /\ looked' = looked

LEMMA ThreadInit == PipelineInit => ThreadInv
  BY DEF PipelineInit, PipelineStarts, ThreadInv, Idle

LEMMA ThreadAsks == ThreadInv /\ AsksHosts => ThreadInv'
<1> SUFFICES ASSUME ThreadInv, AsksHosts PROVE ThreadInv'
  OBVIOUS
<1>1. world' = world /\ at = "snmp" /\ at' = "names" /\ scan' = SnmpQuestion(FirstGraph, world.on) /\ looked' = looked
  BY DEF AsksHosts, ThreadInv
<1>2. names'.pc = (IF On("names") THEN "asked" ELSE "done") /\ nmap'.pc = (IF On("nmap") THEN "asked" ELSE "done")
  BY DEF AsksHosts, Idle
<1>3. Questioned' = Questioned /\ Called' = Called
  BY <1>1, Frozen
<1>4. On("names")' = On("names") /\ On("nmap")' = On("nmap")
  BY <1>1 DEF On
<1>5. NamesThread'
  BY <1>1, <1>2, <1>3, <1>4 DEF NamesThread, Questioned
<1>6. QED
  BY <1>1, <1>2, <1>4, <1>5 DEF ThreadInv

\* A step beside the main thread leaves the scan where it is.
LEMMA ThreadBeside ==
  ASSUME ThreadInv, Beside, at = "names" => NamesThread', at \notin {"snmp", "names"} => names'.pc = "done",
         at = "snmp" => names' = Idle /\ nmap' = Idle,
         at # "snmp" /\ On("nmap") => nmap'.pc = "asked" \/ nmap'.of = Targets(Questioned),
         at \notin {"snmp", "names", "devices", "nmap"} => nmap'.pc = "done"
  PROVE  ThreadInv'
<1>1. world' = world /\ scan' = scan /\ at' = at /\ looked' = looked
  BY DEF Beside
<1>2. Questioned' = Questioned /\ Called' = Called /\ LookedUp' = LookedUp /\ Scanned' = Scanned /\ Weighed' = Weighed
        /\ Checked' = Checked /\ Rated' = Rated /\ Finished' = Finished
  BY <1>1, Frozen
<1>3. FirstGraph' = FirstGraph
  BY <1>1 DEF FirstGraph, Assembled, Node, Entry, Rows, Worst
<1>4. On("nmap")' = On("nmap") /\ RunsDevices' = RunsDevices
  BY <1>1 DEF On, RunsDevices, Crashes
<1>5. /\ world' \in Worlds
      /\ at' \in {"snmp", "names", "devices", "nmap", "vectors", "checklist", "ovss", "paths", "done"}
      /\ at' = "snmp" => scan' = FirstGraph' /\ names' = Idle /\ nmap' = Idle
      /\ at' \in {"snmp", "names"} => looked' = {}
      /\ at' = "names" => NamesThread'
      /\ at' \notin {"snmp", "names"} => names'.pc = "done"
      /\ at' # "snmp" /\ On("nmap")' => nmap'.pc = "asked" \/ nmap'.of = Targets(Questioned')
      /\ at' \notin {"snmp", "names", "devices", "nmap"} => nmap'.pc = "done"
  BY <1>1, <1>2, <1>3, <1>4 DEF ThreadInv
<1>6. at' = "devices" => /\ scan' = ApplyAll(Called', looked', world'.software) /\ looked' \subseteq Lookups(Called')
                         /\ ~RunsDevices' => looked' = {}
  <2>1. at = "devices" => /\ scan = ApplyAll(Called, looked, world.software) /\ looked \subseteq Lookups(Called)
                          /\ ~RunsDevices => looked = {}
    BY DEF ThreadInv
  <2>2. QED
    BY <1>1, <1>2, <1>4, <2>1, Zenon
<1>7. /\ at' = "nmap" => scan' = LookedUp'
      /\ at' = "vectors" => scan' = Scanned'
      /\ at' = "checklist" => scan' = Weighed'
      /\ at' = "ovss" => scan' = Checked'
      /\ at' = "paths" => scan' = Rated'
      /\ at' = "done" => scan' = Finished'
  BY <1>1, <1>2 DEF ThreadInv
<1>8. QED
  BY <1>5, <1>6, <1>7, Zenon DEF ThreadInv, Idle

LEMMA ThreadNamesStart == ThreadInv /\ NamesStart => ThreadInv'
<1> SUFFICES ASSUME ThreadInv, NamesStart PROVE ThreadInv'
  OBVIOUS
<1>1. Beside /\ nmap' = nmap
  BY DEF NamesStart, Beside
<1>2. at = "names" /\ scan = Questioned /\ On("names")
  BY DEF ThreadInv, NamesThread, NamesStart, Idle
<1>3. Questioned' = Questioned /\ On("names")' = On("names") /\ Crashes("names", "early")' = Crashes("names", "early")
  BY <1>1, Frozen DEF Beside, On, Crashes
<1>4. NamesThread'
  BY <1>1, <1>2, <1>3 DEF NamesThread, NamesStart, Beside
<1>5. QED
  BY <1>1, <1>2, <1>4, ThreadBeside DEF ThreadInv

\* No stage beside nmap changes whom it scans.
LEMMA TargetsStay ==
  ASSUME ThreadInv, at \in {"names", "devices", "nmap"}
  PROVE  Targets(scan) = Targets(Questioned)
<1>1. CASE at = "names"
  <2>1. scan = Questioned \/ scan = NameLookup(Questioned)
    BY <1>1 DEF ThreadInv, NamesThread
  <2>2. SameKinds(NameLookup(Questioned), Questioned)
    BY QuestionedShape, NamedKinds DEF NameLookup
  <2>3. QED
    BY <2>1, <2>2, KindsChoose
<1>2. CASE at = "devices"
  <2>1. SameKinds(scan, Called)
    BY <1>2, CalledShape, AppliedKinds DEF ThreadInv
  <2>2. SameKinds(Called, Questioned)
    BY CalledShape
  <2>3. QED
    BY <2>1, <2>2, KindsChoose
<1>3. CASE at = "nmap"
  BY <1>3, LookedUpShape, KindsChoose DEF ThreadInv
<1>4. QED
  BY <1>1, <1>2, <1>3

LEMMA ThreadNmapStart == ThreadInv /\ NmapStart => ThreadInv'
<1> SUFFICES ASSUME ThreadInv, NmapStart PROVE ThreadInv'
  OBVIOUS
<1>1. Beside /\ names' = names /\ nmap'.of = Targets(scan) /\ nmap.pc = "asked"
  BY DEF NmapStart, Beside
<1>2. at \in {"names", "devices", "nmap"}
  BY <1>1 DEF ThreadInv, Idle
<1>3. at = "names" => NamesThread'
  BY <1>1, Frozen DEF ThreadInv, NamesThread, Beside, NameLookup, Named, On, Crashes
<1>4. nmap'.of = Targets(Questioned)
  BY <1>1, <1>2, TargetsStay
<1>5. QED
  BY <1>1, <1>2, <1>3, <1>4, ThreadBeside DEF ThreadInv

LEMMA ThreadNmapEnds == ThreadInv /\ NmapEnds => ThreadInv'
<1> SUFFICES ASSUME ThreadInv, NmapEnds PROVE ThreadInv'
  OBVIOUS
<1>1. Beside /\ names' = names /\ nmap.pc = "scanning" /\ nmap' = [nmap EXCEPT !.pc = "done"]
  BY DEF NmapEnds, Beside
<1>2. at # "snmp" /\ nmap'.of = nmap.of
  BY <1>1 DEF ThreadInv, Idle
<1>3. at = "names" => NamesThread'
  BY <1>1, Frozen DEF ThreadInv, NamesThread, Beside, NameLookup, Named, On, Crashes
<1>4. at \notin {"snmp", "names", "devices", "nmap"} => nmap.pc = "done"
  BY DEF ThreadInv
<1>5. QED
  BY <1>1, <1>2, <1>3, <1>4, ThreadBeside DEF ThreadInv

LEMMA ThreadNamesAnswer == ThreadInv /\ NamesAnswer => ThreadInv'
<1> SUFFICES ASSUME ThreadInv, NamesAnswer PROVE ThreadInv'
  OBVIOUS
<1>1. at = "names" /\ scan = Questioned /\ names.of = Nameless(Questioned) /\ On("names") /\ ~Crashes("names", "early")
  BY DEF ThreadInv, NamesThread, NamesAnswer, Idle
<1>2. world' = world /\ at' = at /\ looked' = looked /\ nmap' = nmap /\ names'.pc = "done" /\ scan' = NameLookup(Questioned)
  BY <1>1 DEF NamesAnswer, NameLookup
<1>3. Questioned' = Questioned /\ NameLookup(Questioned)' = NameLookup(Questioned) /\ On("names")' = On("names")
        /\ Crashes("names", "early")' = Crashes("names", "early") /\ On("nmap")' = On("nmap")
  BY <1>2, Frozen DEF On, Crashes, NameLookup, Named
<1>4. NamesThread'
  BY <1>1, <1>2, <1>3 DEF NamesThread
<1>5. QED
  BY <1>1, <1>2, <1>3, <1>4 DEF ThreadInv

\* A step of the main thread leaves the others as they are.
LEMMA ThreadMain ==
  ASSUME ThreadInv, world' = world, names' = names, nmap' = nmap, looked' = looked, at # "snmp", names.pc = "done",
         at' \in {"devices", "nmap", "vectors", "checklist", "ovss", "paths", "done"},
         at' \notin {"devices", "nmap"} => nmap.pc = "done",
         at' = "devices" => scan' = Called /\ looked = {},
         at' = "nmap" => scan' = LookedUp,
         at' = "vectors" => scan' = Scanned,
         at' = "checklist" => scan' = Weighed,
         at' = "ovss" => scan' = Checked,
         at' = "paths" => scan' = Rated,
         at' = "done" => scan' = Finished
  PROVE  ThreadInv'
<1>1. Questioned' = Questioned /\ Called' = Called /\ LookedUp' = LookedUp /\ Scanned' = Scanned /\ Weighed' = Weighed
        /\ Checked' = Checked /\ Rated' = Rated /\ Finished' = Finished
  BY Frozen
<1>2. On("nmap")' = On("nmap")
  BY DEF On
<1>3. at' = "devices" => /\ scan' = ApplyAll(Called', looked', world'.software) /\ looked' \subseteq Lookups(Called')
                         /\ ~RunsDevices' => looked' = {}
  <2>1. ApplyAll(Called, {}, world.software) = Called
    BY CalledShape, ApplyNone
  <2>2. QED
    BY <1>1, <2>1
<1>4. at' # "snmp" /\ On("nmap")' => nmap'.pc = "asked" \/ nmap'.of = Targets(Questioned')
  BY <1>1, <1>2 DEF ThreadInv
<1>5. world' \in Worlds
  BY DEF ThreadInv
<1>6. QED
  BY <1>1, <1>3, <1>4, <1>5 DEF ThreadInv

LEMMA ThreadRecordsNames == ThreadInv /\ RecordsNames => ThreadInv'
<1> SUFFICES ASSUME ThreadInv, RecordsNames PROVE ThreadInv'
  OBVIOUS
<1>1. at = "names" /\ names.pc = "done" /\ at' = "devices" /\ scan' = Recorded(scan, "names") /\ looked = {} /\ world \in Worlds
        /\ world' = world /\ names' = names /\ nmap' = nmap /\ looked' = looked
  BY DEF RecordsNames, ThreadInv
<1>2. scan = IF On("names") /\ ~Crashes("names", "early") THEN NameLookup(Questioned) ELSE Questioned
  BY <1>1 DEF ThreadInv, NamesThread
<1>3. Recorded(scan, "names") = Called
  <2>1. CASE ~On("names")
    BY <1>1, <1>2, <2>1, RecordedIs DEF Called
  <2>2. CASE On("names") /\ Crashes("names", "early")
    BY <1>1, <1>2, <2>2, RecordedIs DEF Called
  <2>3. CASE On("names") /\ Crashes("names", "late")
    BY <1>1, <1>2, <2>3, RecordedIs, CrashIs DEF Called
  <2>4. CASE On("names") /\ ~Crashes("names", "early") /\ ~Crashes("names", "late")
    BY <1>1, <1>2, <2>4, RecordedIs DEF Called
  <2>5. QED
    BY <2>1, <2>2, <2>3, <2>4
<1>4. QED
  BY <1>1, <1>3, ThreadMain

LEMMA ThreadLooksUp == ThreadInv /\ LooksUpDevice => ThreadInv'
<1> SUFFICES ASSUME ThreadInv, LooksUpDevice PROVE ThreadInv'
  OBVIOUS
<1>1. at = "devices" /\ RunsDevices /\ world' = world /\ at' = at /\ names' = names /\ nmap' = nmap
  BY DEF LooksUpDevice, RunsDevices
<1>2. scan = ApplyAll(Called, looked, world.software) /\ looked \subseteq Lookups(Called)
  BY <1>1 DEF ThreadInv
<1>3. PICK n \in Lookups(scan) \ looked : scan' = ApplyAll(scan, {n}, world.software) /\ looked' = looked \cup {n}
  BY DEF LooksUpDevice
<1>4. n \in Lookups(Called)
  <2>1. SameKinds(scan, Called)
    BY <1>2, CalledShape, AppliedKinds
  <2>2. QED
    BY <1>3, <2>1, KindsChoose
<1>5. scan' = ApplyAll(Called, looked', world.software)
  BY <1>2, <1>3, CalledShape, ApplyMore
<1>6. Called' = Called /\ Questioned' = Questioned /\ On("nmap")' = On("nmap") /\ RunsDevices' = RunsDevices
  BY <1>1, Frozen DEF On, RunsDevices, Crashes
<1>7. scan' = ApplyAll(Called', looked', world'.software) /\ looked' \subseteq Lookups(Called')
  BY <1>1, <1>2, <1>3, <1>4, <1>5, <1>6
<1>8. QED
  BY <1>1, <1>6, <1>7 DEF ThreadInv

LEMMA ThreadEndsDevices == ThreadInv /\ EndsDevices => ThreadInv'
<1> SUFFICES ASSUME ThreadInv, EndsDevices PROVE ThreadInv'
  OBVIOUS
<1>1. at = "devices" /\ at' = "nmap" /\ world \in Worlds /\ names.pc = "done"
        /\ world' = world /\ names' = names /\ nmap' = nmap /\ looked' = looked
  BY DEF EndsDevices, ThreadInv
<1>2. /\ scan = ApplyAll(Called, looked, world.software) /\ looked \subseteq Lookups(Called)
      /\ ~RunsDevices => looked = {}
      /\ RunsDevices => Lookups(scan) \subseteq looked
  BY <1>1 DEF ThreadInv, EndsDevices, RunsDevices
<1>3. Lookups(scan) = Lookups(Called)
  BY <1>2, CalledShape, AppliedKinds, KindsChoose
<1>4. scan = IF RunsDevices THEN LookUpAll(Called) ELSE Called
  <2>1. CASE RunsDevices
    BY <1>2, <1>3, <2>1 DEF LookUpAll
  <2>2. CASE ~RunsDevices
    BY <1>2, <2>2, CalledShape, ApplyNone
  <2>3. QED
    BY <2>1, <2>2
<1>5. scan' = Recorded(IF On("devices") /\ world.crash[1] # "devices" THEN KeepDevices(scan) ELSE scan, "devices")
  BY DEF EndsDevices
<1>6. world.crash[1] = "devices" <=> Crashes("devices", "early") \/ Crashes("devices", "late")
  BY <1>1, CrashIs, DevicesIsAStage
<1>7. scan' = LookedUp
  <2> DEFINE w == LookUpAll(Called)
             k == KeepDevices(w)
  <2>1. LookedUp = Run(Called, world.on, "devices", w, k)
    BY Zenon DEF LookedUp, DevicesStage
  <2> HIDE DEF k
  <2>2. CASE ~On("devices")
    <3>1. scan' = Recorded(Called, "devices")
      BY <1>4, <1>5, <2>2 DEF RunsDevices
    <3>2. QED
      BY <1>1, <2>1, <2>2, <3>1, RecordedIs
  <2>3. CASE On("devices") /\ Crashes("devices", "early")
    <3>1. scan' = Recorded(Called, "devices")
      BY <1>4, <1>5, <1>6, <2>3 DEF RunsDevices
    <3>2. QED
      BY <1>1, <2>1, <2>3, <3>1, RecordedIs
  <2>4. CASE On("devices") /\ Crashes("devices", "late")
    <3>1. scan' = Recorded(w, "devices")
      BY <1>1, <1>4, <1>5, <1>6, <2>4, CrashIs DEF RunsDevices
    <3>2. QED
      BY <1>1, <2>1, <2>4, <3>1, RecordedIs
  <2>5. CASE On("devices") /\ ~Crashes("devices", "early") /\ ~Crashes("devices", "late")
    <3>1. scan' = Recorded(k, "devices")
      BY <1>4, <1>5, <1>6, <2>5 DEF RunsDevices, k
    <3>2. QED
      BY <1>1, <2>1, <2>5, <3>1, RecordedIs
  <2>6. QED
    BY <2>2, <2>3, <2>4, <2>5
<1>8. QED
  BY <1>1, <1>7, ThreadMain

LEMMA ThreadAppliesNmap == ThreadInv /\ AppliesNmap => ThreadInv'
<1> SUFFICES ASSUME ThreadInv, AppliesNmap PROVE ThreadInv'
  OBVIOUS
<1>1. at = "nmap" /\ nmap.pc = "done" /\ at' = "vectors" /\ scan = LookedUp /\ scan' = NmapStage(LookedUp, world.on, nmap.of)
        /\ names.pc = "done" /\ world' = world /\ names' = names /\ nmap' = nmap /\ looked' = looked
  BY DEF AppliesNmap, ThreadInv
<1>2. scan' = Scanned
  <2>1. CASE On("nmap")
    <3>1. nmap.of = Targets(Questioned)
      BY <1>1, <2>1 DEF ThreadInv
    <3>2. QED
      BY <1>1, <3>1, LookedUpShape, KindsChoose DEF Scanned
  <2>2. CASE ~On("nmap")
    BY <1>1, <2>2 DEF Scanned, NmapStage, Run, On
  <2>3. QED
    BY <2>1, <2>2
<1>3. QED
  BY <1>1, <1>2, ThreadMain

LEMMA ThreadRunsLast == ThreadInv /\ (RunsVectors \/ RunsChecklist \/ RunsOvss \/ RunsPaths) => ThreadInv'
<1> SUFFICES ASSUME ThreadInv, RunsVectors \/ RunsChecklist \/ RunsOvss \/ RunsPaths PROVE ThreadInv'
  OBVIOUS
<1>1. at \in {"vectors", "checklist", "ovss", "paths"} /\ names.pc = "done" /\ nmap.pc = "done"
        /\ world' = world /\ names' = names /\ nmap' = nmap /\ looked' = looked
  BY DEF RunsVectors, RunsChecklist, RunsOvss, RunsPaths, ThreadInv
<1>2. \/ at' = "checklist" /\ scan' = Weighed
      \/ at' = "ovss" /\ scan' = Checked
      \/ at' = "paths" /\ scan' = Rated
      \/ at' = "done" /\ scan' = Finished
  BY DEF RunsVectors, RunsChecklist, RunsOvss, RunsPaths, ThreadInv, Weighed, Checked, Rated, Finished
<1>3. QED
  BY <1>1, <1>2, ThreadMain

LEMMA ThreadStutters == ThreadInv /\ UNCHANGED pipelineVars => ThreadInv'
<1> SUFFICES ASSUME ThreadInv, UNCHANGED pipelineVars PROVE ThreadInv'
  OBVIOUS
<1>1. Beside /\ names' = names /\ nmap' = nmap
  BY DEF pipelineVars, Beside
<1>2. at = "names" => NamesThread'
  BY <1>1, Frozen DEF ThreadInv, NamesThread, Beside, NameLookup, Named, On, Crashes
<1>3. QED
  BY <1>1, <1>2, ThreadBeside DEF ThreadInv

\* Whatever the threads interleave, the scan is the sequence of its stages up to where the main thread is.
THEOREM ScanIsItsStages == PipelineSpec => []ThreadInv
<1>1. ThreadInv /\ [PipelineNext]_pipelineVars => ThreadInv'
  BY ThreadAsks, ThreadNamesStart, ThreadNamesAnswer, ThreadNmapStart, ThreadNmapEnds, ThreadRecordsNames, ThreadLooksUp,
     ThreadEndsDevices, ThreadAppliesNmap, ThreadRunsLast, ThreadStutters DEF PipelineNext
<1>2. QED
  BY <1>1, ThreadInit, PTL DEF PipelineSpec

\* pipeline.py:501-507, "the outputs are the same either way".
THEOREM ThreadsChangeNothing == PipelineSpec => []ConcurrentIsSequential
<1>1. ThreadInv => ConcurrentIsSequential
  BY FinishedIsSequential DEF ThreadInv, ConcurrentIsSequential, Ended
<1>2. QED
  BY <1>1, ScanIsItsStages, PTL

-----------------------------------------------------------------------------
\* The lines of the stages: one for each so far, in order, and a warning for each that failed.

Statuses == {"skipped", "failed", "ran"}
StageNames == {"snmp", "names", "devices", "nmap", "vectors", "checklist", "ovss", "paths"}
FailedLines(lines) == {lines[i][1] : i \in {j \in DOMAIN lines : lines[j][2] = "failed"}}
Noted(s, k) ==
  /\ s.lines \in Seq(StageNames \X Statuses) /\ Len(s.lines) = k
  /\ \A i \in 1..k : s.lines[i][1] = Stages[i]
  /\ \A x : x \in s.warnings /\ x # "crawl_empty" <=> \E i \in 1..k : s.lines[i] = <<x, "failed">>

LEMMA QuietNotes ==
  ASSUME NEW s, NEW t, NEW k, Noted(s, k), Quiet(t, s)
  PROVE  Noted(t, k)
  BY DEF Noted, Quiet

LEMMA LineNotes ==
  ASSUME NEW k \in 0..7, NEW s, NEW t, Noted(s, k), NEW status \in Statuses,
         t.lines = Append(s.lines, <<Stages[k + 1], status>>),
         t.warnings = IF status = "failed" THEN s.warnings \cup {Stages[k + 1]} ELSE s.warnings
  PROVE  Noted(t, k + 1)
<1> DEFINE stage == Stages[k + 1]
           l == <<stage, status>>
<1>1. stage \in StageNames /\ stage # "crawl_empty"
  BY DEF Stages, StageNames
<1> HIDE DEF stage
<1>2. l \in StageNames \X Statuses /\ l[1] = stage /\ l[2] = status
  BY <1>1
<1>3. \A x : l = <<x, "failed">> <=> x = stage /\ status = "failed"
  OBVIOUS
<1>4. s.lines \in Seq(StageNames \X Statuses) /\ Len(s.lines) = k /\ k \in Nat
  BY DEF Noted
<1> HIDE DEF l
<1>5. t.lines = Append(s.lines, l)
  BY DEF l, stage
<1>6. /\ t.lines \in Seq(StageNames \X Statuses) /\ Len(t.lines) = k + 1
      /\ \A i \in 1..k : t.lines[i] = s.lines[i]
      /\ t.lines[k + 1] = l
  BY <1>2, <1>4, <1>5
<1>7. \A i \in 1..(k + 1) : i \in 1..k \/ i = k + 1
  BY <1>4
<1>8. \A i \in 1..(k + 1) : t.lines[i][1] = Stages[i]
  BY <1>2, <1>6, <1>7 DEF Noted, stage
<1>9. t.warnings = IF status = "failed" THEN s.warnings \cup {stage} ELSE s.warnings
  BY DEF stage
<1>10. ASSUME NEW x
       PROVE  x \in t.warnings /\ x # "crawl_empty" <=> \E i \in 1..(k + 1) : t.lines[i] = <<x, "failed">>
  <2>1. (\E i \in 1..(k + 1) : t.lines[i] = <<x, "failed">>)
          <=> (\E i \in 1..k : s.lines[i] = <<x, "failed">>) \/ l = <<x, "failed">>
    <3> DEFINE y == <<x, "failed">>
    <3> HIDE DEF y
    <3>1. ASSUME NEW i \in 1..(k + 1), t.lines[i] = y PROVE (\E j \in 1..k : s.lines[j] = y) \/ l = y
      BY <1>6, <1>7, <3>1
    <3>2. ASSUME NEW i \in 1..k, s.lines[i] = y PROVE \E j \in 1..(k + 1) : t.lines[j] = y
      <4>1. i \in 1..(k + 1) /\ t.lines[i] = y
        BY <1>4, <1>6, <3>2
      <4>2. QED
        BY <4>1
    <3>3. ASSUME l = y PROVE \E j \in 1..(k + 1) : t.lines[j] = y
      <4>1. k + 1 \in 1..(k + 1) /\ t.lines[k + 1] = y
        BY <1>4, <1>6, <3>3
      <4>2. QED
        BY <4>1
    <3>4. (\E i \in 1..(k + 1) : t.lines[i] = y) <=> (\E i \in 1..k : s.lines[i] = y) \/ l = y
      BY <3>1, <3>2, <3>3
    <3>5. QED
      BY <3>4 DEF y
  <2>2. (\E i \in 1..k : s.lines[i] = <<x, "failed">>) <=> (x \in s.warnings /\ x # "crawl_empty")
    BY DEF Noted
  <2>3. QED
    BY <1>1, <1>3, <1>9, <2>1, <2>2
<1>11. QED
  BY <1>6, <1>8, <1>10 DEF Noted

LEMMA RunNotes ==
  ASSUME NEW k \in 0..7, NEW s, Shape(s), Noted(s, k), NEW w, Shape(w), Noted(w, k), NEW e, Shape(e), Noted(e, k),
         NEW on, NEW stage, stage = Stages[k + 1]
  PROVE  Noted(Run(s, on, stage, w, e), k + 1)
<1> DEFINE r == Run(s, on, stage, w, e)
<1>1. \E t \in {s, w, e}, status \in Statuses :
         /\ r.lines = Append(t.lines, <<stage, status>>)
         /\ r.warnings = IF status = "failed" THEN t.warnings \cup {stage} ELSE t.warnings
  <2>1. \/ r = Line(s, stage, "skipped") \/ r = Failed(s, stage) \/ r = Failed(w, stage) \/ r = Line(e, stage, "ran")
    BY Zenon DEF Run
  <2>2. \A t \in {s, w, e}, status \in Statuses :
          /\ Line(t, stage, status).lines = Append(t.lines, <<stage, status>>)
          /\ Line(t, stage, status).warnings = t.warnings
    BY LineIs
  <2>3. \A t \in {s, w, e} : /\ Failed(t, stage).lines = Append(t.lines, <<stage, "failed">>)
                             /\ Failed(t, stage).warnings = t.warnings \cup {stage}
    BY FailedIs
  <2> HIDE DEF r
  <2>4. QED
    BY <2>1, <2>2, <2>3 DEF Statuses
<1> HIDE DEF r
<1>2. QED
  BY <1>1, LineNotes DEF r

\* What each stage writes is as quiet as it is shaped.
LEMMA StageShapes ==
  /\ Shape(Scanned) /\ Shape(Weighed) /\ Shape(Checked) /\ Shape(Rated) /\ Shape(Finished)
  /\ Noted(Questioned, 1) /\ Noted(Called, 2) /\ Noted(LookedUp, 3) /\ Noted(Scanned, 4) /\ Noted(Weighed, 5)
  /\ Noted(Checked, 6) /\ Noted(Rated, 7) /\ Noted(Finished, 8)
<1>1. Stages[1] = "snmp" /\ Stages[2] = "names" /\ Stages[3] = "devices" /\ Stages[4] = "nmap" /\ Stages[5] = "vectors"
        /\ Stages[6] = "checklist" /\ Stages[7] = "ovss" /\ Stages[8] = "paths"
  BY DEF Stages
<1>2. Noted(Questioned, 1)
  <2> DEFINE w == Reassembles(FirstGraph)
             e == Answers(w)
  <2>2. FirstGraph.lines = << >> /\ FirstGraph.warnings \subseteq {"crawl_empty"}
    <3> DEFINE c == IF world.crawlEmpty THEN {"crawl_empty"} ELSE {}
    <3>1. c \subseteq {"crawl_empty"}
      OBVIOUS
    <3>2. FirstGraph = Assembled(Switches, TRUE, c)
      BY DEF FirstGraph
    <3> HIDE DEF c
    <3>3. FirstGraph.lines = << >> /\ FirstGraph.warnings = c
      BY <3>2 DEF Assembled
    <3>4. QED
      BY <3>1, <3>3
  <2>1. Shape(w) /\ w.lines = << >> /\ w.warnings \subseteq {"crawl_empty"}
    <3>1. CASE Forwarding = {}
      BY <2>2, <3>1, FirstGraphShape DEF Reassembles
    <3>2. CASE Forwarding # {}
      <4> DEFINE d == Switches \cup Forwarding
      <4>1. w = Assembled(d, FALSE, {})
        BY <3>2 DEF Reassembles
      <4> HIDE DEF d, w
      <4>2. Shape(w)
        BY <4>1, AssembledIs, Zenon
      <4>3. w.lines = << >> /\ w.warnings = {}
        BY <4>1 DEF Assembled
      <4>4. QED
        BY <4>2, <4>3
    <3>3. QED
      BY <3>1, <3>2
  <2>3. << >> \in Seq(StageNames \X Statuses) /\ Len(<< >>) = 0
    OBVIOUS
  <2>4. Noted(FirstGraph, 0)
    BY <2>2, <2>3 DEF Noted
  <2> HIDE DEF w
  <2>5. Noted(w, 0)
    BY <2>1, <2>3 DEF Noted
  <2>6. Shape(e) /\ Quiet(e, w)
    BY <2>1, AnswersIs
  <2> HIDE DEF e
  <2>7. Noted(e, 0)
    BY <2>5, <2>6, QuietNotes
  <2>8. Questioned = Run(FirstGraph, world.on, "snmp", w, e)
    BY Zenon DEF Questioned, SnmpQuestion, w, e
  <2>9. Noted(Questioned, 0 + 1)
    BY <1>1, <2>1, <2>4, <2>5, <2>6, <2>7, <2>8, FirstGraphShape, RunNotes
  <2>10. QED
    BY <2>9
<1>3. Noted(Called, 2)
  <2> DEFINE w == NameLookup(Questioned)
  <2>1. Shape(w) /\ Quiet(w, Questioned)
    BY QuestionedShape, NamedIs DEF NameLookup
  <2>2. Called = Run(Questioned, world.on, "names", w, w)
    BY DEF Called
  <2> HIDE DEF w
  <2>3. Noted(Called, 1 + 1)
    BY <1>1, <1>2, <2>1, <2>2, QuestionedShape, QuietNotes, RunNotes
  <2>4. QED
    BY <2>3
<1>4. Noted(LookedUp, 3)
  <2> DEFINE w == LookUpAll(Called)
             e == KeepDevices(w)
  <2>1. Shape(w) /\ Quiet(w, Called)
    BY CalledShape, ApplyAllIs DEF LookUpAll
  <2> HIDE DEF w
  <2>2. Shape(e) /\ Quiet(e, w)
    BY <2>1, KeepFindingsIs DEF KeepDevices
  <2>3. LookedUp = Run(Called, world.on, "devices", w, e)
    BY Zenon DEF LookedUp, DevicesStage, w
  <2> HIDE DEF e
  <2>4. Noted(w, 2) /\ Noted(e, 2)
    BY <1>3, <2>1, <2>2, QuietNotes
  <2>5. Noted(LookedUp, 2 + 1)
    BY <1>1, <1>3, <2>1, <2>2, <2>3, <2>4, CalledShape, RunNotes
  <2>6. QED
    BY <2>5
<1>5. Shape(Scanned) /\ Noted(Scanned, 4)
  <2> DEFINE S == Targets(LookedUp)
             v == SeenBy(LookedUp, S)
             w == ApplyScans(LookedUp, S)
             e == KeepServices(w, S)
  <2>1. Shape(v) /\ Quiet(v, LookedUp)
    BY LookedUpShape, SeenByIs
  <2>2. w = ApplyAll(v, Versioned(S), world.services)
    BY Zenon DEF ApplyScans
  <2> HIDE DEF v, w
  <2>3. Shape(w) /\ Quiet(w, v)
    BY <2>1, <2>2, ApplyAllIs
  <2>4. Shape(e) /\ Quiet(e, w)
    BY <2>3, KeepFindingsIs DEF KeepServices
  <2>5. Scanned = Run(LookedUp, world.on, "nmap", w, e)
    BY Zenon DEF Scanned, NmapStage, w
  <2> HIDE DEF e
  <2>6. Noted(w, 3) /\ Noted(e, 3)
    BY <1>4, <2>1, <2>3, <2>4, QuietNotes
  <2>7. Noted(Scanned, 3 + 1)
    BY <1>1, <1>4, <2>3, <2>4, <2>5, <2>6, LookedUpShape, RunNotes
  <2>8. QED
    BY <2>3, <2>4, <2>5, <2>7, LookedUpShape, RunIs
<1>6. Shape(Weighed) /\ Noted(Weighed, 5)
  <2> DEFINE w == Vectors(Scanned)
  <2>1. Shape(w) /\ Quiet(w, Scanned)
    BY <1>5, VectorsIs
  <2>2. Weighed = Run(Scanned, world.on, "vectors", w, w)
    BY DEF Weighed, VectorsStage
  <2> HIDE DEF w
  <2>3. Noted(Weighed, 4 + 1)
    BY <1>1, <1>5, <2>1, <2>2, QuietNotes, RunNotes
  <2>4. QED
    BY <1>5, <2>1, <2>2, <2>3, RunIs
<1>7. Shape(Checked) /\ Noted(Checked, 6)
  <2>1. Checked = Run(Weighed, world.on, "checklist", Weighed, Weighed)
    BY DEF Checked, ChecklistStage
  <2>2. Noted(Checked, 5 + 1)
    BY <1>1, <1>6, <2>1, RunNotes
  <2>3. QED
    BY <1>6, <2>1, <2>2, RunIs
<1>8. Shape(Rated) /\ Noted(Rated, 7)
  <2> DEFINE w == Scored(Checked)
             e == BuildsEngine(w)
             on == world.on \cup {"ovss"}
  <2>1. Shape(w) /\ Quiet(w, Checked)
    BY <1>7, ScoredIs
  <2>2. Rated = Run(Checked, on, "ovss", w, e)
    BY Zenon DEF Rated, OvssStage
  <2> HIDE DEF w
  <2>3. Shape(e) /\ Quiet(e, w)
    BY <2>1, BuildsEngineIs
  <2> HIDE DEF e, on
  <2>4. Noted(w, 6) /\ Noted(e, 6)
    BY <1>7, <2>1, <2>3, QuietNotes
  <2>5. Noted(Rated, 6 + 1)
    BY <1>1, <1>7, <2>1, <2>2, <2>3, <2>4, RunNotes
  <2>6. QED
    BY <1>7, <2>1, <2>2, <2>3, <2>5, RunIs
<1>9. Shape(Finished) /\ Noted(Finished, 8)
  <2> DEFINE on == PathsOn(Rated, world.on)
  <2>1. Finished = Run(Rated, on, "paths", Rated, Rated)
    BY DEF Finished, PathsStage
  <2> HIDE DEF on
  <2>2. Noted(Finished, 7 + 1)
    BY <1>1, <1>8, <2>1, RunNotes
  <2>3. QED
    BY <1>8, <2>1, <2>2, RunIs
<1>10. QED
  BY <1>2, <1>3, <1>4, <1>5, <1>6, <1>7, <1>8, <1>9

\* How a scan ends is told by its lines and warnings.
LEMMA NotedTells ==
  ASSUME NEW s, Noted(s, 8)
  PROVE  /\ {s.lines[i][1] : i \in {j \in DOMAIN s.lines : s.lines[j][2] = "failed"}} = s.warnings \ {"crawl_empty"}
         /\ [i \in DOMAIN s.lines |-> s.lines[i][1]] = Stages
<1>1. /\ s.lines \in Seq(StageNames \X Statuses) /\ DOMAIN s.lines = 1..8
      /\ \A i \in 1..8 : s.lines[i] \in StageNames \X Statuses
  BY DEF Noted
<1>2. ASSUME NEW x
      PROVE  x \in s.warnings /\ x # "crawl_empty" <=> \E i \in 1..8 : s.lines[i][1] = x /\ s.lines[i][2] = "failed"
  <2>1. \A l \in StageNames \X Statuses : l = <<x, "failed">> <=> l[1] = x /\ l[2] = "failed"
    OBVIOUS
  <2>2. \A i \in 1..8 : s.lines[i] = <<x, "failed">> <=> s.lines[i][1] = x /\ s.lines[i][2] = "failed"
    BY <1>1, <2>1, Zenon
  <2>3. x \in s.warnings /\ x # "crawl_empty" <=> \E i \in 1..8 : s.lines[i] = <<x, "failed">>
    BY Zenon DEF Noted
  <2>4. (\E i \in 1..8 : s.lines[i] = <<x, "failed">>) <=> (\E i \in 1..8 : s.lines[i][1] = x /\ s.lines[i][2] = "failed")
    BY <2>2, Zenon
  <2>5. QED
    BY <2>3, <2>4, Zenon
<1>3. ASSUME NEW x
      PROVE  x \in FailedLines(s.lines) <=> x \in s.warnings \ {"crawl_empty"}
  <2>1. x \in FailedLines(s.lines) <=> \E i \in 1..8 : s.lines[i][1] = x /\ s.lines[i][2] = "failed"
    <3>1. x \in FailedLines(s.lines) <=> \E i \in DOMAIN s.lines : s.lines[i][1] = x /\ s.lines[i][2] = "failed"
      BY DEF FailedLines
    <3>2. \A i : i \in DOMAIN s.lines <=> i \in 1..8
      BY <1>1, Zenon
    <3>3. QED
      BY <3>1, <3>2, Zenon
  <2>2. x \in s.warnings \ {"crawl_empty"} <=> x \in s.warnings /\ x # "crawl_empty"
    OBVIOUS
  <2>3. QED
    BY <1>2, <2>1, <2>2, Zenon
<1>4. {s.lines[i][1] : i \in {j \in DOMAIN s.lines : s.lines[j][2] = "failed"}} = s.warnings \ {"crawl_empty"}
  BY <1>3, Zenon DEF FailedLines
<1>5. \A i \in 1..8 : s.lines[i][1] = Stages[i]
  BY DEF Noted
<1>6. Stages = [i \in 1..8 |-> Stages[i]]
  BY DEF Stages
<1>7. QED
  BY <1>1, <1>4, <1>5, <1>6

-----------------------------------------------------------------------------
\* Two scans with the same graph, findings and scores have them after every stage, if it is on for both or off
\* for both, or crashes before it wrote anything, which is as if it were off.

Alike(s, t) == Shape(s) /\ Shape(t) /\ s.node = t.node /\ Same(s, t)

LEMMA RunAlike ==
  ASSUME NEW s, NEW t, Alike(s, t), NEW v, NEW w, Alike(v, w), NEW e, NEW f, Alike(e, f), NEW on, NEW other, NEW stage,
         (stage \in on <=> stage \in other) \/ Crashes(stage, "early")
  PROVE  Alike(Run(s, on, stage, v, e), Run(t, other, stage, w, f))
<1>1. \A a, b : Alike(a, b) => Alike(Failed(a, stage), Failed(b, stage))
  BY FailedIs DEF Alike, Same
<1>2. \A a, b, x, y : Alike(a, b) => Alike(Line(a, stage, x), Line(b, stage, y))
  BY LineIs DEF Alike, Same
<1>3. \A a, b, x : Alike(a, b) => Alike(Failed(a, stage), Line(b, stage, x)) /\ Alike(Line(a, stage, x), Failed(b, stage))
  BY LineIs, FailedIs DEF Alike, Same
<1>4. QED
  BY <1>1, <1>2, <1>3 DEF Run

LEMMA ApplyAlike ==
  ASSUME NEW s, NEW t, Alike(s, t), NEW S, NEW answer
  PROVE  Alike(ApplyAll(s, S, answer), ApplyAll(t, S, answer))
<1> DEFINE a == ApplyAll(s, S, answer)
           b == ApplyAll(t, S, answer)
<1>1. Shape(a) /\ Same(a, s) /\ \A n \in Assets : a.node[n] = IF n \in S THEN Apply(s.node[n], answer[n]) ELSE s.node[n]
  BY ApplyAllIs DEF Alike
<1>2. Shape(b) /\ Same(b, t) /\ \A n \in Assets : b.node[n] = IF n \in S THEN Apply(t.node[n], answer[n]) ELSE t.node[n]
  BY ApplyAllIs DEF Alike
<1> HIDE DEF a, b
<1>3. \A n \in Assets : a.node[n] = b.node[n]
  BY <1>1, <1>2 DEF Alike
<1>4. a.node = b.node
  BY <1>1, <1>2, <1>3, SameFunction DEF Shape, IsGraph
<1>5. Alike(a, b)
  BY <1>1, <1>2, <1>4 DEF Alike, Same
<1>6. QED
  BY <1>5 DEF a, b

LEMMA KeepAlike ==
  ASSUME NEW s, NEW t, Alike(s, t), NEW S, NEW answer
  PROVE  Alike(KeepFindings(s, S, answer), KeepFindings(t, S, answer))
<1> DEFINE a == KeepFindings(s, S, answer)
           b == KeepFindings(t, S, answer)
           c == UNION {Rows(answer[n]).rows : n \in S}
<1>1. /\ Shape(a) /\ a.node = s.node /\ a.scored = s.scored /\ a.engine = s.engine /\ a.lost = s.lost
      /\ \A n \in Assets : a.entry[n] = IF n \in S THEN EntryOf(s, answer, n) ELSE s.entry[n]
      /\ a.cves = s.cves \cup c
  BY KeepFindingsIs DEF Alike
<1>2. /\ Shape(b) /\ b.node = t.node /\ b.scored = t.scored /\ b.engine = t.engine /\ b.lost = t.lost
      /\ \A n \in Assets : b.entry[n] = IF n \in S THEN EntryOf(t, answer, n) ELSE t.entry[n]
      /\ b.cves = t.cves \cup c
  BY KeepFindingsIs DEF Alike
<1> HIDE DEF a, b, c
<1>3. \A n \in Assets : EntryOf(s, answer, n) = EntryOf(t, answer, n) /\ s.entry[n] = t.entry[n]
  BY DEF EntryOf, Alike, Same
<1>4. a.entry = b.entry
  <2>1. \A n \in Assets : a.entry[n] = b.entry[n]
    BY <1>1, <1>2, <1>3
  <2>2. QED
    BY <1>1, <1>2, <2>1, SameFunction DEF Shape, IsEntries
<1>5. Alike(a, b)
  BY <1>1, <1>2, <1>4 DEF Alike, Same
<1>6. QED
  BY <1>5 DEF a, b

LEMMA NamesAlike ==
  ASSUME NEW s, NEW t, Alike(s, t)
  PROVE  Alike(NameLookup(s), NameLookup(t))
<1> DEFINE S == Nameless(s)
           a == Named(s, S)
           b == Named(t, S)
<1>1. Nameless(t) = S
  BY DEF Nameless, Alike
<1> HIDE DEF S
<1>2. Shape(a) /\ Same(a, s) /\ \A n \in Assets : a.node[n] = IF n \in S \cap world.dns THEN [s.node[n] EXCEPT !.name = "dns"] ELSE s.node[n]
  BY NamedIs DEF Alike
<1>3. Shape(b) /\ Same(b, t) /\ \A n \in Assets : b.node[n] = IF n \in S \cap world.dns THEN [t.node[n] EXCEPT !.name = "dns"] ELSE t.node[n]
  BY NamedIs DEF Alike
<1> HIDE DEF a, b
<1>4. \A n \in Assets : a.node[n] = b.node[n]
  BY <1>2, <1>3 DEF Alike
<1>5. a.node = b.node
  BY <1>2, <1>3, <1>4, SameFunction DEF Shape, IsGraph
<1>6. Alike(a, b)
  BY <1>2, <1>3, <1>5 DEF Alike, Same
<1>7. QED
  BY <1>1, <1>6 DEF a, b, S, NameLookup

LEMMA SeenAlike ==
  ASSUME NEW s, NEW t, Alike(s, t), NEW S
  PROVE  Alike(SeenBy(s, S), SeenBy(t, S))
<1> DEFINE a == SeenBy(s, S)
           b == SeenBy(t, S)
<1>1. Shape(a) /\ Same(a, s) /\ \A n \in Assets : a.node[n] = IF n \in Answering(S) THEN Seen(s.node[n], n) ELSE s.node[n]
  BY SeenByIs DEF Alike
<1>2. Shape(b) /\ Same(b, t) /\ \A n \in Assets : b.node[n] = IF n \in Answering(S) THEN Seen(t.node[n], n) ELSE t.node[n]
  BY SeenByIs DEF Alike
<1> HIDE DEF a, b
<1>3. \A n \in Assets : a.node[n] = b.node[n]
  BY <1>1, <1>2, Zenon DEF Alike
<1>4. a.node = b.node
  BY <1>1, <1>2, <1>3, SameFunction DEF Shape, IsGraph
<1>5. Alike(a, b)
  BY <1>1, <1>2, <1>4 DEF Alike, Same
<1>6. QED
  BY <1>5 DEF a, b

LEMMA ListableAlike ==
  ASSUME NEW s, NEW t, Alike(s, t), NEW n
  PROVE  Listable(s, n) = Listable(t, n) /\ Reached(s, n) = Reached(t, n)
<1>1. Listable(s, n) = Listable(t, n)
  BY Zenon DEF Listable, Alike, Same
<1>2. Reached(s, n) = Reached(t, n)
  BY <1>1 DEF Reached, Alike, Same
<1>3. QED
  BY <1>1, <1>2

LEMMA VectorsAlike ==
  ASSUME NEW s, NEW t, Alike(s, t)
  PROVE  Alike(Vectors(s), Vectors(t))
<1> DEFINE a == Vectors(s)
           b == Vectors(t)
<1>1. Shape(a) /\ Same(a, s) /\ \A n \in Assets : a.node[n] = [s.node[n] EXCEPT !.reachable = Reached(s, n)]
  BY VectorsIs DEF Alike
<1>2. Shape(b) /\ Same(b, t) /\ \A n \in Assets : b.node[n] = [t.node[n] EXCEPT !.reachable = Reached(t, n)]
  BY VectorsIs DEF Alike
<1> HIDE DEF a, b
<1>3. \A n \in Assets : a.node[n] = b.node[n]
  <2>1. s.node = t.node /\ \A n : Reached(s, n) = Reached(t, n)
    BY ListableAlike DEF Alike
  <2>2. QED
    BY <1>1, <1>2, <2>1, Zenon
<1>4. a.node = b.node
  BY <1>1, <1>2, <1>3, SameFunction DEF Shape, IsGraph
<1>5. Alike(a, b)
  BY <1>1, <1>2, <1>4 DEF Alike, Same
<1>6. QED
  BY <1>5 DEF a, b

LEMMA ScoresAlike ==
  ASSUME NEW s, NEW t, Alike(s, t)
  PROVE  Alike(Scored(s), Scored(t)) /\ Alike(BuildsEngine(Scored(s)), BuildsEngine(Scored(t)))
<1> DEFINE a == Scored(s)
           b == Scored(t)
<1>1. /\ Shape(a) /\ a.entry = s.entry /\ a.cves = s.cves /\ a.engine = s.engine /\ a.lost = s.lost
      /\ \A n \in Assets : a.node[n] = [s.node[n] EXCEPT !.top = First(Listable(s, n))]
      /\ a.scored = UNION {{<<n, c>> : c \in Listable(s, n)} : n \in Assets}
  BY ScoredIs DEF Alike
<1>2. /\ Shape(b) /\ b.entry = t.entry /\ b.cves = t.cves /\ b.engine = t.engine /\ b.lost = t.lost
      /\ \A n \in Assets : b.node[n] = [t.node[n] EXCEPT !.top = First(Listable(t, n))]
      /\ b.scored = UNION {{<<n, c>> : c \in Listable(t, n)} : n \in Assets}
  BY ScoredIs DEF Alike
<1> HIDE DEF a, b
<1>3. \A n : Listable(s, n) = Listable(t, n)
  BY ListableAlike
<1>4. \A n \in Assets : a.node[n] = b.node[n]
  <2>1. s.node = t.node
    BY DEF Alike
  <2>2. \A n : First(Listable(s, n)) = First(Listable(t, n))
    BY <1>3
  <2>3. \A n \in Assets : a.node[n] = [s.node[n] EXCEPT !.top = First(Listable(s, n))]
    BY <1>1
  <2>4. \A n \in Assets : b.node[n] = [t.node[n] EXCEPT !.top = First(Listable(t, n))]
    BY <1>2
  <2>5. QED
    BY <2>1, <2>2, <2>3, <2>4, Zenon
<1>5. a.node = b.node
  BY <1>1, <1>2, <1>4, SameFunction DEF Shape, IsGraph
<1>6. a.scored = b.scored
  BY <1>1, <1>2, <1>3
<1>7. Alike(a, b)
  BY <1>1, <1>2, <1>5, <1>6 DEF Alike, Same
<1>8. Alike(BuildsEngine(a), BuildsEngine(b))
  BY <1>7, BuildsEngineIs DEF Alike, Same
<1>9. QED
  BY <1>7, <1>8 DEF a, b

\* The stages that come after the first graph, alike for alike scans.
LEMMA DevicesAlike ==
  ASSUME NEW s, NEW t, Alike(s, t), NEW on, NEW other, ("devices" \in on <=> "devices" \in other) \/ Crashes("devices", "early")
  PROVE  Alike(DevicesStage(s, on), DevicesStage(t, other))
<1> DEFINE v == LookUpAll(s)
           w == LookUpAll(t)
<1>1. Lookups(s) = Lookups(t)
  BY DEF Lookups, Alike
<1>2. Alike(v, w)
  BY <1>1, ApplyAlike DEF LookUpAll
<1>3. DevicesStage(s, on) = Run(s, on, "devices", v, KeepDevices(v))
        /\ DevicesStage(t, other) = Run(t, other, "devices", w, KeepDevices(w))
  BY Zenon DEF DevicesStage
<1> HIDE DEF v, w
<1>4. Lookups(v) = Lookups(w)
  BY <1>2 DEF Lookups, Alike
<1>5. Alike(KeepDevices(v), KeepDevices(w))
  BY <1>2, <1>4, KeepAlike DEF KeepDevices
<1>6. QED
  BY <1>2, <1>3, <1>5, RunAlike

LEMMA NmapAlike ==
  ASSUME NEW s, NEW t, Alike(s, t), NEW on, NEW other, ("nmap" \in on <=> "nmap" \in other) \/ Crashes("nmap", "early"), NEW S
  PROVE  Alike(NmapStage(s, on, S), NmapStage(t, other, S))
<1> DEFINE v == ApplyScans(s, S)
           w == ApplyScans(t, S)
<1>1. Alike(v, w)
  BY SeenAlike, ApplyAlike DEF ApplyScans
<1>2. NmapStage(s, on, S) = Run(s, on, "nmap", v, KeepServices(v, S))
        /\ NmapStage(t, other, S) = Run(t, other, "nmap", w, KeepServices(w, S))
  BY Zenon DEF NmapStage
<1> HIDE DEF v, w
<1>3. Alike(KeepServices(v, S), KeepServices(w, S))
  BY <1>1, KeepAlike DEF KeepServices
<1>4. QED
  BY <1>1, <1>2, <1>3, RunAlike

LEMMA OvssAlike ==
  ASSUME NEW s, NEW t, Alike(s, t), NEW on, NEW other
  PROVE  Alike(OvssStage(s, on), OvssStage(t, other))
<1> DEFINE f == on \cup {"ovss"}
           g == other \cup {"ovss"}
           a == Scored(s)
           b == Scored(t)
           c == BuildsEngine(a)
           d == BuildsEngine(b)
<1>1. OvssStage(s, on) = Run(s, f, "ovss", a, c) /\ OvssStage(t, other) = Run(t, g, "ovss", b, d)
  BY Zenon DEF OvssStage
<1>2. "ovss" \in f /\ "ovss" \in g
  OBVIOUS
<1>3. Alike(a, b) /\ Alike(c, d)
  BY ScoresAlike
<1> HIDE DEF a, b, c, d, f, g
<1>4. QED
  BY <1>1, <1>2, <1>3, RunAlike

LEMMA PathsAlike ==
  ASSUME NEW s, NEW t, Alike(s, t), NEW on, NEW other, ("paths" \in on <=> "paths" \in other) \/ Crashes("paths", "early")
  PROVE  Alike(PathsStage(s, on), PathsStage(t, other))
<1> DEFINE f == PathsOn(s, on)
           g == PathsOn(t, other)
<1>1. ("paths" \in f <=> "paths" \in g) \/ Crashes("paths", "early")
  BY DEF PathsOn, Alike, Same
<1>2. PathsStage(s, on) = Run(s, f, "paths", s, s) /\ PathsStage(t, other) = Run(t, g, "paths", t, t)
  BY Zenon DEF PathsStage
<1> HIDE DEF f, g
<1>3. QED
  BY <1>1, <1>2, RunAlike

\* What a stage that crashed before it wrote anything leaves is what the scan has with it turned off.
LEMMA CrashedIsOff ==
  ASSUME NEW on, NEW stage, stage # "ovss", Crashes(stage, "early")
  PROVE  Data(Sequential(on)) = Data(Sequential(on \ {stage}))
<1> DEFINE other == on \ {stage}
<1>1. \A st : (st \in on <=> st \in other) \/ Crashes(st, "early")
  OBVIOUS
<1> HIDE DEF other
<1> DEFINE r == Reassembles(FirstGraph)
           a == Answers(r)
           s0 == SnmpQuestion(FirstGraph, on)
           t0 == SnmpQuestion(FirstGraph, other)
           s1 == Run(s0, on, "names", NameLookup(s0), NameLookup(s0))
           t1 == Run(t0, other, "names", NameLookup(t0), NameLookup(t0))
           s2 == DevicesStage(s1, on)
           t2 == DevicesStage(t1, other)
           s3 == NmapStage(s2, on, Targets(s2))
           t3 == NmapStage(t2, other, Targets(t2))
           s4 == VectorsStage(s3, on)
           t4 == VectorsStage(t3, other)
           s5 == ChecklistStage(s4, on)
           t5 == ChecklistStage(t4, other)
           s6 == OvssStage(s5, on)
           t6 == OvssStage(t5, other)
<1>2. Alike(s0, t0)
  <2>1. Shape(r)
    BY FirstGraphShape, AssembledIs DEF Reassembles
  <2>2. Alike(r, r) /\ Alike(a, a) /\ Alike(FirstGraph, FirstGraph)
    BY <2>1, AnswersIs, FirstGraphShape DEF Alike, Same
  <2>3. s0 = Run(FirstGraph, on, "snmp", r, a) /\ t0 = Run(FirstGraph, other, "snmp", r, a)
    BY Zenon DEF SnmpQuestion
  <2> HIDE DEF r, a, s0, t0
  <2>4. QED
    BY <1>1, <2>2, <2>3, RunAlike
<1> HIDE DEF s0, t0
<1>3. Alike(s1, t1)
  <2>1. Alike(NameLookup(s0), NameLookup(t0))
    BY <1>2, NamesAlike
  <2>2. QED
    BY <1>1, <1>2, <2>1, RunAlike
<1> HIDE DEF s1, t1
<1>4. Alike(s2, t2)
  BY <1>1, <1>3, DevicesAlike
<1> HIDE DEF s2, t2
<1>5. Alike(s3, t3)
  <2>1. Targets(s2) = Targets(t2)
    BY <1>4 DEF Targets, Alike
  <2>2. QED
    BY <1>1, <1>4, <2>1, NmapAlike
<1> HIDE DEF s3, t3
<1>6. Alike(s4, t4)
  BY <1>1, <1>5, VectorsAlike, RunAlike DEF VectorsStage
<1> HIDE DEF s4, t4
<1>7. Alike(s5, t5)
  BY <1>1, <1>6, RunAlike DEF ChecklistStage
<1> HIDE DEF s5, t5
<1>8. Alike(s6, t6)
  BY <1>7, OvssAlike
<1> HIDE DEF s6, t6
<1>9. Alike(PathsStage(s6, on), PathsStage(t6, other))
  BY <1>1, <1>8, PathsAlike
<1>10. Sequential(on) = PathsStage(s6, on) /\ Sequential(other) = PathsStage(t6, other)
  BY Zenon DEF Sequential, s0, s1, s2, s3, s4, s5, s6, t0, t1, t2, t3, t4, t5, t6
<1>11. Data(Sequential(on)) = Data(Sequential(other))
  BY <1>9, <1>10 DEF Data, Alike, Same
<1>12. QED
  BY <1>11 DEF other

\* A stage that crashes is recorded as failed, once and in its place, and the scan goes on without it.
THEOREM FailuresStay == PipelineSpec => []FailureStaysInItsStage
<1>1. ThreadInv => FailureStaysInItsStage
  <2> SUFFICES ASSUME ThreadInv, Ended PROVE FailureStaysInItsStage
    BY DEF FailureStaysInItsStage
  <2>1. scan = Finished /\ scan = Sequential(world.on)
    BY FinishedIsSequential DEF ThreadInv, Ended
  <2>2. Noted(scan, 8)
    BY <2>1, StageShapes
  <2>3. /\ {scan.lines[i][1] : i \in {j \in DOMAIN scan.lines : scan.lines[j][2] = "failed"}} = scan.warnings \ {"crawl_empty"}
        /\ [i \in DOMAIN scan.lines |-> scan.lines[i][1]] = Stages
    BY <2>2, NotedTells
  <2>4. ASSUME NEW stage, Crashes(stage, "early"), stage \in world.on \ {"ovss"}
        PROVE  Data(scan) = Data(Sequential(world.on \ {stage}))
    <3>1. Data(Sequential(world.on)) = Data(Sequential(world.on \ {stage}))
      BY <2>4, CrashedIsOff
    <3>2. QED
      BY <2>1, <3>1
  <2>5. QED
    BY <2>3, <2>4, Zenon DEF FailureStaysInItsStage
<1>2. QED
  BY <1>1, ScanIsItsStages, PTL

-----------------------------------------------------------------------------
\* The graph and vulnerabilities.json. Until device CVEs run, the entries are the agents', and no agent is a
\* device or looked up by its software; then what a node lists is kept together with its entry, but for a stage
\* that crashed after it had written the nodes: the devices it had no entry for, the hosts of nmap may have one.

Base(s) ==
  /\ s.cves = Rows(world.wazuh).rows /\ s.engine = FALSE
  /\ \A n \in Assets : s.entry[n] = Entry(n) /\ s.node[n].reachable = {}
  /\ \A n \in Agents : /\ s.node[n].kind = "endpoint" /\ s.node[n].family = FALSE
                       /\ s.node[n].counted = Rows(world.wazuh) /\ s.node[n].top = Worst(Rows(world.wazuh).rows)

Unreached(s) == s.engine = FALSE /\ \A n \in Assets : s.node[n].reachable = {}
Linked(s) ==
  \A n \in Assets : s.entry[n].here =>
    LET found == s.entry[n].findings
    IN /\ found.rows \subseteq s.cves
       /\ found.known => s.node[n].reachable \subseteq found.rows
       /\ (s.node[n].top \subseteq found.rows /\ s.node[n].counted = found) \/ Crashes("nmap", "late")

\* The assets of a fresh graph.
LEMMA FreshIs ==
  ASSUME NEW s, s = FirstGraph \/ s = Reassembles(FirstGraph)
  PROVE  Base(s) /\ Shape(s)
<1>1. ASSUME NEW d, d \cap Agents = {}, NEW b, NEW c, s = Assembled(d, b, c)
      PROVE  Base(s) /\ Shape(s)
  <2> DEFINE k(n) == IF n \in d THEN "device" ELSE Node(n).kind
  <2>1. Shape(s)
    BY <1>1, AssembledIs, Zenon
  <2>2. s.cves = Rows(world.wazuh).rows /\ s.engine = FALSE
    BY <1>1 DEF Assembled
  <2>3. \A n \in Assets : s.entry[n] = Entry(n) /\ s.node[n] = [Node(n) EXCEPT !.kind = k(n)]
    <3>0. /\ \A n \in Assets : Assembled(d, b, c).node[n] = [Node(n) EXCEPT !.kind = IF n \in d THEN "device" ELSE Node(n).kind]
          /\ \A n \in Assets : Assembled(d, b, c).entry[n] = Entry(n)
      BY DEF Assembled
    <3>1. \A n \in Assets : Assembled(d, b, c).entry[n] = Entry(n)
      BY <3>0
    <3>2. \A n \in Assets : Assembled(d, b, c).node[n] = [Node(n) EXCEPT !.kind = k(n)]
      BY <3>0, Zenon
    <3>3. QED
      BY <1>1, <3>1, <3>2, Zenon
  <2>4. \A n : [Node(n) EXCEPT !.kind = k(n)] = NodeOf(k(n), Node(n).name, Node(n).family, Node(n).ports, Node(n).counted, Node(n).top, Node(n).reachable)
    <3>1. \A n : IsNode(Node(n))
      BY NodeIs
    <3>2. QED
      BY <3>1, PutKind, Zenon
  <2>5. \A n \in Assets : /\ s.node[n].kind = k(n) /\ s.node[n].family = Node(n).family /\ s.node[n].counted = Node(n).counted
                          /\ s.node[n].top = Node(n).top /\ s.node[n].reachable = Node(n).reachable
    <3>1. \A n \in Assets : s.node[n] = NodeOf(k(n), Node(n).name, Node(n).family, Node(n).ports, Node(n).counted, Node(n).top, Node(n).reachable)
      BY <2>3, <2>4, Zenon
    <3> HIDE DEF k
    <3>2. QED
      BY <3>1, NodeOfIs
  <2>6. \A n \in Agents : n \in Assets /\ k(n) = "endpoint"
    BY <1>1, PipelineAssumption, NodeIs DEF Assets
  <2>7. QED
    BY <2>1, <2>2, <2>3, <2>5, <2>6, NodeIs DEF Base
<1>2. Switches \cap Agents = {} /\ (Switches \cup Forwarding) \cap Agents = {}
  BY PipelineAssumption DEF Forwarding
<1>3. QED
  BY <1>1, <1>2 DEF FirstGraph, Reassembles

LEMMA QuestionedBase == Base(Questioned)
<1> DEFINE r == Reassembles(FirstGraph)
           a == Answers(r)
<1>1. Base(FirstGraph) /\ Shape(FirstGraph) /\ Base(r) /\ Shape(r)
  BY FreshIs
<1> HIDE DEF r
<1>2. Shape(a) /\ Same(a, r)
        /\ \A n \in Assets : a.node[n] = IF n \in Hosts /\ world.snmp[n] # "silent" THEN Heard(r.node[n], n) ELSE r.node[n]
  BY <1>1, AnswersIs
<1> HIDE DEF a
<1>3. \A n \in Assets : Heard(r.node[n], n).reachable = r.node[n].reachable
  <2>1. \A n \in Assets : IsNode(r.node[n])
    BY <1>1 DEF Shape, IsGraph
  <2>2. \A m, n : IsNode(m) => Heard(m, n).reachable = m.reachable
    BY HeardIs, NodeOfIs
  <2>3. QED
    BY <2>1, <2>2
<1>4. \A n \in Agents : n \in Assets /\ n \notin Hosts
  BY PipelineAssumption DEF Assets
<1>5. Base(a)
  BY <1>1, <1>2, <1>3, <1>4 DEF Base, Same
<1>6. Questioned = Run(FirstGraph, world.on, "snmp", r, a)
  BY Zenon DEF Questioned, SnmpQuestion, r, a
<1>7. QED
  BY <1>1, <1>2, <1>5, <1>6, LineIs, FailedIs DEF Run, Base, Same

LEMMA CalledBase == Base(Called)
<1> DEFINE a == NameLookup(Questioned)
           S == Nameless(Questioned)
<1>1. Shape(a) /\ Same(a, Questioned)
        /\ \A n \in Assets : a.node[n] = [Questioned.node[n] EXCEPT !.name = "dns"] \/ a.node[n] = Questioned.node[n]
  BY QuestionedShape, NamedIs DEF NameLookup
<1>2. Called = Run(Questioned, world.on, "names", a, a)
  BY Zenon DEF Called
<1> HIDE DEF a
<1>3. \A n \in Assets : /\ a.node[n].kind = Questioned.node[n].kind /\ a.node[n].family = Questioned.node[n].family
                        /\ a.node[n].counted = Questioned.node[n].counted /\ a.node[n].top = Questioned.node[n].top
                        /\ a.node[n].reachable = Questioned.node[n].reachable
  <2>1. \A n \in Assets : IsNode(Questioned.node[n])
    BY QuestionedShape DEF Shape, IsGraph
  <2>2. \A m : IsNode(m) => LET k == [m EXCEPT !.name = "dns"]
                            IN k.kind = m.kind /\ k.family = m.family /\ k.counted = m.counted /\ k.top = m.top /\ k.reachable = m.reachable
    BY PutName, NodeOfIs
  <2>3. QED
    BY <1>1, <2>1, <2>2, Zenon
<1>4. \A n \in Agents : n \in Assets
  BY DEF Assets
<1>5. Base(a)
  BY <1>1, <1>3, <1>4, QuestionedBase DEF Base, Same
<1>6. QED
  BY <1>1, <1>2, <1>5, QuestionedBase, QuestionedShape, LineIs, FailedIs DEF Run, Base, Same

LEMMA WorstAmong ==
  ASSUME NEW S
  PROVE  Worst(S) \subseteq S /\ First(S) \subseteq S
  BY DEF Worst, First

\* A line or a warning tells nothing of a CVE.
LEMMA RunKeeps ==
  ASSUME NEW s, Shape(s), NEW w, Shape(w), NEW e, Shape(e), NEW on, NEW stage
  PROVE  LET r == Run(s, on, stage, w, e)
         IN /\ Shape(r)
            /\ \/ (stage \notin on \/ Crashes(stage, "early")) /\ r.node = s.node /\ Same(r, s)
               \/ stage \in on /\ Crashes(stage, "late") /\ r.node = w.node /\ Same(r, w)
               \/ stage \in on /\ r.node = e.node /\ Same(r, e)
  BY LineIs, FailedIs DEF Run

LEMMA SameLinks ==
  ASSUME NEW s, NEW t, Linked(s), t.node = s.node, Same(t, s)
  PROVE  Linked(t) /\ (Unreached(s) => Unreached(t))
  BY DEF Linked, Unreached, Same

LEMMA BaseLinks ==
  ASSUME NEW s, Base(s)
  PROVE  Linked(s) /\ Unreached(s)
<1>1. \A n \in Assets : Entry(n).here => n \in Agents /\ Entry(n).findings = Rows(world.wazuh)
  BY DEF Entry
<1>2. Worst(Rows(world.wazuh).rows) \subseteq Rows(world.wazuh).rows
  BY WorstAmong
<1>3. QED
  BY <1>1, <1>2 DEF Base, Linked, Unreached

\* What a lookup that keeps its findings adds is linked.
LEMMA KeptLinks ==
  ASSUME NEW s, Shape(s), Linked(s), Unreached(s), NEW S, NEW answer
  PROVE  LET t == KeepFindings(ApplyAll(s, S, answer), S, answer) IN Shape(t) /\ Linked(t) /\ Unreached(t)
<1> DEFINE a == ApplyAll(s, S, answer)
           t == KeepFindings(a, S, answer)
           c == UNION {Rows(answer[n]).rows : n \in S}
<1>1. /\ Shape(a) /\ Same(a, s)
      /\ \A n \in Assets : a.node[n] = IF n \in S THEN Apply(s.node[n], answer[n]) ELSE s.node[n]
  BY ApplyAllIs
<1> HIDE DEF a
<1>2. /\ Shape(t) /\ t.node = a.node /\ t.engine = a.engine
      /\ \A n \in Assets : t.entry[n] = IF n \in S THEN EntryOf(a, answer, n) ELSE a.entry[n]
      /\ t.cves = a.cves \cup c
  BY <1>1, KeepFindingsIs
<1> HIDE DEF t
<1>3. \A n \in Assets : /\ Apply(s.node[n], answer[n]).counted = Rows(answer[n])
                        /\ Apply(s.node[n], answer[n]).top = Worst(Rows(answer[n]).rows)
                        /\ Apply(s.node[n], answer[n]).reachable = s.node[n].reachable
  <2>1. \A n \in Assets : IsNode(s.node[n])
    BY DEF Shape, IsGraph
  <2>2. \A m, x : IsNode(m) => Apply(m, x).counted = Rows(x) /\ Apply(m, x).top = Worst(Rows(x).rows) /\ Apply(m, x).reachable = m.reachable
    BY ApplyIs, NodeOfIs
  <2>3. QED
    BY <2>1, <2>2
<1>4. \A n \in S : Rows(answer[n]).rows \subseteq c
  OBVIOUS
<1> HIDE DEF c
<1>5. ASSUME NEW n \in Assets, t.entry[n].here
      PROVE  LET found == t.entry[n].findings
             IN /\ found.rows \subseteq t.cves
                /\ found.known => t.node[n].reachable \subseteq found.rows
                /\ (t.node[n].top \subseteq found.rows /\ t.node[n].counted = found) \/ Crashes("nmap", "late")
  <2>1. CASE n \in S
    <3>1. t.entry[n].findings = Rows(answer[n])
      <4>1. t.entry[n] = EntryOf(a, answer, n)
        BY <1>2, <2>1
      <4>2. QED
        BY <4>1 DEF EntryOf
    <3>2. t.node[n].counted = Rows(answer[n]) /\ t.node[n].top = Worst(Rows(answer[n]).rows) /\ t.node[n].reachable = {}
      BY <1>1, <1>2, <1>3, <2>1 DEF Unreached
    <3>3. QED
      BY <1>2, <1>4, <2>1, <3>1, <3>2, WorstAmong
  <2>2. CASE n \notin S
    <3>1. t.entry[n] = s.entry[n] /\ t.node[n] = s.node[n] /\ s.cves \subseteq t.cves
      BY <1>1, <1>2, <2>2 DEF Same
    <3>2. s.entry[n].here
      BY <1>5, <3>1
    <3>3. QED
      BY <3>1, <3>2 DEF Linked
  <2>3. QED
    BY <2>1, <2>2
<1>6. Unreached(t)
  BY <1>1, <1>2, <1>3 DEF Unreached, Same
<1>7. QED
  BY <1>2, <1>5, <1>6 DEF Linked, t, a

LEMMA LookedUpLinks == Linked(LookedUp) /\ Unreached(LookedUp)
<1> DEFINE S == Lookups(Called)
           w == LookUpAll(Called)
           e == KeepDevices(w)
<1>1. Linked(Called) /\ Unreached(Called) /\ Shape(Called)
  BY CalledBase, BaseLinks, CalledShape
<1>2. Lookups(w) = S /\ Shape(w)
  BY CalledShape, AppliedKinds, KindsChoose DEF LookUpAll
<1>3. Shape(e) /\ Linked(e) /\ Unreached(e)
  BY <1>1, <1>2, KeptLinks DEF KeepDevices, LookUpAll
<1>4. Linked(w) /\ Unreached(w)
  <2>1. /\ Same(w, Called)
        /\ \A n \in Assets : w.node[n] = IF n \in S THEN Apply(Called.node[n], world.software[n]) ELSE Called.node[n]
    BY CalledShape, ApplyAllIs DEF LookUpAll
  <2>2. \A n \in Assets : Called.entry[n].here => n \notin S
    <3>1. \A n \in Assets : Entry(n).here => n \in Agents
      BY DEF Entry
    <3>2. \A n \in Agents : Called.node[n].kind # "device" /\ Called.node[n].family = FALSE
      BY CalledBase DEF Base
    <3>3. QED
      BY <3>1, <3>2, CalledBase DEF Base, Lookups
  <2>3. \A n \in Assets : IsNode(Called.node[n])
    BY CalledShape DEF Shape, IsGraph
  <2>4. \A m, x : IsNode(m) => Apply(m, x).reachable = m.reachable
    BY ApplyIs, NodeOfIs
  <2>5. \A n \in Assets : w.node[n].reachable = {}
    BY <1>1, <2>1, <2>3, <2>4 DEF Unreached
  <2>6. \A n \in Assets : w.entry[n].here => w.node[n] = Called.node[n]
    BY <2>1, <2>2 DEF Same
  <2> HIDE DEF w, S
  <2>7. QED
    BY <1>1, <2>1, <2>5, <2>6 DEF Linked, Unreached, Same
<1>5. LookedUp = Run(Called, world.on, "devices", w, e)
  BY Zenon DEF LookedUp, DevicesStage
<1> HIDE DEF w, e
<1>6. QED
  BY <1>1, <1>2, <1>3, <1>4, <1>5, RunKeeps, SameLinks

LEMMA ScannedLinks == Linked(Scanned) /\ Unreached(Scanned)
<1> DEFINE S == Targets(LookedUp)
           v == SeenBy(LookedUp, S)
           w == ApplyScans(LookedUp, S)
           e == KeepServices(w, S)
<1>1. /\ Shape(v) /\ Same(v, LookedUp)
      /\ \A n \in Assets : v.node[n] = IF n \in Answering(S) THEN Seen(LookedUp.node[n], n) ELSE LookedUp.node[n]
  BY LookedUpShape, SeenByIs
<1>2. w = ApplyAll(v, Versioned(S), world.services)
  BY Zenon DEF ApplyScans
<1>3. e = KeepFindings(w, Versioned(S), world.services)
  BY Zenon DEF KeepServices
<1>4. Scanned = Run(LookedUp, world.on, "nmap", w, e)
  BY Zenon DEF Scanned, NmapStage
<1> HIDE DEF S, v, w, e
<1>5. Linked(v) /\ Unreached(v)
  <2>1. \A n \in Assets : IsNode(LookedUp.node[n])
    BY LookedUpShape DEF Shape, IsGraph
  <2>2. \A n \in Assets : /\ v.node[n].reachable = LookedUp.node[n].reachable /\ v.node[n].top = LookedUp.node[n].top
                          /\ v.node[n].counted = LookedUp.node[n].counted
    <3>1. SUFFICES ASSUME NEW n \in Assets
                   PROVE  v.node[n].reachable = LookedUp.node[n].reachable /\ v.node[n].top = LookedUp.node[n].top
                            /\ v.node[n].counted = LookedUp.node[n].counted
      BY Zenon
    <3> DEFINE m == LookedUp.node[n]
               k == Seen(m, n)
    <3>2. IsNode(m) /\ (v.node[n] = k \/ v.node[n] = m)
      BY <1>1, <2>1
    <3> HIDE DEF m
    <3>3. k.reachable = m.reachable /\ k.top = m.top /\ k.counted = m.counted
      BY <3>2, SeenIs
    <3> HIDE DEF k
    <3>4. v.node[n].reachable = m.reachable /\ v.node[n].top = m.top /\ v.node[n].counted = m.counted
      BY <3>2, <3>3
    <3>5. QED
      BY <3>4 DEF m
  <2>3. QED
    BY <1>1, <2>2, LookedUpLinks DEF Linked, Unreached, Same
<1>6. Shape(e) /\ Linked(e) /\ Unreached(e)
  BY <1>1, <1>2, <1>3, <1>5, KeptLinks
<1>7. Shape(w) /\ Same(w, v) /\ \A n \in Assets : w.node[n].reachable = v.node[n].reachable
  <2>1. /\ Shape(w) /\ Same(w, v)
        /\ \A n \in Assets : w.node[n] = IF n \in Versioned(S) THEN Apply(v.node[n], world.services[n]) ELSE v.node[n]
    BY <1>1, <1>2, ApplyAllIs
  <2>2. \A n \in Assets : IsNode(v.node[n])
    BY <1>1 DEF Shape, IsGraph
  <2>3. \A m, x : IsNode(m) => Apply(m, x).reachable = m.reachable
    BY ApplyIs, NodeOfIs
  <2>4. QED
    BY <2>1, <2>2, <2>3
<1>8. Crashes("nmap", "late") => Linked(w) /\ Unreached(w)
  BY <1>5, <1>7 DEF Linked, Unreached, Same
<1>9. QED
  BY <1>4, <1>6, <1>7, <1>8, LookedUpShape, LookedUpLinks, RunKeeps, SameLinks

LEMMA WeighedLinks == Linked(Weighed) /\ Weighed.engine = FALSE
<1> DEFINE w == Vectors(Scanned)
<1>1. /\ Shape(w) /\ Same(w, Scanned)
      /\ \A n \in Assets : w.node[n] = [Scanned.node[n] EXCEPT !.reachable = Reached(Scanned, n)]
  BY StageShapes, VectorsIs
<1>2. Weighed = Run(Scanned, world.on, "vectors", w, w)
  BY Zenon DEF Weighed, VectorsStage
<1> HIDE DEF w
<1>3. \A n \in Assets : /\ w.node[n].reachable = Reached(Scanned, n) /\ w.node[n].top = Scanned.node[n].top
                        /\ w.node[n].counted = Scanned.node[n].counted
  <2>1. \A n \in Assets : IsNode(Scanned.node[n])
    BY StageShapes DEF Shape, IsGraph
  <2>2. ASSUME NEW n \in Assets
        PROVE  w.node[n].reachable = Reached(Scanned, n) /\ w.node[n].top = Scanned.node[n].top
                 /\ w.node[n].counted = Scanned.node[n].counted
    <3> DEFINE m == Scanned.node[n]
               x == Reached(Scanned, n)
    <3>1. IsNode(m) /\ w.node[n] = [m EXCEPT !.reachable = x]
      BY <1>1, <2>1, Zenon
    <3> HIDE DEF m, x
    <3>2. w.node[n].reachable = x /\ w.node[n].top = m.top /\ w.node[n].counted = m.counted
      BY <3>1, PutReachable, NodeOfIs
    <3>3. QED
      BY <3>2 DEF m, x
  <2>3. QED
    BY <2>2
<1>4. \A n : Scanned.entry[n].findings.known => Reached(Scanned, n) \subseteq Scanned.entry[n].findings.rows
  BY DEF Reached, Listable
<1>5. Linked(w)
  BY <1>1, <1>3, <1>4, ScannedLinks DEF Linked, Same
<1>6. \/ Shape(Scanned) /\ Weighed.node = Scanned.node /\ Same(Weighed, Scanned)
      \/ Weighed.node = w.node /\ Same(Weighed, w)
  BY <1>1, <1>2, StageShapes, RunKeeps
<1>7. Linked(Weighed)
  BY <1>1, <1>2, <1>5, StageShapes, ScannedLinks, RunKeeps, SameLinks
<1>8. Scanned.engine = FALSE
  BY ScannedLinks DEF Unreached
<1>9. Weighed.engine = FALSE
  BY <1>1, <1>6, <1>8 DEF Same
<1>10. QED
  BY <1>7, <1>9

LEMMA CheckedLinks == Linked(Checked) /\ Checked.engine = FALSE
  BY WeighedLinks, StageShapes, RunKeeps, SameLinks DEF Checked, ChecklistStage, Same

\* What ListedAreFound says of a node.
FoundOf(s, n) ==
  LET found == s.entry[n].findings.rows
  IN /\ found \subseteq s.cves
     /\ s.node[n].top \subseteq found
     /\ s.engine => \A c \in found : <<n, c>> \in s.scored
     /\ s.node[n].reachable \subseteq found
     /\ s.node[n].counted = s.entry[n].findings \/ Crashes("nmap", "late")
Listed(s) == {n \in Assets : s.entry[n].here /\ s.entry[n].findings.known}

LEMMA ScoredFound ==
  ASSUME NEW s, Shape(s), Linked(s), NEW n \in Listed(s)
  PROVE  n \in Listed(Scored(s)) /\ FoundOf(Scored(s), n) /\ \A c \in s.entry[n].findings.rows : <<n, c>> \in Scored(s).scored
<1> DEFINE t == Scored(s)
           L == Listable(s, n)
           m == s.node[n]
           x == First(L)
<1>1. /\ t.entry = s.entry /\ t.cves = s.cves /\ t.node[n] = [m EXCEPT !.top = x]
      /\ t.scored = UNION {{<<k, c>> : c \in Listable(s, k)} : k \in Assets}
      /\ n \in Assets /\ IsNode(m) /\ s.entry[n].here /\ s.entry[n].findings.known
  <2>1. n \in Assets /\ s.entry[n].here /\ s.entry[n].findings.known
    BY DEF Listed
  <2>2. IsNode(m)
    BY <2>1 DEF Shape, IsGraph
  <2>3. /\ t.entry = s.entry /\ t.cves = s.cves /\ \A k \in Assets : t.node[k] = [s.node[k] EXCEPT !.top = First(Listable(s, k))]
        /\ t.scored = UNION {{<<k, c>> : c \in Listable(s, k)} : k \in Assets}
    BY ScoredIs
  <2>4. QED
    BY <2>1, <2>2, <2>3
<1>2. L = s.entry[n].findings.rows /\ x \subseteq L
  BY <1>1, WorstAmong DEF Listable
<1>3. \A c \in L : <<n, c>> \in t.scored
  BY <1>1
<1> HIDE DEF t, x, m, L
<1>4. t.node[n].top = x /\ t.node[n].reachable = m.reachable /\ t.node[n].counted = m.counted
  BY <1>1, PutTop, NodeOfIs
<1>5. /\ s.entry[n].findings.rows \subseteq s.cves /\ m.reachable \subseteq s.entry[n].findings.rows
      /\ m.counted = s.entry[n].findings \/ Crashes("nmap", "late")
  BY <1>1 DEF Linked, m
<1>6. n \in Listed(t) /\ FoundOf(t, n)
  BY <1>1, <1>2, <1>3, <1>4, <1>5 DEF FoundOf, Listed
<1>7. QED
  BY <1>2, <1>3, <1>6 DEF t

LEMMA RatedFound ==
  ASSUME world \in Worlds, NEW n \in Listed(Rated)
  PROVE  FoundOf(Rated, n)
<1> DEFINE w == Scored(Checked)
           e == BuildsEngine(w)
           on == world.on \cup {"ovss"}
<1>1. Rated = Run(Checked, on, "ovss", w, e)
  BY Zenon DEF Rated, OvssStage
<1>2. "ovss" \in on
  OBVIOUS
<1>3. Shape(w) /\ Shape(e) /\ e.node = w.node /\ e.entry = w.entry /\ e.cves = w.cves /\ e.scored = w.scored /\ w.entry = Checked.entry
  BY StageShapes, ScoredIs, BuildsEngineIs
<1>4. \A k \in Listed(Checked) : FoundOf(w, k) /\ \A c \in Checked.entry[k].findings.rows : <<k, c>> \in w.scored
  BY StageShapes, CheckedLinks, ScoredFound
<1> HIDE DEF w, e, on
<1>5. \/ Crashes("ovss", "early") /\ Rated.node = Checked.node /\ Same(Rated, Checked)
      \/ Rated.node = w.node /\ Same(Rated, w)
      \/ Rated.node = e.node /\ Same(Rated, e)
  BY <1>1, <1>2, <1>3, StageShapes, RunKeeps
<1>6. Rated.entry = Checked.entry /\ n \in Listed(Checked)
  BY <1>3, <1>5 DEF Same, Listed
<1>7. CASE Crashes("ovss", "early") /\ Rated.node = Checked.node /\ Same(Rated, Checked)
  <2>1. ~Crashes("nmap", "late")
    BY <1>7 DEF Crashes
  <2>2. QED
    BY <1>6, <1>7, <2>1, CheckedLinks DEF FoundOf, Linked, Listed, Same
<1>8. CASE Rated.node = w.node /\ Same(Rated, w)
  BY <1>4, <1>6, <1>8 DEF FoundOf, Same
<1>9. CASE Rated.node = e.node /\ Same(Rated, e)
  BY <1>3, <1>4, <1>6, <1>9 DEF FoundOf, Same
<1>10. QED
  BY <1>5, <1>7, <1>8, <1>9

\* graph.json and vulnerabilities.json agree at the end, whatever crashed.
THEOREM ListedIsFoundAlways == PipelineSpec => []ListedAreFound
<1>1. ThreadInv => ListedAreFound
  <2> SUFFICES ASSUME ThreadInv, Ended PROVE ListedAreFound
    BY DEF ListedAreFound
  <2>1. scan = Finished /\ world \in Worlds
    BY DEF ThreadInv, Ended
  <2>2. Finished.node = Rated.node /\ Same(Finished, Rated)
    BY StageShapes, RunKeeps DEF Finished, PathsStage
  <2>3. \A n \in Listed(scan) : n \in Listed(Rated) /\ (FoundOf(Rated, n) => FoundOf(scan, n))
    BY <2>1, <2>2 DEF Listed, FoundOf, Same
  <2>4. \A n \in Listed(scan) : FoundOf(scan, n)
    BY <2>1, <2>3, RatedFound
  <2>5. QED
    BY <2>4, Zenon DEF ListedAreFound, Listed, FoundOf
<1>2. QED
  BY <1>1, ScanIsItsStages, PTL
-----------------------------------------------------------------------------
(***************************************************************************)
(* The stage of the checks, for one device: reading less of it never earns a *)
(* pass. Every check is a lemma; each says how a row that was not read stays *)
(* visible in its result, once the tables the check takes for whole are.     *)
(***************************************************************************)

Asks == Range(Questions)
IsReading(d, G) == G = [q \in Asks |-> G[q]] /\ \A q \in Asks : G[q] \subseteq RowsOf(d, q)
AreContexts(d, V) == DOMAIN V = DOMAIN d.context /\ \A v \in DOMAIN V : V[v] \subseteq DOMAIN d.context[v]
MembersTable(d) == IF d.cisco THEN "vmVlan" ELSE "bridgePorts"
\* What every check of the ports takes for whole.
PortsAreWhole(d, G) == ~CutShort(d, G, "ifType") /\ ~CutShort(d, G, MembersTable(d))

LEMMA AsksAre ==
  Asks = {"probe", "uptime", "tcpConn", "tcpListener", "connect", "ifName", "ifDescr", "ifType", "ifOper",
         "ifLastChange", "bridgePorts", "pvid", "vmVlan", "scalars", "security", "fastMode", "guard", "contexts"}
<1>1. DOMAIN Questions = 1..18
  BY DEF Questions
<1>2. /\ Questions[1] = "probe" /\ Questions[2] = "uptime" /\ Questions[3] = "tcpConn"
      /\ Questions[4] = "tcpListener" /\ Questions[5] = "connect" /\ Questions[6] = "ifName"
      /\ Questions[7] = "ifDescr" /\ Questions[8] = "ifType" /\ Questions[9] = "ifOper"
      /\ Questions[10] = "ifLastChange" /\ Questions[11] = "bridgePorts" /\ Questions[12] = "pvid"
      /\ Questions[13] = "vmVlan" /\ Questions[14] = "scalars" /\ Questions[15] = "security"
      /\ Questions[16] = "fastMode" /\ Questions[17] = "guard" /\ Questions[18] = "contexts"
  BY DEF Questions
<1>3. 1..18 = {1, 2, 3, 4, 5, 6, 7, 8, 9, 10, 11, 12, 13, 14, 15, 16, 17, 18}
  OBVIOUS
<1> QED
  BY <1>1, <1>2, <1>3 DEF Asks, Range

LEMMA RowsAre ==
  ASSUME NEW d
  PROVE  /\ RowsOf(d, "tcpConn") = d.tcpConn /\ RowsOf(d, "tcpListener") = d.tcpListener
         /\ \A q \in IfColumns : RowsOf(d, q) = DOMAIN d.ifs
         /\ RowsOf(d, "bridgePorts") = DOMAIN d.bridgePorts /\ RowsOf(d, "pvid") = DOMAIN d.pvid
         /\ RowsOf(d, "vmVlan") = DOMAIN d.vmVlan /\ RowsOf(d, "security") = DOMAIN d.security
         /\ RowsOf(d, "fastMode") = DOMAIN d.fastMode /\ RowsOf(d, "guard") = DOMAIN d.guard
         /\ \A q \in {"uptime", "connect", "scalars"} : RowsOf(d, q) = {0}
  BY DEF RowsOf, IfColumns

LEMMA RowsReadAre ==
  ASSUME NEW d, NEW G, IsReading(d, G)
  PROVE  /\ G["tcpConn"] \subseteq d.tcpConn /\ G["tcpListener"] \subseteq d.tcpListener
         /\ G["ifName"] \subseteq DOMAIN d.ifs /\ G["ifDescr"] \subseteq DOMAIN d.ifs /\ G["ifType"] \subseteq DOMAIN d.ifs
         /\ G["ifOper"] \subseteq DOMAIN d.ifs /\ G["ifLastChange"] \subseteq DOMAIN d.ifs
         /\ G["bridgePorts"] \subseteq DOMAIN d.bridgePorts /\ G["pvid"] \subseteq DOMAIN d.pvid
         /\ G["vmVlan"] \subseteq DOMAIN d.vmVlan /\ G["security"] \subseteq DOMAIN d.security
         /\ G["fastMode"] \subseteq DOMAIN d.fastMode /\ G["guard"] \subseteq DOMAIN d.guard
<1>1. \A q \in Asks : G[q] \subseteq RowsOf(d, q)
  BY DEF IsReading
<1>2. IfColumns = {"ifName", "ifDescr", "ifType", "ifOper", "ifLastChange"}
  BY DEF IfColumns
<1> QED
  BY <1>1, <1>2, AsksAre, RowsAre

LEMMA AllRowsAre ==
  ASSUME NEW d, NEW A, A = AllRows(d)
  PROVE  /\ IsReading(d, A) /\ \A q \in Asks : A[q] = RowsOf(d, q)
         /\ A["tcpConn"] = d.tcpConn /\ A["tcpListener"] = d.tcpListener
         /\ A["ifName"] = DOMAIN d.ifs /\ A["ifDescr"] = DOMAIN d.ifs /\ A["ifType"] = DOMAIN d.ifs
         /\ A["ifOper"] = DOMAIN d.ifs /\ A["ifLastChange"] = DOMAIN d.ifs /\ Names(A) = DOMAIN d.ifs
         /\ A["bridgePorts"] = DOMAIN d.bridgePorts /\ A["pvid"] = DOMAIN d.pvid
         /\ A["vmVlan"] = DOMAIN d.vmVlan /\ A["security"] = DOMAIN d.security
         /\ A["fastMode"] = DOMAIN d.fastMode /\ A["guard"] = DOMAIN d.guard
         /\ A["uptime"] # {} /\ A["connect"] # {} /\ A["scalars"] # {}
<1>1. A = [q \in Asks |-> RowsOf(d, q)]
  BY DEF AllRows, Asks
<1>2. IsReading(d, A) /\ \A q \in Asks : A[q] = RowsOf(d, q)
  BY <1>1 DEF IsReading
<1>3. IfColumns = {"ifName", "ifDescr", "ifType", "ifOper", "ifLastChange"}
  BY DEF IfColumns
<1>4. /\ A["ifName"] = DOMAIN d.ifs /\ A["ifDescr"] = DOMAIN d.ifs /\ A["ifType"] = DOMAIN d.ifs
      /\ A["ifOper"] = DOMAIN d.ifs /\ A["ifLastChange"] = DOMAIN d.ifs
  BY <1>2, <1>3, AsksAre, RowsAre
<1>5. Names(A) = DOMAIN d.ifs
  BY <1>4 DEF Names
<1>6. /\ A["tcpConn"] = d.tcpConn /\ A["tcpListener"] = d.tcpListener
      /\ A["bridgePorts"] = DOMAIN d.bridgePorts /\ A["pvid"] = DOMAIN d.pvid
      /\ A["vmVlan"] = DOMAIN d.vmVlan /\ A["security"] = DOMAIN d.security
      /\ A["fastMode"] = DOMAIN d.fastMode /\ A["guard"] = DOMAIN d.guard
  BY <1>2, AsksAre, RowsAre
<1>7. A["uptime"] # {} /\ A["connect"] # {} /\ A["scalars"] # {}
  <2>1. \A q \in {"uptime", "connect", "scalars"} : q \in Asks /\ RowsOf(d, q) = {0}
    BY AsksAre, RowsAre
  <2>2. \A q \in {"uptime", "connect", "scalars"} : A[q] = {0}
    BY <1>2, <2>1
  <2> QED
    BY <2>2
<1> QED
  BY <1>2, <1>4, <1>5, <1>6, <1>7

LEMMA EmptyFunction ==
  ASSUME NEW f, NEW S, f = [x \in S |-> f[x]]
  PROVE  S = {} => f = << >>
  OBVIOUS

LEMMA NoneIsNothing == DOMAIN << >> = {}
  OBVIOUS

LEMMA InterfaceOfRow ==
  ASSUME NEW d \in Polled, NEW G, NEW i \in DOMAIN d.ifs
  PROVE  Interface(d, G, i) =
           [name |-> IF i \in Names(G) THEN d.ifs[i].name ELSE i, ethernet |-> d.ifs[i].ethernet,
            routes |-> IF i \in Names(G) THEN d.ifs[i].routes ELSE 0,
            oper |-> IF i \in G["ifOper"] THEN d.ifs[i].oper ELSE "none",
            last |-> IF i \in G["ifLastChange"] THEN d.ifs[i].last ELSE 0]
<1> DEFINE x == d.ifs[i]
<1>1. x = [name |-> x.name, ethernet |-> x.ethernet, routes |-> x.routes, oper |-> x.oper, last |-> x.last]
  BY ChecklistAssumption DEF IsPort
<1> DEFINE n == IF i \in Names(G) THEN x.name ELSE i
           r == IF i \in Names(G) THEN x.routes ELSE 0
           o == IF i \in G["ifOper"] THEN x.oper ELSE "none"
           l == IF i \in G["ifLastChange"] THEN x.last ELSE 0
           named(y) == [y EXCEPT !.name = n]
           routed(y) == [y EXCEPT !.routes = r]
           stated(y) == [y EXCEPT !.oper = o]
           dated(y) == [y EXCEPT !.last = l]
           read(a, b, c, e) == [name |-> a, ethernet |-> x.ethernet, routes |-> b, oper |-> c, last |-> e]
<1>2. Interface(d, G, i) = dated(stated(routed(named(x))))
  BY DEF Interface
<1> HIDE DEF x, n, r, o, l
<1>3. \A a, b, c, e : named(read(a, b, c, e)) = read(n, b, c, e)
  OBVIOUS
<1>4. \A a, b, c, e : routed(read(a, b, c, e)) = read(a, r, c, e)
  OBVIOUS
<1>5. \A a, b, c, e : stated(read(a, b, c, e)) = read(a, b, o, e)
  OBVIOUS
<1>6. \A a, b, c, e : dated(read(a, b, c, e)) = read(a, b, c, l)
  OBVIOUS
<1>7. x = read(x.name, x.routes, x.oper, x.last)
  BY <1>1
<1> HIDE DEF read, named, routed, stated, dated
<1>8. Interface(d, G, i) = read(n, r, o, l)
  BY <1>2, <1>3, <1>4, <1>5, <1>6, <1>7
<1> QED
  BY <1>8 DEF x, n, r, o, l, read

LEMMA PortsOf ==
  ASSUME NEW d \in Polled, NEW G, IsReading(d, G)
  PROVE  /\ DOMAIN Interfaces(d, G) = G["ifType"] /\ G["ifType"] \subseteq DOMAIN d.ifs
         /\ \A i \in G["ifType"] :
              /\ Interfaces(d, G)[i].name = IF i \in Names(G) THEN d.ifs[i].name ELSE i
              /\ Interfaces(d, G)[i].routes = IF i \in Names(G) THEN d.ifs[i].routes ELSE 0
              /\ Interfaces(d, G)[i].ethernet = d.ifs[i].ethernet
              /\ Interfaces(d, G)[i].oper = IF i \in G["ifOper"] THEN d.ifs[i].oper ELSE "none"
              /\ Interfaces(d, G)[i].last = IF i \in G["ifLastChange"] THEN d.ifs[i].last ELSE 0
<1>1. G["ifType"] \subseteq DOMAIN d.ifs
  BY RowsReadAre
<1>2. \A i \in G["ifType"] : Interfaces(d, G)[i] = Interface(d, G, i)
  BY DEF Interfaces
<1>3. DOMAIN Interfaces(d, G) = G["ifType"]
  BY DEF Interfaces
<1> QED
  BY <1>1, <1>2, <1>3, InterfaceOfRow

LEMMA KnownPorts ==
  ASSUME NEW d \in Polled, NEW G, IsReading(d, G), PortsKnown(d, G), PortsAreWhole(d, G), NEW A, A = AllRows(d)
  PROVE  /\ G["ifType"] = DOMAIN d.ifs
         /\ d.cisco => G["vmVlan"] = DOMAIN d.vmVlan /\ G["vmVlan"] # {}
         /\ ~d.cisco => G["bridgePorts"] = DOMAIN d.bridgePorts
         /\ Members(d, G) = Members(d, A)
         /\ PortsKnown(d, A)
<1>1. G["ifType"] = DOMAIN d.ifs
  BY RowsAre DEF PortsKnown, PortsAreWhole, CutShort, IfColumns
<1>2. CASE d.cisco
  <2>1. G["vmVlan"] # {} /\ ~CutShort(d, G, "vmVlan")
    BY <1>2 DEF PortsKnown, Members, PortsAreWhole, MembersTable
  <2>2. G["vmVlan"] = DOMAIN d.vmVlan
    BY <2>1, RowsAre DEF CutShort
  <2> QED
    BY <1>1, <1>2, <2>1, <2>2, AllRowsAre DEF Members, PortsKnown
<1>3. CASE ~d.cisco
  <2>1. G["bridgePorts"] # {} /\ ~CutShort(d, G, "bridgePorts")
    BY <1>3 DEF PortsKnown, Members, PortsAreWhole, MembersTable
  <2>2. G["bridgePorts"] = DOMAIN d.bridgePorts
    BY <2>1, RowsAre DEF CutShort
  <2> QED
    BY <1>1, <1>3, <2>1, <2>2, AllRowsAre DEF Members, PortsKnown
<1> QED
  BY <1>2, <1>3

LEMMA AccessPortsShrink ==
  ASSUME NEW d \in Polled, NEW G, IsReading(d, G), PortsKnown(d, G), PortsAreWhole(d, G), NEW A, A = AllRows(d)
  PROVE  /\ AccessPorts(d, A) \subseteq AccessPorts(d, G)
         /\ Names(G) = DOMAIN d.ifs => AccessPorts(d, A) = AccessPorts(d, G)
         /\ AccessPorts(d, G) \subseteq DOMAIN d.ifs
<1>1. /\ G["ifType"] = DOMAIN d.ifs /\ A["ifType"] = DOMAIN d.ifs /\ Names(A) = DOMAIN d.ifs
      /\ Members(d, G) = Members(d, A) /\ IsReading(d, A)
  BY KnownPorts, AllRowsAre
<1>2. \A i \in DOMAIN d.ifs : i \notin d.uplinks
  BY ChecklistAssumption
<1>3. AccessPorts(d, G) = {i \in DOMAIN d.ifs \cap Members(d, G) :
            d.ifs[i].ethernet /\ (IF i \in Names(G) THEN d.ifs[i].name ELSE i) \notin d.uplinks}
  BY <1>1, PortsOf DEF AccessPorts
<1>4. AccessPorts(d, A) = {i \in DOMAIN d.ifs \cap Members(d, G) :
            d.ifs[i].ethernet /\ (IF i \in Names(A) THEN d.ifs[i].name ELSE i) \notin d.uplinks}
  BY <1>1, PortsOf DEF AccessPorts
<1> QED
  BY <1>1, <1>2, <1>3, <1>4

LEMMA TcpEarned ==
  ASSUME NEW d \in Polled, NEW G, IsReading(d, G), NEW port \in {23, 80}, TcpPort(d, G, port) = "pass",
         TcpRead(G) => \A q \in TcpTables : G[q] = RowsOf(d, q)
  PROVE  TcpPort(d, AllRows(d), port) = "pass"
<1> DEFINE A == AllRows(d)
<1>1. A["tcpConn"] = d.tcpConn /\ A["tcpListener"] = d.tcpListener /\ A["connect"] # {}
  BY AllRowsAre
<1> HIDE DEF A
<1>2. CASE TcpRead(G)
  <2>1. G["tcpConn"] = d.tcpConn /\ G["tcpListener"] = d.tcpListener
    BY <1>2, RowsAre DEF TcpTables
  <2>2. TcpPorts(A) = TcpPorts(G) /\ TcpRead(A)
    BY <1>1, <1>2, <2>1 DEF TcpPorts, TcpRead
  <2> QED
    BY <1>2, <2>2 DEF TcpPort, A
<1>3. CASE ~TcpRead(G)
  <2>1. ~d.filtered /\ port \notin d.listens
    BY <1>3 DEF TcpPort
  <2>2. port \notin TcpPorts(A)
    BY <1>1, <2>1, ChecklistAssumption DEF TcpPorts
  <2> QED
    BY <1>1, <2>1, <2>2 DEF TcpPort, A
<1> QED
  BY <1>2, <1>3

\* The VLAN that was read of a port is its VLAN: no two bridge ports have one interface.
LEMMA VlansStay ==
  ASSUME NEW d \in Polled, NEW G, IsReading(d, G), PortsKnown(d, G), PortsAreWhole(d, G), NEW A, A = AllRows(d)
  PROVE  /\ VlanOf(d, G) # << >> => VlanOf(d, A) # << >>
         /\ \A i : VlanAt(d, G, i) # 0 => VlanAt(d, A, i) = VlanAt(d, G, i)
         /\ (VlanOf(d, G) # << >> /\ (~d.cisco => ~CutShort(d, G, "pvid"))) => VlanOf(d, A) = VlanOf(d, G)
<1>1. CASE d.cisco
  <2>1. G["vmVlan"] = A["vmVlan"] /\ G["vmVlan"] # {}
    BY <1>1, KnownPorts, AllRowsAre
  <2>2. VlanOf(d, A) = VlanOf(d, G)
    BY <1>1, <2>1 DEF VlanOf, VmVlan
  <2> QED
    BY <2>2 DEF VlanAt
<1>2. CASE ~d.cisco
  <2> DEFINE base == d.bridgePorts
             both(H) == H["pvid"] \cap H["bridgePorts"]
             port(H, i) == CHOOSE p \in both(H) : base[p] = i
  <2>1. G["bridgePorts"] = DOMAIN base /\ A["bridgePorts"] = DOMAIN base /\ A["pvid"] = DOMAIN d.pvid
    BY <1>2, KnownPorts, AllRowsAre
  <2>2. both(G) \subseteq both(A) /\ both(A) \subseteq DOMAIN base
    BY <2>1, RowsReadAre
  <2>3. \A p, q \in DOMAIN base : p = q <=> base[p] = base[q]
    BY ChecklistAssumption DEF OnePortAnInterface, BridgePortTables
  <2>4. \A H : VlanOf(d, H) = [i \in {base[p] : p \in both(H)} |-> d.pvid[port(H, i)]]
    BY <1>2 DEF VlanOf
  <2> HIDE DEF base
  <2>5. ASSUME NEW i \in {base[p] : p \in both(G)} PROVE port(G, i) = port(A, i) /\ i \in {base[p] : p \in both(A)}
    <3>1. PICK p \in both(G) : base[p] = i
      BY <2>5
    <3>2. \A q \in both(A) : base[q] = i => q = p
      BY <2>2, <2>3, <3>1
    <3>3. p \in both(A)
      BY <2>2, <3>1
    <3> HIDE DEF both
    <3>4. port(A, i) \in both(A) /\ base[port(A, i)] = i
      BY <3>1, <3>3
    <3>5. port(G, i) \in both(G) /\ base[port(G, i)] = i
      BY <3>1
    <3>6. port(A, i) = p
      BY <3>2, <3>4
    <3>7. port(G, i) = p
      BY <2>2, <3>2, <3>5
    <3> QED
      BY <3>1, <3>3, <3>6, <3>7
  <2> HIDE DEF port
  <2> DEFINE named(H) == {base[p] : p \in both(H)}
             told(H) == [i \in named(H) |-> d.pvid[port(H, i)]]
  <2>6. \A i \in DOMAIN VlanOf(d, G) : i \in DOMAIN VlanOf(d, A) /\ VlanOf(d, A)[i] = VlanOf(d, G)[i]
    <3>1. VlanOf(d, G) = told(G) /\ VlanOf(d, A) = told(A)
      BY <2>4
    <3>2. \A i \in named(G) : port(G, i) = port(A, i) /\ i \in named(A)
      BY <2>5
    <3> HIDE DEF named
    <3> QED
      BY <3>1, <3>2
  <2>7. VlanOf(d, G) # << >> => DOMAIN VlanOf(d, G) # {}
    <3>1. VlanOf(d, G) = [i \in {base[p] : p \in both(G)} |-> VlanOf(d, G)[i]]
      BY <2>4
    <3> HIDE DEF both
    <3> QED
      BY <3>1, EmptyFunction
  <2>8. ASSUME VlanOf(d, G) # << >>, ~CutShort(d, G, "pvid") PROVE VlanOf(d, A) = VlanOf(d, G)
    <3>1. G["pvid"] # {}
      <4>1. DOMAIN VlanOf(d, G) = {base[p] : p \in both(G)}
        BY <2>4
      <4>2. both(G) # {}
        BY <2>7, <2>8, <4>1
      <4> QED
        BY <4>2
    <3>2. G["pvid"] = DOMAIN d.pvid
      BY <2>8, <3>1, RowsAre DEF CutShort
    <3>3. both(G) = both(A)
      BY <2>1, <3>2
    <3> DEFINE vlans(B) == [i \in {base[p] : p \in B} |-> d.pvid[CHOOSE p \in B : base[p] = i]]
    <3>4. VlanOf(d, G) = vlans(both(G)) /\ VlanOf(d, A) = vlans(both(A))
      BY <1>2 DEF VlanOf, base
    <3> HIDE DEF both, vlans
    <3> QED
      BY <3>3, <3>4
  <2> QED
    BY <1>2, <2>6, <2>7, <2>8, NoneIsNothing DEF VlanAt
<1> QED
  BY <1>1, <1>2

LEMMA DefaultVlanEarned ==
  ASSUME NEW d \in Polled, NEW G, IsReading(d, G), PortsKnown(d, G), PortsAreWhole(d, G), DefaultVlan(d, G) = "pass"
  PROVE  DefaultVlan(d, AllRows(d)) = "pass"
<1> DEFINE A == AllRows(d)
<1>1. VlanOf(d, G) # << >> /\ \A i \in AccessPorts(d, G) : VlanAt(d, G, i) # 1 /\ VlanAt(d, G, i) # 0
  BY DEF DefaultVlan
<1>2. AccessPorts(d, A) \subseteq AccessPorts(d, G)
  BY AccessPortsShrink
<1>3. VlanOf(d, A) # << >> /\ \A i : VlanAt(d, G, i) # 0 => VlanAt(d, A, i) = VlanAt(d, G, i)
  BY <1>1, VlansStay
<1> HIDE DEF A
<1>4. \A i \in AccessPorts(d, A) : VlanAt(d, A, i) # 1 /\ VlanAt(d, A, i) # 0
  BY <1>1, <1>2, <1>3
<1> QED
  BY <1>3, <1>4 DEF DefaultVlan, A

LEMMA SecurityEarned ==
  ASSUME NEW d \in Polled, NEW G, IsReading(d, G), PortsKnown(d, G), PortsAreWhole(d, G), PortSecurity(d, G) = "pass"
  PROVE  PortSecurity(d, AllRows(d)) = "pass"
<1> DEFINE A == AllRows(d)
           global(H) == Scalar(H, d.securityGlobal)
<1>1. \A H : PortSecurity(d, H) =
         IF H["security"] = {} \/ global(H) = "none" THEN "unknown"
         ELSE IF \E i \in AccessPorts(d, H) \cap H["security"] : global(H) = "off" \/ ~d.security[i] THEN "fail"
         ELSE IF AccessPorts(d, H) \subseteq H["security"] THEN "pass" ELSE "unknown"
  BY Zenon DEF PortSecurity, Restrict
<1>2. /\ G["security"] # {} /\ global(G) # "none" /\ AccessPorts(d, G) \subseteq G["security"]
      /\ ~ \E i \in AccessPorts(d, G) \cap G["security"] : global(G) = "off" \/ ~d.security[i]
  BY <1>1
<1>3. G["security"] \subseteq A["security"] /\ A["scalars"] # {} /\ AccessPorts(d, A) \subseteq AccessPorts(d, G)
  <2>1. A["security"] = DOMAIN d.security /\ A["scalars"] # {}
    BY AllRowsAre
  <2>2. G["security"] \subseteq DOMAIN d.security
    BY RowsReadAre
  <2>3. AccessPorts(d, A) \subseteq AccessPorts(d, G)
    BY AccessPortsShrink
  <2> QED
    BY <2>1, <2>2, <2>3
<1> HIDE DEF A
<1>4. global(A) = global(G)
  BY <1>2, <1>3 DEF Scalar
<1> HIDE DEF global
<1>5. A["security"] # {} /\ global(A) # "none" /\ AccessPorts(d, A) \subseteq A["security"]
  BY <1>2, <1>3, <1>4
<1>6. ~ \E i \in AccessPorts(d, A) \cap A["security"] : global(A) = "off" \/ ~d.security[i]
  BY <1>2, <1>3, <1>4
<1> QED
  BY <1>1, <1>5, <1>6 DEF A

LEMMA SpareEarned ==
  ASSUME NEW d \in Polled, NEW G, IsReading(d, G), PortsKnown(d, G), PortsAreWhole(d, G), Names(G) = DOMAIN d.ifs,
         ~CutShort(d, G, "ifOper"), ~d.cisco => ~CutShort(d, G, "pvid"), SparePorts(d, G) = "pass"
  PROVE  SparePorts(d, AllRows(d)) = "pass"
<1> DEFINE A == AllRows(d)
           ports == AccessPorts(d, G)
           held(H) == Interfaces(d, H)
           uptime(H) == IF H["uptime"] # {} THEN d.uptime ELSE 0
           down(H) == {i \in ports : held(H)[i].oper = "down"}
           unclear(H) == {i \in down(H) : uptime(H) = 0 \/ held(H)[i].last = 0 \/ held(H)[i].last > uptime(H)}
           spare(H) == {i \in down(H) \ unclear(H) : held(H)[i].last <= BootWindow}
           used(H) == {1} \cup d.used \cup L3Vlans(held(H))
                        \cup ({VlanAt(d, G, i) : i \in {j \in ports : held(H)[j].oper = "up"}} \ {0})
<1>1. /\ VlanOf(d, G) # << >> /\ VlanOf(d, A) = VlanOf(d, G)
      /\ AccessPorts(d, A) = AccessPorts(d, G) /\ ports \subseteq DOMAIN d.ifs
  BY VlansStay, AccessPortsShrink DEF SparePorts
<1>2. \A i : VlanAt(d, A, i) = VlanAt(d, G, i)
  BY <1>1 DEF VlanAt
<1>3. /\ SparePorts(d, A) =
           IF VlanOf(d, G) = << >> THEN "unknown"
           ELSE IF \E i \in spare(A) : VlanAt(d, G, i) \in used(A) THEN "fail"
           ELSE IF unclear(A) # {} \/ (\E i \in ports : held(A)[i].oper = "none") \/ (\E i \in spare(A) : VlanAt(d, G, i) = 0) THEN "unknown"
           ELSE "pass"
      /\ SparePorts(d, G) =
           IF VlanOf(d, G) = << >> THEN "unknown"
           ELSE IF \E i \in spare(G) : VlanAt(d, G, i) \in used(G) THEN "fail"
           ELSE IF unclear(G) # {} \/ (\E i \in ports : held(G)[i].oper = "none") \/ (\E i \in spare(G) : VlanAt(d, G, i) = 0) THEN "unknown"
           ELSE "pass"
  BY <1>1, <1>2 DEF SparePorts
<1>4. /\ unclear(G) = {} /\ \A i \in ports : held(G)[i].oper # "none"
      /\ \A i \in spare(G) : VlanAt(d, G, i) \notin used(G) /\ VlanAt(d, G, i) # 0
  BY <1>1, <1>3
<1>5. /\ IsReading(d, A) /\ A["ifOper"] = DOMAIN d.ifs /\ A["ifLastChange"] = DOMAIN d.ifs /\ A["uptime"] # {}
      /\ A["ifType"] = DOMAIN d.ifs /\ G["ifType"] = DOMAIN d.ifs /\ Names(A) = DOMAIN d.ifs
  BY AllRowsAre, KnownPorts
<1>6. \A H \in {G, A} : DOMAIN held(H) = DOMAIN d.ifs /\ \A i \in DOMAIN d.ifs :
         /\ held(H)[i].routes = d.ifs[i].routes
         /\ held(H)[i].oper = IF i \in H["ifOper"] THEN d.ifs[i].oper ELSE "none"
         /\ held(H)[i].last = IF i \in H["ifLastChange"] THEN d.ifs[i].last ELSE 0
  BY <1>5, PortsOf
<1> HIDE DEF A
<1>7. SUFFICES /\ unclear(A) = {} /\ \A i \in ports : held(A)[i].oper # "none"
               /\ \A i \in spare(A) : VlanAt(d, G, i) \notin used(A) /\ VlanAt(d, G, i) # 0
  BY <1>1, <1>3 DEF A
<1>8. CASE ports = {}
  BY <1>8
<1>9. CASE ports # {}
  <2>1. G["ifOper"] = DOMAIN d.ifs
    <3>1. G["ifOper"] # {}
      BY <1>1, <1>4, <1>6, <1>9
    <3> QED
      BY <3>1, RowsAre DEF CutShort, IfColumns
  <2>2. \A i \in DOMAIN d.ifs : held(A)[i].oper = held(G)[i].oper /\ held(A)[i].routes = held(G)[i].routes
    BY <1>5, <1>6, <2>1
  <2>3. down(A) = down(G) /\ \A i \in ports : held(A)[i].oper # "none"
    BY <1>1, <1>4, <2>2
  <2>4. \A i \in down(G) : held(A)[i].last = held(G)[i].last /\ uptime(A) = uptime(G)
    <3>1. \A i \in down(G) : uptime(G) # 0 /\ held(G)[i].last # 0 /\ i \in DOMAIN d.ifs
      BY <1>1, <1>4
    <3>2. \A i \in down(G) : i \in G["ifLastChange"] /\ G["uptime"] # {}
      BY <1>6, <3>1
    <3> QED
      BY <1>5, <1>6, <3>1, <3>2
  <2>5. unclear(A) = unclear(G) /\ spare(A) = spare(G)
    BY <2>3, <2>4
  <2>6. used(A) = used(G)
    <3>1. L3Vlans(held(A)) = L3Vlans(held(G))
      BY <1>6, <2>2 DEF L3Vlans
    <3>2. {j \in ports : held(A)[j].oper = "up"} = {j \in ports : held(G)[j].oper = "up"}
      BY <1>1, <2>2
    <3> QED
      BY <3>1, <3>2
  <2> QED
    BY <1>4, <2>3, <2>5, <2>6
<1> QED
  BY <1>8, <1>9

LEMMA GuardEarned ==
  ASSUME NEW d \in Polled, NEW G, IsReading(d, G), NEW p, GuardOn(d, G, p) = "on"
  PROVE  GuardOn(d, AllRows(d), p) = "on" /\ p \in G["guard"] /\ p \in DOMAIN d.guard
<1> DEFINE A == AllRows(d)
           own(H) == Cell(d.guard, H["guard"], p)
           mode(H) == Cell(d.fastMode, H["fastMode"], p)
<1>1. p \in G["guard"]
  BY DEF GuardOn, Cell
<1>2. /\ G["guard"] \subseteq A["guard"] /\ G["fastMode"] \subseteq A["fastMode"] /\ A["scalars"] # {}
      /\ G["guard"] \subseteq DOMAIN d.guard
  <2>1. A["guard"] = DOMAIN d.guard /\ A["fastMode"] = DOMAIN d.fastMode /\ A["scalars"] # {}
    BY AllRowsAre
  <2>2. G["guard"] \subseteq DOMAIN d.guard /\ G["fastMode"] \subseteq DOMAIN d.fastMode
    BY RowsReadAre
  <2> QED
    BY <2>1, <2>2
<1> HIDE DEF A
<1>3. own(A) = own(G)
  BY <1>1, <1>2 DEF Cell
<1>4. CASE own(G) # "default"
  <2>1. own(G) = "enable"
    BY <1>4 DEF GuardOn
  <2> HIDE DEF own
  <2>2. own(A) # "default" /\ own(A) = "enable"
    BY <1>3, <2>1
  <2> QED
    BY <1>1, <1>2, <2>2 DEF GuardOn, own, A
<1>5. CASE own(G) = "default"
  <2>1. Scalar(G, d.guardGlobal) = "on" /\ (mode(G) \in {"enable", "trunk"} \/ (mode(G) = "default" /\ Scalar(G, d.fastGlobal) = "on"))
    BY <1>5 DEF GuardOn
  <2>2. G["scalars"] # {} /\ p \in G["fastMode"]
    BY <2>1 DEF Scalar, Cell
  <2>3. /\ Scalar(A, d.guardGlobal) = Scalar(G, d.guardGlobal) /\ Scalar(A, d.fastGlobal) = Scalar(G, d.fastGlobal)
        /\ mode(A) = mode(G)
    BY <1>2, <2>2 DEF Scalar, Cell
  <2> HIDE DEF own, mode
  <2>4. GuardOn(d, A, p) = GuardOn(d, G, p)
    BY <1>3, <1>5, <2>3 DEF GuardOn, own, mode
  <2> QED
    BY <1>1, <1>2, <2>4 DEF A
<1> QED
  BY <1>4, <1>5

LEMMA InterfaceIs ==
  ASSUME NEW d \in Polled, NEW G, IsReading(d, G), NEW V, AreContexts(d, V)
  PROVE  \A p \in DOMAIN InterfaceOf(d, G, V) :
           \E f \in BridgePortTables(d) : p \in DOMAIN f /\ InterfaceOf(d, G, V)[p] = f[p]
<1> TAKE p \in DOMAIN InterfaceOf(d, G, V)
<1> DEFINE in == {v \in DOMAIN V : p \in V[v]}
<1>1. CASE in # {}
  <2> DEFINE w == CHOOSE v \in in : TRUE
  <2>1. w \in in
    BY <1>1
  <2>2. InterfaceOf(d, G, V)[p] = d.context[w][p]
    BY <1>1 DEF InterfaceOf
  <2>3. w \in DOMAIN d.context /\ p \in DOMAIN d.context[w]
    BY <2>1 DEF AreContexts
  <2> HIDE DEF w, in
  <2> QED
    BY <2>2, <2>3 DEF BridgePortTables
<1>2. CASE in = {}
  <2>1. p \in G["bridgePorts"] /\ InterfaceOf(d, G, V)[p] = d.bridgePorts[p]
    BY <1>2 DEF InterfaceOf
  <2>2. G["bridgePorts"] \subseteq DOMAIN d.bridgePorts
    BY RowsReadAre
  <2> QED
    BY <2>1, <2>2 DEF BridgePortTables
<1> QED
  BY <1>1, <1>2

LEMMA AllContextsAre ==
  ASSUME NEW d
  PROVE  AreContexts(d, AllContexts(d)) /\ \A v \in DOMAIN d.context : AllContexts(d)[v] = DOMAIN d.context[v]
  BY DEF AllContexts, AreContexts

LEMMA MoreInterfaces ==
  ASSUME NEW d \in Polled, NEW G, IsReading(d, G), NEW V, AreContexts(d, V)
  PROVE  DOMAIN InterfaceOf(d, G, V) \subseteq DOMAIN InterfaceOf(d, AllRows(d), AllContexts(d))
<1> DEFINE known(W) == UNION {W[v] : v \in DOMAIN W}
           W == AllContexts(d)
           A == AllRows(d)
<1>1. G["bridgePorts"] \subseteq A["bridgePorts"]
  <2>1. A["bridgePorts"] = DOMAIN d.bridgePorts
    BY AllRowsAre
  <2>2. G["bridgePorts"] \subseteq DOMAIN d.bridgePorts
    BY RowsReadAre
  <2> QED
    BY <2>1, <2>2
<1>2. known(V) \subseteq known(W)
  BY AllContextsAre DEF AreContexts
<1> HIDE DEF A, W
<1>3. DOMAIN InterfaceOf(d, G, V) = G["bridgePorts"] \cup known(V) /\ DOMAIN InterfaceOf(d, A, W) = A["bridgePorts"] \cup known(W)
  BY DEF InterfaceOf
<1> HIDE DEF known
<1> QED
  BY <1>1, <1>2, <1>3 DEF A, W

LEMMA SamePort ==
  ASSUME NEW d \in Polled, NEW G, IsReading(d, G), NEW V, AreContexts(d, V), NEW i,
         PortsAt(d, G, V, i) # {}
  PROVE  PortsAt(d, AllRows(d), AllContexts(d), i) = PortsAt(d, G, V, i)
<1> DEFINE T == BridgePortTables(d)
           held == InterfaceOf(d, G, V)
           full == InterfaceOf(d, AllRows(d), AllContexts(d))
<1>1. OnePortAnInterface(T)
  BY ChecklistAssumption
<1>2. \A p \in DOMAIN held : \E f \in T : p \in DOMAIN f /\ held[p] = f[p]
  BY InterfaceIs
<1>3. \A p \in DOMAIN full : \E f \in T : p \in DOMAIN f /\ full[p] = f[p]
  BY InterfaceIs, AllRowsAre, AllContextsAre
<1>4. DOMAIN held \subseteq DOMAIN full
  BY MoreInterfaces
<1> HIDE DEF T, held, full
<1>6. \A p \in DOMAIN held, q \in DOMAIN full : p = q <=> held[p] = full[q]
  BY <1>1, <1>2, <1>3 DEF OnePortAnInterface
<1>7. {p \in DOMAIN held : held[p] = i} # {} => {p \in DOMAIN full : full[p] = i} = {p \in DOMAIN held : held[p] = i}
  BY <1>4, <1>6
<1> QED
  BY <1>7 DEF PortsAt, held, full

GuardStates == {"on", "off", "unknown"}

LEMMA GuardStatesAre ==
  ASSUME NEW d \in Polled, NEW G, NEW p
  PROVE  GuardOn(d, G, p) \in GuardStates
<1> DEFINE own == Cell(d.guard, G["guard"], p)
           mode == Cell(d.fastMode, G["fastMode"], p)
           global == Scalar(G, d.guardGlobal)
           fast == Scalar(G, d.fastGlobal)
<1>1. fast \in {"on", "off", "none"}
  BY ChecklistAssumption DEF Scalar
<1>2. GuardOn(d, G, p) =
        IF own # "default" THEN CASE own = "enable" -> "on" [] own = "disable" -> "off" [] OTHER -> "unknown"
        ELSE IF global # "on" THEN IF global = "none" THEN "unknown" ELSE "off"
        ELSE CASE mode \in {"enable", "trunk"} -> "on"
               [] mode = "default" -> IF fast = "none" THEN "unknown" ELSE fast
               [] mode = "none" -> "unknown"
               [] OTHER -> "off"
  BY DEF GuardOn
<1> HIDE DEF own, mode, global, fast
<1> QED
  BY <1>1, <1>2 DEF GuardStates

\* What is said of every port at once, and of one port alone.
States(d, G) == {GuardOn(d, G, p) : p \in BpduPorts(G)}
LastPort(d, G, V, i) == CHOOSE p \in PortsAt(d, G, V, i) : \A q \in PortsAt(d, G, V, i) : q <= p
StateOf(d, G, V, i) ==
  IF Cardinality(States(d, G)) = 1 THEN CHOOSE s \in States(d, G) : TRUE
  ELSE IF PortsAt(d, G, V, i) \cap BpduPorts(G) = {} THEN "unknown" ELSE GuardOn(d, G, LastPort(d, G, V, i))

LEMMA BpduGuardIs ==
  ASSUME NEW d \in Polled, NEW G, NEW V
  PROVE  LET seen == {StateOf(d, G, V, i) : i \in AccessPorts(d, G)}
         IN BpduGuard(d, G, V) =
              IF BpduPorts(G) = {} \/ ("unknown" \in seen /\ "off" \notin seen) THEN "unknown"
              ELSE IF "off" \in seen THEN "fail" ELSE "pass"
  BY Zenon DEF BpduGuard, StateOf, LastPort, States

LEMMA OneState ==
  ASSUME NEW d \in Polled, NEW G
  PROVE  /\ Cardinality(States(d, G)) = 1 <=> \E s : States(d, G) = {s}
         /\ IsFiniteSet(States(d, G))
<1>1. States(d, G) \subseteq GuardStates
  BY GuardStatesAre DEF States
<1>2. IsFiniteSet(GuardStates)
  <2>1. IsFiniteSet({"on"}) /\ IsFiniteSet({"off"}) /\ IsFiniteSet({"unknown"})
    BY FS_Singleton
  <2>2. IsFiniteSet(({"on"} \cup {"off"}) \cup {"unknown"})
    BY <2>1, FS_Union
  <2>3. GuardStates = ({"on"} \cup {"off"}) \cup {"unknown"}
    BY DEF GuardStates
  <2> QED
    BY <2>2, <2>3
<1>3. IsFiniteSet(States(d, G))
  BY <1>1, <1>2, FS_Subset
<1> QED
  BY <1>3, FS_Singleton

LEMMA StateIs ==
  ASSUME NEW d \in Polled, NEW G, NEW V, NEW i, BpduPorts(G) # {}
  PROVE  StateOf(d, G, V, i) \in GuardStates
<1>1. States(d, G) # {} /\ States(d, G) \subseteq GuardStates
  BY GuardStatesAre DEF States
<1>2. (CHOOSE s \in States(d, G) : TRUE) \in States(d, G)
  BY <1>1
<1> QED
  BY <1>1, <1>2, GuardStatesAre DEF StateOf, GuardStates

LEMMA BpduEarned ==
  ASSUME NEW d \in Polled, NEW G, IsReading(d, G), NEW V, AreContexts(d, V),
         PortsKnown(d, G), PortsAreWhole(d, G), ~CutShort(d, G, "guard"), BpduGuard(d, G, V) = "pass"
  PROVE  BpduGuard(d, AllRows(d), AllContexts(d)) = "pass"
<1> DEFINE A == AllRows(d)
           W == AllContexts(d)
<1>1. BpduPorts(G) # {} /\ \A i \in AccessPorts(d, G) : StateOf(d, G, V, i) = "on"
  <2> DEFINE seen == {StateOf(d, G, V, i) : i \in AccessPorts(d, G)}
  <2>1. BpduPorts(G) # {} /\ "unknown" \notin seen /\ "off" \notin seen
    <3>1. BpduGuard(d, G, V) =
              IF BpduPorts(G) = {} \/ ("unknown" \in seen /\ "off" \notin seen) THEN "unknown"
              ELSE IF "off" \in seen THEN "fail" ELSE "pass"
      BY BpduGuardIs
    <3> HIDE DEF seen
    <3> QED
      BY <3>1
  <2>2. \A i \in AccessPorts(d, G) : StateOf(d, G, V, i) \in GuardStates
    BY <2>1, StateIs
  <2> QED
    BY <2>1, <2>2 DEF GuardStates
<1>2. /\ G["guard"] \subseteq DOMAIN d.guard /\ G["fastMode"] \subseteq DOMAIN d.fastMode
      /\ A["guard"] = DOMAIN d.guard /\ A["fastMode"] = DOMAIN d.fastMode
      /\ AccessPorts(d, A) \subseteq AccessPorts(d, G)
  BY RowsReadAre, AllRowsAre, AccessPortsShrink
<1> HIDE DEF A, W
<1>3. BpduPorts(A) # {}
  BY <1>1, <1>2 DEF BpduPorts
<1>4. SUFFICES \A i \in AccessPorts(d, A) : StateOf(d, A, W, i) = "on"
  <2> DEFINE seen == {StateOf(d, A, W, i) : i \in AccessPorts(d, A)}
  <2>1. "unknown" \notin seen /\ "off" \notin seen
    BY <1>4
  <2>2. BpduGuard(d, A, W) =
              IF BpduPorts(A) = {} \/ ("unknown" \in seen /\ "off" \notin seen) THEN "unknown"
              ELSE IF "off" \in seen THEN "fail" ELSE "pass"
    BY BpduGuardIs
  <2> HIDE DEF seen
  <2> QED
    BY <1>3, <2>1, <2>2 DEF A, W
<1>5. TAKE i \in AccessPorts(d, A)
<1>6. i \in AccessPorts(d, G) /\ StateOf(d, G, V, i) = "on"
  BY <1>1, <1>2
\* Some port is guarded by what was read, so the column was, whole, and it has a row for every port.
<1>7. G["guard"] = DOMAIN d.guard /\ DOMAIN d.guard # {}
  <2>1. States(d, G) # {}
    BY <1>1 DEF States
  <2>2. (CHOOSE s \in States(d, G) : TRUE) \in States(d, G)
    BY <2>1
  <2>3. \E p : GuardOn(d, G, p) = "on"
    BY <1>6, <2>2 DEF StateOf, States
  <2>4. G["guard"] # {}
    BY <2>3, GuardEarned
  <2> QED
    BY <1>2, <2>4, RowsAre DEF CutShort
<1>8. BpduPorts(G) = DOMAIN d.guard /\ BpduPorts(A) = DOMAIN d.guard
  BY <1>2, <1>7, ChecklistAssumption DEF BpduPorts
<1>9. \A H, X : (\E s : States(d, H) = {s}) /\ "on" \in States(d, H) => StateOf(d, H, X, i) = "on"
  <2> TAKE H, X
  <2> HAVE (\E s : States(d, H) = {s}) /\ "on" \in States(d, H)
  <2>1. Cardinality(States(d, H)) = 1 /\ States(d, H) = {"on"}
    BY OneState
  <2> QED
    BY <2>1 DEF StateOf
<1>10. CASE Cardinality(States(d, G)) = 1
  <2>1. States(d, G) = {"on"}
    BY <1>6, <1>10, OneState DEF StateOf
  <2>2. \A p \in DOMAIN d.guard : GuardOn(d, A, p) = "on"
    BY <1>8, <2>1, GuardEarned DEF States, A
  <2>3. States(d, A) = {"on"}
    BY <1>3, <1>8, <2>2 DEF States
  <2> QED
    BY <1>9, <2>3
<1>11. CASE Cardinality(States(d, G)) # 1
  <2> DEFINE p == LastPort(d, G, V, i)
  <2>1. GuardOn(d, G, p) = "on" /\ PortsAt(d, G, V, i) \cap BpduPorts(G) # {}
    BY <1>6, <1>11 DEF StateOf
  <2>2. PortsAt(d, A, W, i) = PortsAt(d, G, V, i)
    BY <2>1, SamePort DEF A, W
  <2>3. LastPort(d, A, W, i) = p
    BY <2>2 DEF LastPort
  <2>4. GuardOn(d, A, p) = "on" /\ p \in DOMAIN d.guard
    BY <2>1, GuardEarned DEF A
  <2>5. "on" \in States(d, A)
    BY <1>8, <2>4 DEF States
  <2> HIDE DEF p
  <2>6. CASE Cardinality(States(d, A)) = 1
    BY <1>9, <2>5, <2>6, OneState
  <2>7. CASE Cardinality(States(d, A)) # 1
    <3>1. PortsAt(d, A, W, i) \cap BpduPorts(A) # {}
      BY <1>8, <2>1, <2>2
    <3> QED
      BY <2>3, <2>4, <2>7, <3>1 DEF StateOf
  <2> QED
    BY <2>6, <2>7
<1> QED
  BY <1>10, <1>11

\* Every check: what is read only ever earns the pass that reading everything would give.
LEMMA CheckEarned ==
  ASSUME NEW d \in Polled, NEW G, IsReading(d, G), NEW V, AreContexts(d, V),
         NEW k \in DeviceChecks \cup PortChecks, Evaluated(d, G, V)[k] = "pass", ~TookPartForWhole(k, d, G)
  PROVE  Everything(d)[k] = "pass"
<1> DEFINE A == AllRows(d)
           W == AllContexts(d)
<1>1. \A H, X : Evaluated(d, H, X)[k] =
         IF NotApplicable(k, d) THEN "not_applicable"
         ELSE IF k \in PortChecks /\ ~PortsKnown(d, H) THEN "unknown" ELSE Check(k, d, H, X)
  BY DEF Evaluated
<1>2. ~NotApplicable(k, d) /\ Check(k, d, G, V) = "pass" /\ (k \in PortChecks => PortsKnown(d, G))
  BY <1>1
<1>3. /\ \A q \in TakenForWhole(k, d) : ~CutShort(d, G, q)
      /\ k = "spare_ports" => Names(G) = DOMAIN d.ifs
      /\ k \in {"telnet", "http"} => (TcpRead(G) => \A q \in TcpTables : G[q] = RowsOf(d, q))
  BY DEF TookPartForWhole
<1>4. k \in PortChecks => PortsAreWhole(d, G)
  <2>1. k = "bpdu_guard" => d.cisco
    BY <1>2 DEF NotApplicable, CiscoChecks
  <2> QED
    BY <1>3, <2>1 DEF TakenForWhole, PortsAreWhole, MembersTable, PortChecks
<1>5. k \in PortChecks => PortsKnown(d, A)
  BY <1>2, <1>4, KnownPorts
<1>6. SUFFICES Check(k, d, A, W) = "pass"
  BY <1>1, <1>2, <1>5 DEF Everything
<1>7. CASE k = "telnet"
  BY <1>2, <1>3, <1>7, TcpEarned DEF Check
<1>8. CASE k = "http"
  BY <1>2, <1>3, <1>8, TcpEarned DEF Check
<1>9. CASE k = "snmp_no_auth"
  BY <1>2, <1>9 DEF Check
<1>10. CASE k = "default_community"
  BY <1>2, <1>10 DEF Check, DefaultCommunity
<1>11. CASE k = "spare_ports"
  <2>1. k \in PortChecks
    BY <1>11 DEF PortChecks
  <2>2. ~CutShort(d, G, "ifOper") /\ (~d.cisco => ~CutShort(d, G, "pvid"))
    BY <1>3, <1>11 DEF TakenForWhole
  <2>3. SparePorts(d, G) = "pass"
    BY <1>2, <1>11 DEF Check
  <2>4. SparePorts(d, A) = "pass"
    BY <1>2, <1>3, <1>4, <1>11, <2>1, <2>2, <2>3, SpareEarned
  <2> QED
    BY <1>11, <2>4 DEF Check
<1>12. CASE k = "default_vlan"
  BY <1>2, <1>4, <1>12, DefaultVlanEarned DEF Check, PortChecks
<1>13. CASE k = "bpdu_guard"
  <2>1. k \in PortChecks
    BY <1>13 DEF PortChecks
  <2>2. ~CutShort(d, G, "guard")
    BY <1>3, <1>13 DEF TakenForWhole
  <2>3. BpduGuard(d, G, V) = "pass"
    BY <1>2, <1>13 DEF Check
  <2>4. BpduGuard(d, A, W) = "pass"
    BY <1>2, <1>4, <2>1, <2>2, <2>3, BpduEarned
  <2> QED
    BY <1>13, <2>4 DEF Check
<1>14. CASE k = "port_security"
  BY <1>2, <1>4, <1>14, SecurityEarned DEF Check, PortChecks
<1> QED
  BY <1>7, <1>8, <1>9, <1>10, <1>11, <1>12, <1>13, <1>14 DEF DeviceChecks, PortChecks

\* A device is evaluated on the rows it answered of what it was asked, or on nothing at all.
ReadingInv ==
  /\ device \in Polled /\ asking \in Nat \ {0} /\ IsReading(device, got) /\ AreContexts(device, contexts)
  /\ results \in {<< >>, Evaluated(device, got, contexts), EvaluatedWithoutData(device)}

\* Whatever was read of a device, it is evaluated on that, or on nothing (checklist/stage.py run_stage).
THEOREM ReadingAlways == ChecklistSpec => []ReadingInv
<1>1. ChecklistInit => ReadingInv
  BY DEF ChecklistInit, ChecklistStarts, NothingRead, NoContexts, ReadingInv, IsReading, AreContexts, Asks
<1>2. ReadingInv /\ [ChecklistNext]_checklistVars => ReadingInv'
  <2> SUFFICES ASSUME ReadingInv, [ChecklistNext]_checklistVars PROVE ReadingInv'
    OBVIOUS
  <2>1. Reading => Asked \in Asks
    <3>1. Reading => asking \in DOMAIN Questions
      BY DEF ReadingInv, Reading, Questions
    <3> QED
      BY <3>1 DEF Asked, Asks, Range
  <2>2. CASE Reads
    <3>1. PICK S \in SUBSET RowsOf(device, Asked) : got' = [got EXCEPT ![Asked] = S]
      BY <2>2 DEF Reads
    <3>2. IsReading(device, got')
      BY <2>1, <2>2, <3>1 DEF ReadingInv, Reads, IsReading
    <3> QED
      BY <2>2, <3>2 DEF ReadingInv, Reads, Reading
  <2>3. CASE PassesOver
    BY <2>3 DEF ReadingInv, PassesOver, Reading
  <2>4. CASE ReadsContexts
    <3>1. PICK part : contexts' = [v \in DOMAIN contexts |-> {p \in DOMAIN device.context[v] : <<v, p>> \in part}]
      BY <2>4 DEF ReadsContexts
    <3>2. AreContexts(device, contexts')
      BY <3>1 DEF ReadingInv, AreContexts
    <3> QED
      BY <2>4, <3>2 DEF ReadingInv, ReadsContexts, Reading
  <2>5. CASE ReadingFails
    BY <2>5 DEF ReadingInv, ReadingFails, NothingRead, NoContexts, IsReading, AreContexts, Asks
  <2>6. CASE EvaluatesDevice
    BY <2>6 DEF ReadingInv, EvaluatesDevice
  <2>7. CASE UNCHANGED checklistVars
    BY <2>7 DEF ReadingInv, checklistVars
  <2> QED
    BY <2>2, <2>3, <2>4, <2>5, <2>6, <2>7 DEF ChecklistNext
<1> QED
  BY <1>1, <1>2, PTL DEF ChecklistSpec

\* evaluate.py:14: whatever tables stay unanswered and wherever their walks break off, no check takes what is missing
\* for what is well, unless it took a part of a table for the whole.
THEOREM PassesAlwaysEarned == ChecklistSpec => []PassesAreEarned
<1>1. ReadingInv => PassesAreEarned
  <2> SUFFICES ASSUME ReadingInv, NEW k \in DOMAIN results, results[k] = "pass", ~TookPartForWhole(k, device, got)
               PROVE  Everything(device)[k] = "pass"
    BY DEF PassesAreEarned
  <2>1. results # << >>
    BY NoneIsNothing
  <2>2. results # EvaluatedWithoutData(device)
    BY DEF EvaluatedWithoutData
  <2>3. results = Evaluated(device, got, contexts)
    BY <2>1, <2>2 DEF ReadingInv
  <2>4. k \in DeviceChecks \cup PortChecks
    BY <2>3 DEF Evaluated
  <2> HIDE DEF Evaluated
  <2> QED
    BY <2>3, <2>4, CheckEarned DEF ReadingInv
<1> QED
  BY <1>1, ReadingAlways, PTL

-----------------------------------------------------------------------------
(***************************************************************************)
(* The assembly of the graph (module Assemble). Each method of build() is    *)
(* proved to leave what the ones after it rely on: the agents LLDP announced *)
(* are no devices any more, a table places only on polled switches, a late   *)
(* device was never polled, and every agent that is nowhere has its reason.  *)
(***************************************************************************)
\* The numbers are well ordered, which is what makes the smallest, the largest and a loop over them well defined.
LEMMA LeastNatural ==
  ASSUME NEW S \in SUBSET Nat, S # {}
  PROVE  \E m \in S : \A n \in S : m <= n
<1> DEFINE R == OpToRel(<, Nat)
<1>1. IsWellFoundedOn(R, Nat)
  BY NatLessThanWellFounded
<1>2. \A m, n \in Nat : n < m => <<n, m>> \in R
  BY DEF OpToRel
<1> HIDE DEF R
<1>3. \E m \in S : \A n \in S : <<n, m>> \notin R
  BY <1>1, WFMin
<1>4. PICK m \in S : \A n \in S : <<n, m>> \notin R
  BY <1>3
<1>5. ASSUME NEW n \in S PROVE m <= n
  <2>1. m \in Nat /\ n \in Nat
    OBVIOUS
  <2>2. ~(n < m)
    BY <1>2, <1>4, <2>1
  <2> QED
    BY <2>1, <2>2
<1> QED
  BY <1>5

LEMMA LeastOf ==
  ASSUME NEW S, S # {}, NEW f, \A x \in S : f[x] \in Nat
  PROVE  \E a \in S : \A y \in S : f[a] <= f[y]
<1> DEFINE T == {f[x] : x \in S}
<1>1. T \in SUBSET Nat /\ T # {}
  OBVIOUS
<1>2. PICK m \in T : \A n \in T : m <= n
  BY <1>1, LeastNatural
<1>3. PICK a \in S : m = f[a]
  BY <1>2
<1> QED
  BY <1>2, <1>3

LEMMA ByNumbers ==
  ASSUME NEW S, 0 \in S, \A n \in Nat : n \in S => n + 1 \in S
  PROVE  Nat \subseteq S
<1>1. SUFFICES ASSUME Nat \ S # {} PROVE FALSE
  OBVIOUS
<1>2. PICK m \in Nat \ S : \A n \in Nat \ S : m <= n
  BY <1>1, LeastNatural
<1>3. m # 0 /\ m - 1 \in Nat
  BY <1>2
<1>4. m - 1 \in S
  BY <1>2, <1>3
<1>5. (m - 1) + 1 \in S
  BY <1>3, <1>4
<1> QED
  BY <1>2, <1>5

LEMMA LargestIs ==
  ASSUME NEW n \in Nat, NEW S \in SUBSET (1..n), S # {}
  PROVE  Largest(S) \in S
<1> DEFINE T == {n - x : x \in S}
<1>1. T \in SUBSET Nat /\ T # {}
  <2>1. \A x \in S : x \in 1..n
    OBVIOUS
  <2>2. \A x \in 1..n : n - x \in Nat
    OBVIOUS
  <2> QED
    BY <2>1, <2>2
<1>2. PICK m \in T : \A k \in T : m <= k
  BY <1>1, LeastNatural
<1>3. PICK x \in S : m = n - x
  BY <1>2
<1>4. \A y \in S : y <= x
  <2> TAKE y \in S
  <2>1. n - y \in T /\ x \in 1..n /\ y \in 1..n
    OBVIOUS
  <2>2. m <= n - y
    BY <1>2, <2>1
  <2> QED
    BY <1>3, <2>1, <2>2
<1> HIDE DEF T
<1> QED
  BY <1>4 DEF Largest

LEMMA OverIs ==
  ASSUME NEW f, NEW g
  PROVE  /\ DOMAIN Over(f, g) = DOMAIN f \cup DOMAIN g
         /\ \A x \in DOMAIN f : Over(f, g)[x] = f[x]
         /\ \A x \in DOMAIN g \ DOMAIN f : Over(f, g)[x] = g[x]
  BY DEF Over

LEMMA NodesDiffer ==
  /\ \A i, j : Agent(i) = Agent(j) => i = j
  /\ \A i, j : Host(i) = Host(j) => i = j
  /\ \A i, j : Agent(i) # Host(j)
  /\ \A i : Agent(i)[1] = "endpoint" /\ Agent(i)[2] = i /\ Host(i)[1] = "host" /\ Host(i)[2] = i
  /\ \A i : Agent(i) # << >> /\ Host(i) # << >>
  BY DEF Agent, Host

-----------------------------------------------------------------------------
\* What a document says.

Given == doc \in Documents

LEMMA GivenIs ==
  ASSUME Given
  PROVE  /\ Chassis \subseteq Nat \ {None} /\ FirstName \in Nat
         /\ Len(doc.order) \in Nat /\ DOMAIN doc.order = 1..Len(doc.order)
         /\ \A k \in 1..Len(doc.order) : doc.order[k] \in Chassis
         /\ Len(doc.agents) \in Nat /\ AgentIds = 1..Len(doc.agents)
         /\ \A i \in AgentIds : doc.agents[i].mac \in Macs \cup {None}
         /\ DOMAIN doc.arp \subseteq Macs
         /\ \A c \in Chassis : /\ doc.node[c].fdb \subseteq [mac : Macs, port : Nat, vlan : Nat]
                               /\ doc.node[c].fdb # {} => doc.node[c].pollable
                               /\ Len(doc.node[c].clients) \in Nat
<1>1. doc.order \in Seq(Chassis) /\ doc.agents \in Seq([mac : Macs \cup {None}, ip : Nat, status : STRING])
  BY AssembleAssumption DEF Given, Chassis
<1>2. /\ Len(doc.order) \in Nat /\ DOMAIN doc.order = 1..Len(doc.order)
      /\ \A k \in 1..Len(doc.order) : doc.order[k] \in Chassis
  BY <1>1
<1>3. /\ Len(doc.agents) \in Nat /\ AgentIds = 1..Len(doc.agents)
      /\ \A i \in AgentIds : doc.agents[i].mac \in Macs \cup {None}
  <2> DEFINE A == [mac : Macs \cup {None}, ip : Nat, status : STRING]
  <2>1. \A a \in A : a.mac \in Macs \cup {None}
    OBVIOUS
  <2> HIDE DEF A
  <2>2. doc.agents \in Seq(A)
    BY <1>1 DEF A
  <2>3. Len(doc.agents) \in Nat /\ AgentIds = 1..Len(doc.agents) /\ \A i \in AgentIds : doc.agents[i] \in A
    BY <2>2 DEF AgentIds
  <2> QED
    BY <2>1, <2>3
<1>4. ASSUME NEW c \in Chassis
      PROVE  /\ doc.node[c].fdb \subseteq [mac : Macs, port : Nat, vlan : Nat]
             /\ doc.node[c].fdb # {} => doc.node[c].pollable
             /\ Len(doc.node[c].clients) \in Nat
  <2>1. /\ doc.node[c].fdb \subseteq [mac : Macs, port : Nat, vlan : Nat]
        /\ doc.node[c].fdb # {} => doc.node[c].pollable
        /\ doc.node[c].clients \in Seq([mac : Macs, ip : Nat, radio : Nat])
    BY AssembleAssumption DEF Given, Chassis
  <2> QED
    BY <2>1
<1> QED
  BY <1>2, <1>3, <1>4, AssembleAssumption DEF Given, Chassis

\* Of a device nobody polled another told, which was.
LEMMA SwitchIs ==
  ASSUME Given, NEW c, ~doc.node[c].pollable, SwitchAndPort(c).switch \in Chassis
  PROVE  doc.node[SwitchAndPort(c).switch].pollable
<1>1. /\ DOMAIN doc.edges \subseteq Nat
      /\ \A i \in DOMAIN doc.edges :
           \E d \in {doc.edges[i].source, doc.edges[i].target} \cap Chassis : doc.node[d].pollable
  <2>1. doc.edges \in Seq([source : Nat, local : Nat, target : Nat, remote : Nat])
    BY AssembleAssumption DEF Given
  <2>2. DOMAIN doc.edges \subseteq Nat
    BY <2>1
  <2> QED
    BY <2>2, AssembleAssumption DEF Given, Chassis
<1>2. None \notin Chassis
  BY GivenIs
<1>3. Touching(c) # {}
  <2>1. ASSUME Touching(c) = {} PROVE FALSE
    <3>1. SwitchAndPort(c).switch = None
      BY <2>1 DEF SwitchAndPort
    <3> QED
      BY <1>2, <3>1
  <2> QED
    BY <2>1
<1>4. Touching(c) \in SUBSET Nat
  BY <1>1 DEF Touching
<1>5. \E i \in Touching(c) : \A j \in Touching(c) : i <= j
  BY <1>3, <1>4, LeastNatural
<1>6. PICK i \in Touching(c) : i = CHOOSE k \in Touching(c) : \A j \in Touching(c) : k <= j
  BY <1>5
<1>7. SwitchAndPort(c).switch = IF doc.edges[i].target = c THEN doc.edges[i].source ELSE doc.edges[i].target
  BY <1>3, <1>6 DEF SwitchAndPort
<1>8. i \in DOMAIN doc.edges /\ c \in {doc.edges[i].source, doc.edges[i].target}
  BY DEF Touching
<1> QED
  BY <1>1, <1>7, <1>8

\* A MAC is no name: the chassis that has it for its id has it for its MAC.
LEMMA MacIs ==
  ASSUME Given, NEW m \in Macs
  PROVE  MacOf(m) = m /\ m # None /\ m \in Nat
  BY GivenIs DEF Macs, MacOf, None

LEMMA LearnedIs ==
  ASSUME Given, NEW m \in Learned
  PROVE  m \in Macs /\ m \notin Infra
<1>1. PICK c \in Chassis : \E e \in doc.node[c].fdb : m = e.mac
  BY DEF Learned
<1>2. m \in Macs
  BY <1>1, GivenIs
<1>3. Candidates(m) # {}
  BY DEF Learned
<1> QED
  BY <1>2, <1>3 DEF Candidates

\* The best place is one of them: places are ordered by four numbers, one after the other.
LEMMA FactIs ==
  ASSUME Given, NEW m \in Learned
  PROVE  /\ Fact(m).switch \in Chassis /\ Fact(m).switch # None /\ doc.node[Fact(m).switch].pollable
<1> DEFINE S == Candidates(m)
<1>1. S # {}
  BY DEF Learned
<1>2. \A x \in S : /\ x.macs \in Nat /\ x.switch \in Nat /\ x.port \in Nat /\ x.vlan \in Nat
                   /\ x.switch \in Chassis /\ doc.node[x.switch].pollable
  <2> TAKE x \in S
  <2>1. PICK c \in Chassis : \E e \in {f \in doc.node[c].fdb : f.mac = m /\ f.port \notin doc.node[c].uplinks} :
                x = [macs |-> Cardinality(MacsOnPort(c, e.port)), switch |-> c, port |-> e.port, vlan |-> e.vlan]
    BY LearnedIs DEF Candidates
  <2>2. PICK e \in doc.node[c].fdb :
                x = [macs |-> Cardinality(MacsOnPort(c, e.port)), switch |-> c, port |-> e.port, vlan |-> e.vlan]
    BY <2>1
  <2>3. e \in [mac : Macs, port : Nat, vlan : Nat] /\ c \in Nat /\ doc.node[c].pollable
    BY <2>2, GivenIs
  <2>4. Cardinality(MacsOnPort(c, e.port)) \in Nat
    <3>1. MacsOnPort(c, e.port) \subseteq 1..(FirstName - 1)
      BY GivenIs DEF MacsOnPort, Macs
    <3>2. IsFiniteSet(1..(FirstName - 1))
      <4>1. FirstName - 1 \in Int /\ 1 \in Int
        BY GivenIs
      <4> QED
        BY <4>1, FS_Interval
    <3> QED
      BY <3>1, <3>2, FS_Subset, FS_CardinalityType
  <2> QED
    BY <2>2, <2>3, <2>4
<1> HIDE DEF S
<1>3. PICK a \in S : \A y \in S : a.macs <= y.macs
  <2> DEFINE f == [x \in S |-> x.macs]
  <2>1. S # {} /\ \A x \in S : f[x] \in Nat /\ f[x] = x.macs
    BY <1>1, <1>2
  <2> HIDE DEF f, S
  <2>2. PICK a \in S : \A y \in S : f[a] <= f[y]
    BY <2>1, LeastOf
  <2> QED
    BY <2>1, <2>2
<1> DEFINE T == {x \in S : x.macs = a.macs}
<1>4. PICK b \in T : \A y \in T : b.switch <= y.switch
  <2> DEFINE f == [x \in T |-> x.switch]
  <2>1. T # {} /\ \A x \in T : f[x] \in Nat /\ f[x] = x.switch
    BY <1>1, <1>2
  <2> HIDE DEF f, T
  <2>2. PICK b \in T : \A y \in T : f[b] <= f[y]
    BY <2>1, LeastOf
  <2> QED
    BY <2>1, <2>2
<1> DEFINE U == {x \in T : x.switch = b.switch}
<1>5. PICK c \in U : \A y \in U : c.port <= y.port
  <2> DEFINE f == [x \in U |-> x.port]
  <2>1. U # {} /\ \A x \in U : f[x] \in Nat /\ f[x] = x.port
    BY <1>1, <1>2
  <2> HIDE DEF f, U
  <2>2. PICK c \in U : \A y \in U : f[c] <= f[y]
    BY <2>1, LeastOf
  <2> QED
    BY <2>1, <2>2
<1> DEFINE V == {x \in U : x.port = c.port}
<1>6. PICK d \in V : \A y \in V : d.vlan <= y.vlan
  <2> DEFINE f == [x \in V |-> x.vlan]
  <2>1. V # {} /\ \A x \in V : f[x] \in Nat /\ f[x] = x.vlan
    BY <1>1, <1>2
  <2> HIDE DEF f, V
  <2>2. PICK d \in V : \A y \in V : f[d] <= f[y]
    BY <2>1, LeastOf
  <2> QED
    BY <2>1, <2>2
<1>7. d \in S /\ \A y \in S : Before(d, y)
  <2>1. d \in S /\ d.macs = a.macs /\ d.switch = b.switch /\ d.port = c.port
    BY <1>6
  <2> SUFFICES ASSUME NEW y \in S PROVE Before(d, y)
    BY <2>1
  <2>2. a.macs <= y.macs
    BY <1>3
  <2>3. y.macs = a.macs => b.switch <= y.switch
    BY <1>4
  <2>4. y.macs = a.macs /\ y.switch = b.switch => c.port <= y.port
    BY <1>5
  <2>5. y.macs = a.macs /\ y.switch = b.switch /\ y.port = c.port => d.vlan <= y.vlan
    BY <1>6
  <2>6. /\ y.macs \in Nat /\ y.switch \in Nat /\ y.port \in Nat /\ a.macs \in Nat /\ b.switch \in Nat /\ c.port \in Nat
    BY <1>2
  <2> QED
    BY <2>1, <2>2, <2>3, <2>4, <2>5, <2>6 DEF Before
<1>8. Fact(m) \in S
  BY <1>7 DEF Fact, S
<1> QED
  BY <1>2, <1>8, GivenIs

LEMMA BySubnetIs ==
  ASSUME NEW i, NEW left
  PROVE  /\ BySubnet(i, left) = Unplaced <=> BySubnet(i, left).to = None
         /\ BySubnet(i, left).by \in {"subnet_fallback", "none"}
  BY DEF BySubnet, Unplaced

LEMMA WhyIs ==
  ASSUME NEW i, NEW m
  PROVE  (WhyUnplaced(i, m) = "offline" <=> ~Online(i)) /\ (WhyUnplaced(i, m) = "no_mac" => m = None)
  BY DEF WhyUnplaced

-----------------------------------------------------------------------------
\* An agent has a reason exactly when it is nowhere, and the reason is true of what it is by then.
ReasonIsTrue(i, r, macs) == (r[i] = "offline" <=> ~Online(i)) /\ (r[i] = "no_mac" => macs[i] = None)
Reasoned(p, r, macs) ==
  /\ \A i \in AgentIds : Agent(i) \in DOMAIN p
  /\ \A i : i \in DOMAIN r <=> i \in AgentIds /\ p[Agent(i)].to = None
  /\ \A i \in DOMAIN r : ReasonIsTrue(i, r, macs)

LEMMA RetiredIs ==
  ASSUME NEW gone, NEW left, NEW p
  PROVE  /\ DOMAIN RetiredParents(gone, left, p) = DOMAIN p
         /\ \A x \in DOMAIN p :
              IF \E i \in AgentIds : x = Agent(i) /\ p[x].to \in gone
              THEN RetiredParents(gone, left, p)[x] = BySubnet(x[2], left)
              ELSE RetiredParents(gone, left, p)[x] = p[x]
<1>1. \A x \in DOMAIN p : (\E i \in Moved(gone, p) : x = Agent(i)) <=> (\E i \in AgentIds : x = Agent(i) /\ p[x].to \in gone)
  BY DEF Moved
<1> QED
  BY <1>1 DEF RetiredParents

LEMMA RetiredAreReasoned ==
  ASSUME NEW gone, None \notin gone, NEW left, NEW p, NEW r, NEW macs, Reasoned(p, r, macs)
  PROVE  Reasoned(RetiredParents(gone, left, p), RetiredReasons(gone, left, p, macs, r), macs)
<1> DEFINE q == RetiredParents(gone, left, p)
           lost == {i \in Moved(gone, p) : BySubnet(i, left) = Unplaced}
           new == [i \in lost |-> WhyUnplaced(i, macs[i])]
           s == Over(new, r)
<1>1. RetiredReasons(gone, left, p, macs, r) = s
  BY DEF RetiredReasons
<1>2. DOMAIN q = DOMAIN p
  BY RetiredIs
<1>3. \A i \in AgentIds : /\ i \in Moved(gone, p) <=> p[Agent(i)].to \in gone
                          /\ i \in Moved(gone, p) => q[Agent(i)] = BySubnet(i, left)
                          /\ i \notin Moved(gone, p) => q[Agent(i)] = p[Agent(i)]
  <2> TAKE i \in AgentIds
  <2>1. Agent(i) \in DOMAIN p
    BY DEF Reasoned
  <2>2. i \in Moved(gone, p) <=> p[Agent(i)].to \in gone
    BY <2>1 DEF Moved
  <2>3. (\E j \in AgentIds : Agent(i) = Agent(j) /\ p[Agent(i)].to \in gone) <=> p[Agent(i)].to \in gone
    OBVIOUS
  <2> QED
    BY <2>1, <2>2, <2>3, RetiredIs, NodesDiffer
<1>4. DOMAIN s = lost \cup DOMAIN r /\ (\A i \in lost : s[i] = WhyUnplaced(i, macs[i]))
      /\ (\A i \in DOMAIN r \ lost : s[i] = r[i])
  <2> HIDE DEF lost
  <2>1. DOMAIN new = lost /\ \A i \in lost : new[i] = WhyUnplaced(i, macs[i])
    OBVIOUS
  <2> HIDE DEF new
  <2> QED
    BY <2>1, OverIs
<1>5. Moved(gone, p) \subseteq AgentIds
  BY DEF Moved
<1> HIDE DEF q, s, new
<1>6. ASSUME NEW i PROVE i \in DOMAIN s <=> i \in AgentIds /\ q[Agent(i)].to = None
  <2>1. CASE i \in Moved(gone, p)
    BY <1>3, <1>4, <1>5, <2>1, BySubnetIs DEF Reasoned
  <2>2. CASE i \notin Moved(gone, p)
    BY <1>3, <1>4, <1>5, <2>2 DEF Reasoned
  <2> QED
    BY <2>1, <2>2
<1>7. ASSUME NEW i \in DOMAIN s PROVE ReasonIsTrue(i, s, macs)
  BY <1>4, <1>7, WhyIs DEF Reasoned, ReasonIsTrue
<1> QED
  BY <1>1, <1>2, <1>6, <1>7 DEF Reasoned, q

-----------------------------------------------------------------------------
(***************************************************************************)
(* _merge_late_phantoms: one agent after another may turn out to be a        *)
(* device. LateInv is what holds of the state after the first k of them.     *)
(***************************************************************************)
IsLate(s) == s = [late |-> s.late, mac |-> s.mac, parent |-> s.parent, reason |-> s.reason, warned |-> s.warned]
LateOf(l, m, p, r, w) == [late |-> l, mac |-> m, parent |-> p, reason |-> r, warned |-> w]

StaysLate(s, t) == IsLate(t) /\ t.late = s.late /\ t.mac = s.mac /\ t.parent = s.parent /\ t.reason = s.reason
MergesLate(s, t, i, c) ==
  /\ c # None /\ c \in devices \ s.late /\ ~Equipment(c) /\ ByLldp(c).to \in devices \ s.late
  /\ IsLate(t) /\ t.late = s.late \cup {c} /\ t.mac = [s.mac EXCEPT ![i] = c]
  /\ \/ s.parent[Agent(i)].to = ByLldp(c).to /\ t.parent = s.parent /\ t.reason = s.reason
     \/ t.parent = [s.parent EXCEPT ![Agent(i)] = ByLldp(c)] /\ t.reason = Without(s.reason, {i})

LEMMA LateAgentIs ==
  ASSUME NEW s, IsLate(s), NEW i, NEW t, t = LateAgent(s, i)
  PROVE  StaysLate(s, t) \/ MergesLate(s, t, i, LateMac(i, s.mac))
<1> DEFINE c == LateMac(i, s.mac)
           spot == ByLldp(c)
           warn(x, w) == [x EXCEPT !.warned = w]
           merge(x, l) == [x EXCEPT !.late = l]
           told(x, m) == [x EXCEPT !.mac = m]
           hang(x, p) == [x EXCEPT !.parent = p]
           clear(x, r) == [x EXCEPT !.reason = r]
           more == s.late \cup {c}
           macs == [s.mac EXCEPT ![i] = c]
           moved == [s.parent EXCEPT ![Agent(i)] = spot]
           less == Without(s.reason, {i})
           known == IF s.mac[i] = None THEN s.warned ELSE s.warned \cup {c}
<1>1. t = IF c = None \/ c \notin devices \/ c \in s.late THEN s
          ELSE IF Equipment(c) THEN warn(s, known)
          ELSE IF spot.to \notin devices \/ spot.to \in s.late THEN s
          ELSE IF s.parent[Agent(i)].to = spot.to /\ s.parent[Agent(i)].port = spot.port
               THEN told(merge(s, more), macs)
               ELSE clear(hang(told(merge(s, more), macs), moved), less)
  BY DEF LateAgent
<1>2. s = LateOf(s.late, s.mac, s.parent, s.reason, s.warned)
  BY DEF IsLate, LateOf
<1> HIDE DEF c, spot, more, macs, moved, less, known
<1>3. \A l, m, p, r, w, x : warn(LateOf(l, m, p, r, w), x) = LateOf(l, m, p, r, x)
  BY DEF LateOf
<1>4. \A l, m, p, r, w, x : merge(LateOf(l, m, p, r, w), x) = LateOf(x, m, p, r, w)
  BY DEF LateOf
<1>5. \A l, m, p, r, w, x : told(LateOf(l, m, p, r, w), x) = LateOf(l, x, p, r, w)
  BY DEF LateOf
<1>6. \A l, m, p, r, w, x : hang(LateOf(l, m, p, r, w), x) = LateOf(l, m, x, r, w)
  BY DEF LateOf
<1>7. \A l, m, p, r, w, x : clear(LateOf(l, m, p, r, w), x) = LateOf(l, m, p, x, w)
  BY DEF LateOf
<1> HIDE DEF warn, merge, told, hang, clear
<1>8. /\ warn(s, known) = LateOf(s.late, s.mac, s.parent, s.reason, known)
      /\ told(merge(s, more), macs) = LateOf(more, macs, s.parent, s.reason, s.warned)
      /\ clear(hang(told(merge(s, more), macs), moved), less) = LateOf(more, macs, moved, less, s.warned)
  BY <1>2, <1>3, <1>4, <1>5, <1>6, <1>7
<1>9. \A l, m, p, r, w, x : x = LateOf(l, m, p, r, w) =>
         IsLate(x) /\ x.late = l /\ x.mac = m /\ x.parent = p /\ x.reason = r
  BY DEF LateOf, IsLate
<1>10. CASE t = s
  BY <1>10 DEF StaysLate
<1>11. CASE t = warn(s, known)
  BY <1>8, <1>9, <1>11 DEF StaysLate
<1>12. CASE /\ c # None /\ c \in devices \ s.late /\ ~Equipment(c) /\ spot.to \in devices \ s.late
            /\ s.parent[Agent(i)].to = spot.to /\ t = told(merge(s, more), macs)
  <2>1. IsLate(t) /\ t.late = more /\ t.mac = macs /\ t.parent = s.parent /\ t.reason = s.reason
    BY <1>8, <1>9, <1>12
  <2> QED
    BY <1>12, <2>1, Zenon DEF c, spot, more, macs, MergesLate
<1>13. CASE /\ c # None /\ c \in devices \ s.late /\ ~Equipment(c) /\ spot.to \in devices \ s.late
            /\ t = clear(hang(told(merge(s, more), macs), moved), less)
  <2>1. IsLate(t) /\ t.late = more /\ t.mac = macs /\ t.parent = moved /\ t.reason = less
    BY <1>8, <1>9, <1>13
  <2> QED
    BY <1>13, <2>1, Zenon DEF c, spot, more, macs, moved, less, MergesLate
<1> QED
  BY <1>1, <1>10, <1>11, <1>12, <1>13

\* What the steps before leave: an agent found by a device's announcement is no device any more, and an agent that
\* still may be one has its MAC from a table.
Announced(p, macs, left) ==
  \A i \in AgentIds : Agent(i) \in DOMAIN p /\ p[Agent(i)].by = "lldp" => macs[i] # None /\ macs[i] \notin left
MayBeLate(macs) ==
  \A i \in AgentIds :
    LET c == LateMac(i, macs)
    IN c # None /\ c \in devices /\ ~Equipment(c) /\ SwitchAndPort(c).switch \in devices => ~doc.node[c].pollable

LateInv(s, k) ==
  /\ IsLate(s) /\ DOMAIN s.mac = AgentIds /\ DOMAIN s.parent = DOMAIN parent
  /\ Reasoned(s.parent, s.reason, s.mac)
  /\ \A j \in AgentIds : j > k => s.mac[j] = mac[j] /\ s.parent[Agent(j)] = parent[Agent(j)]
  /\ s.late \subseteq devices /\ \A c \in s.late : ~doc.node[c].pollable
  /\ \A x \in DOMAIN parent :
       \/ s.parent[x] = parent[x]
       \/ parent[x].by # "lldp" /\ s.parent[x].by = "lldp" /\ doc.node[s.parent[x].to].pollable
  /\ Announced(s.parent, s.mac, devices \ s.late)

LEMMA LateStays ==
  ASSUME Given, NEW s, NEW k \in Nat, LateInv(s, k), NEW i \in AgentIds, i = k + 1, NEW t,
         IsLate(t), t.late = s.late, t.mac = s.mac, t.parent = s.parent, t.reason = s.reason
  PROVE  LateInv(t, i)
<1>1. \A j \in AgentIds : j > i => j > k
  BY GivenIs
<1>2. /\ DOMAIN s.mac = AgentIds /\ DOMAIN s.parent = DOMAIN parent
      /\ Reasoned(s.parent, s.reason, s.mac)
      /\ s.late \subseteq devices /\ (\A c \in s.late : ~doc.node[c].pollable)
      /\ Announced(s.parent, s.mac, devices \ s.late)
  BY DEF LateInv
<1>3. \A j \in AgentIds : j > k => s.mac[j] = mac[j] /\ s.parent[Agent(j)] = parent[Agent(j)]
  BY DEF LateInv
<1>4. \A x \in DOMAIN parent :
         \/ s.parent[x] = parent[x]
         \/ parent[x].by # "lldp" /\ s.parent[x].by = "lldp" /\ doc.node[s.parent[x].to].pollable
  BY DEF LateInv
<1>5. \A j \in AgentIds : j > i => t.mac[j] = mac[j] /\ t.parent[Agent(j)] = parent[Agent(j)]
  BY <1>1, <1>3
<1>6. /\ DOMAIN t.mac = AgentIds /\ DOMAIN t.parent = DOMAIN parent
      /\ Reasoned(t.parent, t.reason, t.mac)
      /\ t.late \subseteq devices /\ (\A c \in t.late : ~doc.node[c].pollable)
      /\ Announced(t.parent, t.mac, devices \ t.late)
  BY <1>2
<1>7. \A x \in DOMAIN parent :
         \/ t.parent[x] = parent[x]
         \/ parent[x].by # "lldp" /\ t.parent[x].by = "lldp" /\ doc.node[t.parent[x].to].pollable
  BY <1>4
<1> QED
  BY <1>5, <1>6, <1>7 DEF LateInv

\* The device an agent turns out to be is one nobody polled, and the agent was not placed by it.
LEMMA LateDevice ==
  ASSUME Given, devices \subseteq Chassis, Announced(parent, mac, devices), MayBeLate(mac),
         \A i \in AgentIds : Agent(i) \in DOMAIN parent,
         NEW s, NEW k \in Nat, LateInv(s, k), NEW i \in AgentIds, i = k + 1,
         NEW c, c = LateMac(i, s.mac), c # None, c \in devices, ~Equipment(c), SwitchAndPort(c).switch \in devices
  PROVE  ~doc.node[c].pollable /\ s.parent[Agent(i)] = parent[Agent(i)] /\ parent[Agent(i)].by # "lldp"
<1>1. i > k
  BY GivenIs
<1>2. s.mac[i] = mac[i] /\ s.parent[Agent(i)] = parent[Agent(i)]
  BY <1>1 DEF LateInv
<1>3. c = LateMac(i, mac)
  BY <1>2 DEF LateMac
<1>4. ~doc.node[c].pollable
  BY <1>3 DEF MayBeLate
<1>5. ASSUME parent[Agent(i)].by = "lldp" PROVE FALSE
  <2>1. mac[i] # None /\ mac[i] \notin devices
    BY <1>5 DEF Announced
  <2>2. c = mac[i]
    BY <1>3, <2>1 DEF LateMac
  <2> QED
    BY <2>1, <2>2
<1> QED
  BY <1>2, <1>4, <1>5

LEMMA LateMerges ==
  ASSUME Given, devices \subseteq Chassis, NEW s, NEW k \in Nat, LateInv(s, k), NEW i \in AgentIds, i = k + 1,
         Agent(i) \in DOMAIN parent, s.parent[Agent(i)] = parent[Agent(i)], parent[Agent(i)].by # "lldp",
         NEW c, ~doc.node[c].pollable, doc.node[SwitchAndPort(c).switch].pollable, NEW t, MergesLate(s, t, i, c)
  PROVE  LateInv(t, i)
<1> DEFINE spot == ByLldp(c)
<1>0. /\ c \in devices /\ spot.to \in devices /\ spot.by = "lldp" /\ doc.node[spot.to].pollable
      /\ IsLate(t) /\ t.late = s.late \cup {c} /\ t.mac = [s.mac EXCEPT ![i] = c]
      /\ \/ s.parent[Agent(i)].to = spot.to /\ t.parent = s.parent /\ t.reason = s.reason
         \/ t.parent = [s.parent EXCEPT ![Agent(i)] = spot] /\ t.reason = Without(s.reason, {i})
  BY DEF MergesLate, ByLldp
<1> HIDE DEF spot
<1>1. /\ DOMAIN s.mac = AgentIds /\ DOMAIN s.parent = DOMAIN parent
      /\ s.late \subseteq devices /\ \A d \in s.late : ~doc.node[d].pollable
  BY DEF LateInv
<1>2. \A j \in AgentIds : Agent(j) \in DOMAIN s.parent
  BY DEF LateInv, Reasoned
<1>3. \A j : j \in DOMAIN s.reason <=> j \in AgentIds /\ s.parent[Agent(j)].to = None
  BY DEF LateInv, Reasoned
<1>4. \A j \in DOMAIN s.reason : ReasonIsTrue(j, s.reason, s.mac)
  BY DEF LateInv, Reasoned
<1>5. \A j \in AgentIds : j > k => s.mac[j] = mac[j] /\ s.parent[Agent(j)] = parent[Agent(j)]
  BY DEF LateInv
<1>6. \A x \in DOMAIN parent :
         \/ s.parent[x] = parent[x]
         \/ parent[x].by # "lldp" /\ s.parent[x].by = "lldp" /\ doc.node[s.parent[x].to].pollable
  BY DEF LateInv
<1>7. \A j \in AgentIds : Agent(j) \in DOMAIN s.parent /\ s.parent[Agent(j)].by = "lldp" =>
          s.mac[j] # None /\ s.mac[j] \notin devices \ s.late
  BY DEF LateInv, Announced
<1>8. /\ DOMAIN t.mac = AgentIds /\ t.mac[i] = c
      /\ \A j \in AgentIds \ {i} : t.mac[j] = s.mac[j]
  BY <1>0, <1>1
<1>9. c # None /\ spot.to # None
  BY <1>0, GivenIs
<1>10. /\ DOMAIN t.parent = DOMAIN s.parent /\ (\A x \in DOMAIN s.parent : x # Agent(i) => t.parent[x] = s.parent[x])
       /\ t.parent[Agent(i)].to # None
       /\ t.parent[Agent(i)] = parent[Agent(i)] \/ t.parent[Agent(i)] = spot
  BY <1>0, <1>1, <1>9
<1>11. /\ DOMAIN t.reason = DOMAIN s.reason \ {i}
       /\ \A j \in DOMAIN s.reason : j # i => t.reason[j] = s.reason[j]
  <2>1. CASE s.parent[Agent(i)].to = spot.to /\ t.parent = s.parent /\ t.reason = s.reason
    BY <1>3, <1>9, <2>1
  <2>2. CASE t.reason = Without(s.reason, {i})
    BY <2>2 DEF Without
  <2> QED
    BY <1>0, <2>1, <2>2
<1>12. \A j \in AgentIds : j # i => t.parent[Agent(j)] = s.parent[Agent(j)]
  <2> TAKE j \in AgentIds
  <2> HAVE j # i
  <2>1. Agent(j) # Agent(i)
    BY NodesDiffer
  <2> QED
    BY <1>2, <1>10, <2>1
<1>13. Reasoned(t.parent, t.reason, t.mac)
  <2>1. \A j \in AgentIds : Agent(j) \in DOMAIN t.parent
    BY <1>2, <1>10
  <2>2. ASSUME NEW j PROVE j \in DOMAIN t.reason <=> j \in AgentIds /\ t.parent[Agent(j)].to = None
    BY <1>3, <1>10, <1>11, <1>12
  <2>3. ASSUME NEW j \in DOMAIN t.reason PROVE ReasonIsTrue(j, t.reason, t.mac)
    <3>1. j \in DOMAIN s.reason /\ j # i /\ t.reason[j] = s.reason[j]
      BY <1>11
    <3>2. t.mac[j] = s.mac[j] /\ ReasonIsTrue(j, s.reason, s.mac)
      BY <1>3, <1>4, <1>8, <3>1
    <3> QED
      BY <3>1, <3>2 DEF ReasonIsTrue
  <2> QED
    BY <2>1, <2>2, <2>3 DEF Reasoned
<1>14. Announced(t.parent, t.mac, devices \ t.late)
  <2> SUFFICES ASSUME NEW j \in AgentIds, t.parent[Agent(j)].by = "lldp"
               PROVE  t.mac[j] # None /\ t.mac[j] \notin devices \ t.late
    BY DEF Announced
  <2>1. CASE j = i
    BY <1>0, <1>8, <1>9, <2>1
  <2>2. CASE j # i
    BY <1>0, <1>2, <1>7, <1>8, <1>12, <2>2
  <2> QED
    BY <2>1, <2>2
<1>15. \A j \in AgentIds : j > i => t.mac[j] = mac[j] /\ t.parent[Agent(j)] = parent[Agent(j)]
  <2>1. \A j \in AgentIds : j > i => j > k /\ j # i
    BY GivenIs
  <2> QED
    BY <1>5, <1>8, <1>12, <2>1
<1>16. \A x \in DOMAIN parent :
          \/ t.parent[x] = parent[x]
          \/ parent[x].by # "lldp" /\ t.parent[x].by = "lldp" /\ doc.node[t.parent[x].to].pollable
  BY <1>0, <1>1, <1>6, <1>10
<1>17. /\ t.late \subseteq devices /\ (\A d \in t.late : ~doc.node[d].pollable)
       /\ DOMAIN t.parent = DOMAIN parent
  BY <1>0, <1>1, <1>10
<1> QED
  BY <1>0, <1>8, <1>13, <1>14, <1>15, <1>16, <1>17 DEF LateInv

LEMMA LateStep ==
  ASSUME Given, devices \subseteq Chassis, Announced(parent, mac, devices), MayBeLate(mac),
         \A i \in AgentIds : Agent(i) \in DOMAIN parent,
         NEW s, NEW k \in Nat, LateInv(s, k), NEW i \in AgentIds, i = k + 1
  PROVE  LateInv(LateAgent(s, i), i)
<1>1. PICK t : t = LateAgent(s, i)
  OBVIOUS
<1>2. PICK c : c = LateMac(i, s.mac)
  OBVIOUS
<1>3. IsLate(s)
  BY DEF LateInv
<1>4. StaysLate(s, t) \/ MergesLate(s, t, i, c)
  BY <1>1, <1>2, <1>3, LateAgentIs
<1>5. CASE StaysLate(s, t)
  <2>1. IsLate(t) /\ t.late = s.late /\ t.mac = s.mac /\ t.parent = s.parent /\ t.reason = s.reason
    BY <1>5 DEF StaysLate
  <2> QED
    BY <1>1, <2>1, LateStays, Zenon
<1>6. CASE MergesLate(s, t, i, c)
  <2>1. c # None /\ c \in devices /\ ~Equipment(c) /\ SwitchAndPort(c).switch \in devices
    BY <1>6 DEF MergesLate, ByLldp
  <2>2. ~doc.node[c].pollable /\ s.parent[Agent(i)] = parent[Agent(i)] /\ parent[Agent(i)].by # "lldp"
    BY <1>2, <2>1, LateDevice
  <2>3. Agent(i) \in DOMAIN parent
    OBVIOUS
  <2>4. doc.node[SwitchAndPort(c).switch].pollable
    BY <2>1, <2>2, SwitchIs
  <2> QED
    BY <1>1, <1>6, <2>2, <2>3, <2>4, LateMerges
<1> QED
  BY <1>4, <1>5, <1>6

LEMMA LateAgentsLoop ==
  ASSUME NEW st, Len(doc.agents) \in Nat
  PROVE  \E after : /\ after = [i \in 0..Len(doc.agents) |-> IF i = 0 THEN st ELSE LateAgent(after[i - 1], i)]
                    /\ LateAgents(st) = after[Len(doc.agents)]
<1> DEFINE n == Len(doc.agents)
           IsAfter(f, m) == f = [i \in 0..m |-> IF i = 0 THEN st ELSE LateAgent(f[i - 1], i)]
           S == {m \in Nat : \E f : IsAfter(f, m)}
<1>1. 0 \in S
  <2>1. IsAfter([i \in 0..0 |-> st], 0)
    OBVIOUS
  <2> QED
    BY <2>1
<1>2. ASSUME NEW m \in Nat, m \in S PROVE m + 1 \in S
  <2>1. PICK f : IsAfter(f, m)
    BY <1>2
  <2> DEFINE g == [i \in 0..(m + 1) |-> IF i <= m THEN f[i] ELSE LateAgent(f[m], m + 1)]
  <2>2. \A i \in 0..(m + 1) : g[i] = IF i = 0 THEN st ELSE LateAgent(g[i - 1], i)
    <3> TAKE i \in 0..(m + 1)
    <3>1. CASE i = 0
      BY <2>1, <3>1
    <3>2. CASE i # 0 /\ i <= m
      <4>1. i \in 0..m /\ i - 1 \in 0..m
        BY <3>2
      <4>2. f[i] = LateAgent(f[i - 1], i)
        BY <2>1, <3>2, <4>1
      <4>3. g[i] = f[i] /\ g[i - 1] = f[i - 1]
        BY <3>2, <4>1
      <4> QED
        BY <3>2, <4>2, <4>3
    <3>3. CASE i = m + 1
      BY <3>3
    <3> QED
      BY <3>1, <3>2, <3>3
  <2>3. IsAfter(g, m + 1)
    BY <2>2
  <2> HIDE DEF IsAfter, g
  <2>4. \E h : IsAfter(h, m + 1)
    BY <2>3
  <2> QED
    BY <2>4
<1> HIDE DEF S
<1>3. n \in S
  BY <1>1, <1>2, ByNumbers
<1>4. PICK f : IsAfter(f, n)
  BY <1>3 DEF S
<1> DEFINE after[i \in 0..n] == IF i = 0 THEN st ELSE LateAgent(after[i - 1], i)
<1>5. IsAfter(after, n)
  BY <1>4
<1>6. LateAgents(st) = after[n]
  BY DEF LateAgents
<1> QED
  BY <1>5, <1>6

LEMMA LateAgentsKeep ==
  ASSUME Given, devices \subseteq Chassis, Announced(parent, mac, devices), MayBeLate(mac),
         \A i \in AgentIds : Agent(i) \in DOMAIN parent,
         NEW s, LateInv(s, 0)
  PROVE  LateInv(LateAgents(s), Len(doc.agents))
<1> DEFINE n == Len(doc.agents)
<1>1. n \in Nat /\ AgentIds = 1..n
  BY GivenIs
<1>2. PICK after : /\ after = [i \in 0..n |-> IF i = 0 THEN s ELSE LateAgent(after[i - 1], i)]
                   /\ LateAgents(s) = after[n]
  BY <1>1, LateAgentsLoop
<1> HIDE DEF n
<1>3. after[0] = s /\ \A i \in 1..n : after[i] = LateAgent(after[i - 1], i)
  <2>1. \A i \in 0..n : after[i] = IF i = 0 THEN s ELSE LateAgent(after[i - 1], i)
    BY <1>2
  <2>2. 0 \in 0..n /\ \A i \in 1..n : i \in 0..n /\ i # 0
    BY <1>1
  <2> QED
    BY <2>1, <2>2
<1> DEFINE S == {k \in Nat : k <= n => LateInv(after[k], k)}
<1>4. 0 \in S
  BY <1>3
<1>5. ASSUME NEW k \in Nat, k \in S PROVE k + 1 \in S
  <2> SUFFICES ASSUME k + 1 <= n PROVE LateInv(after[k + 1], k + 1)
    OBVIOUS
  <2>1. LateInv(after[k], k) /\ k + 1 \in AgentIds /\ (k + 1) - 1 = k
    BY <1>1, <1>5
  <2>2. LateInv(LateAgent(after[k], k + 1), k + 1)
    BY <2>1, LateStep
  <2>3. after[k + 1] = LateAgent(after[k], k + 1)
    BY <1>1, <1>3, <2>1
  <2> QED
    BY <2>2, <2>3
<1> HIDE DEF S
<1>6. n \in S
  BY <1>1, <1>4, <1>5, ByNumbers
<1> QED
  BY <1>1, <1>2, <1>6 DEF n, S

(***************************************************************************)
(* _place_wifi_clients: one client of one access point after another.        *)
(***************************************************************************)
IsWifi(s) == s = [hosts |-> s.hosts, mac |-> s.mac, parent |-> s.parent, reason |-> s.reason]
WifiOf(h, m, p, r) == [hosts |-> h, mac |-> m, parent |-> p, reason |-> r]
Nodes(h) == {Agent(i) : i \in AgentIds} \cup DOMAIN h

WifiInv(s) ==
  /\ IsWifi(s) /\ DOMAIN s.mac = AgentIds /\ DOMAIN s.parent = Nodes(s.hosts)
  /\ Reasoned(s.parent, s.reason, s.mac)
  /\ \A i \in AgentIds : s.parent[Agent(i)].by = "lldp" => s.mac[i] # None
  /\ \A x \in DOMAIN parent :
       x \in DOMAIN s.parent /\ (s.parent[x] = parent[x] \/ (parent[x].by # "lldp" /\ s.parent[x].by = "wifi"))

\* What one client does: nothing, or one node hangs under the access point.
OnAir(ap, client) == [to |-> ap, port |-> client.radio, by |-> "wifi"]
Hangs(s, t, node, spot, macs, hs) ==
  /\ IsWifi(t) /\ t.hosts = hs /\ t.mac = macs
  /\ t.parent = Over(Only(node, spot), s.parent)
  /\ t.reason = IF node[1] = "endpoint" THEN Without(s.reason, {node[2]}) ELSE s.reason

LEMMA UnderApHangs ==
  ASSUME NEW s, IsWifi(s), NEW node, NEW ap, NEW client, NEW t, t = UnderAp(s, node, ap, client)
  PROVE  Hangs(s, t, node, OnAir(ap, client), s.mac, s.hosts)
<1> DEFINE hang(x, p) == [x EXCEPT !.parent = p]
           clear(x, r) == [x EXCEPT !.reason = r]
           p2 == Over(Only(node, OnAir(ap, client)), s.parent)
           r2 == IF node[1] = "endpoint" THEN Without(s.reason, {node[2]}) ELSE s.reason
<1>1. t = clear(hang(s, p2), r2)
  BY DEF UnderAp, OnAir
<1>2. s = WifiOf(s.hosts, s.mac, s.parent, s.reason)
  BY DEF IsWifi, WifiOf
<1> HIDE DEF p2, r2
<1>3. \A h, m, p, r, x : hang(WifiOf(h, m, p, r), x) = WifiOf(h, m, x, r)
  BY DEF WifiOf
<1>4. \A h, m, p, r, x : clear(WifiOf(h, m, p, r), x) = WifiOf(h, m, p, x)
  BY DEF WifiOf
<1> HIDE DEF hang, clear
<1>5. t = WifiOf(s.hosts, s.mac, p2, r2)
  BY <1>1, <1>2, <1>3, <1>4
<1>6. IsWifi(t) /\ t.hosts = s.hosts /\ t.mac = s.mac /\ t.parent = p2 /\ t.reason = r2
  BY <1>5 DEF WifiOf, IsWifi
<1> QED
  BY <1>6, Zenon DEF Hangs, p2, r2

LEMMA WifiFields ==
  ASSUME NEW s, IsWifi(s)
  PROVE  /\ \A x : /\ IsWifi([s EXCEPT !.hosts = x]) /\ [s EXCEPT !.hosts = x].hosts = x
                   /\ [s EXCEPT !.hosts = x].mac = s.mac /\ [s EXCEPT !.hosts = x].parent = s.parent
                   /\ [s EXCEPT !.hosts = x].reason = s.reason
         /\ \A x : /\ IsWifi([s EXCEPT !.mac = x]) /\ [s EXCEPT !.mac = x].mac = x
                   /\ [s EXCEPT !.mac = x].hosts = s.hosts /\ [s EXCEPT !.mac = x].parent = s.parent
                   /\ [s EXCEPT !.mac = x].reason = s.reason
<1> DEFINE found(x, h) == [x EXCEPT !.hosts = h]
           told(x, m) == [x EXCEPT !.mac = m]
<1>1. s = WifiOf(s.hosts, s.mac, s.parent, s.reason)
  BY DEF IsWifi, WifiOf
<1>2. \A h, m, p, r, x : found(WifiOf(h, m, p, r), x) = WifiOf(x, m, p, r)
  BY DEF WifiOf
<1>3. \A h, m, p, r, x : told(WifiOf(h, m, p, r), x) = WifiOf(h, x, p, r)
  BY DEF WifiOf
<1>4. \A h, m, p, r, x : x = WifiOf(h, m, p, r) =>
         IsWifi(x) /\ x.hosts = h /\ x.mac = m /\ x.parent = p /\ x.reason = r
  BY DEF WifiOf, IsWifi
<1>5. ASSUME NEW x
      PROVE  /\ IsWifi(found(s, x)) /\ found(s, x).hosts = x /\ found(s, x).mac = s.mac
             /\ found(s, x).parent = s.parent /\ found(s, x).reason = s.reason
  <2> HIDE DEF found, told
  <2>1. found(s, x) = WifiOf(x, s.mac, s.parent, s.reason)
    BY <1>1, <1>2
  <2> QED
    BY <1>4, <2>1
<1>6. ASSUME NEW x
      PROVE  /\ IsWifi(told(s, x)) /\ told(s, x).mac = x /\ told(s, x).hosts = s.hosts
             /\ told(s, x).parent = s.parent /\ told(s, x).reason = s.reason
  <2> HIDE DEF found, told
  <2>1. told(s, x) = WifiOf(s.hosts, x, s.parent, s.reason)
    BY <1>1, <1>3
  <2> QED
    BY <1>4, <2>1
<1> QED
  BY <1>5, <1>6, Zenon

LEMMA WifiClientIs ==
  ASSUME Given, NEW s, WifiInv(s), NEW ap, NEW client, NEW t, t = WifiClient(s, ap, client)
  PROVE  LET m == client.mac
             spot == OnAir(ap, client)
         IN \/ t = s
            \/ Host(m) \in DOMAIN s.hosts /\ s.parent[Host(m)].by # "lldp" /\ Hangs(s, t, Host(m), spot, s.mac, s.hosts)
            \/ \E i \in AgentIds : s.parent[Agent(i)].by # "lldp" /\ Hangs(s, t, Agent(i), spot, s.mac, s.hosts)
            \/ \E i \in AgentIds : s.mac[i] = None /\ Hangs(s, t, Agent(i), spot, [s.mac EXCEPT ![i] = m], s.hosts)
            \/ \E new : /\ Host(m) \notin DOMAIN s.hosts
                        /\ Hangs(s, t, Host(m), spot, s.mac, Over(Only(Host(m), new), s.hosts))
<1> DEFINE m == client.mac
           spot == OnAir(ap, client)
           node == NodeWith(s, m)
           owners == Owners(s, client)
           new == [mac |-> m, ip |-> IF client.ip # None THEN client.ip ELSE IpOf(m), how |-> "wifi"]
           owner == CHOOSE i \in owners : TRUE
           named == [s EXCEPT !.mac[owner] = m]
           found == [s EXCEPT !.hosts = Over(Only(Host(m), new), @)]
<1>1. t = IF m \in Infra THEN s
          ELSE IF node # << >>
               THEN IF s.parent[node].by = "lldp" THEN s ELSE UnderAp(s, node, ap, client)
          ELSE IF Cardinality(owners) = 1 THEN UnderAp(named, Agent(owner), ap, client)
          ELSE UnderAp(found, Host(m), ap, client)
  BY DEF WifiClient
<1>2. IsWifi(s)
  BY DEF WifiInv
<1>3. CASE t = s
  BY <1>3
<1>4. CASE node # << >> /\ s.parent[node].by # "lldp" /\ t = UnderAp(s, node, ap, client)
  <2>1. Hangs(s, t, node, spot, s.mac, s.hosts)
    <3> HIDE DEF node
    <3> QED
      BY <1>2, <1>4, UnderApHangs
  <2>2. CASE Host(m) \in DOMAIN s.hosts
    <3>1. node = Host(m)
      BY <2>2 DEF NodeWith
    <3> QED
      BY <1>4, <2>1, <2>2, <3>1
  <2>3. CASE Host(m) \notin DOMAIN s.hosts
    <3> DEFINE T == {i \in AgentIds : s.mac[i] = m}
    <3>1. T # {} /\ node = Agent(Largest(T))
      BY <1>4, <2>3 DEF NodeWith
    <3>2. T \in SUBSET (1..Len(doc.agents)) /\ Len(doc.agents) \in Nat
      BY GivenIs
    <3>3. Largest(T) \in AgentIds
      BY <3>1, <3>2, LargestIs
    <3> QED
      BY <1>4, <2>1, <3>1, <3>3
  <2> QED
    BY <2>2, <2>3
<1>5. CASE Cardinality(owners) = 1 /\ t = UnderAp(named, Agent(owner), ap, client)
  <2>1. owners # {}
    <3>1. Cardinality({}) = 0
      BY FS_EmptySet
    <3> HIDE DEF owners
    <3> QED
      BY <1>5, <3>1
  <2>2. owner \in owners
    BY <2>1
  <2>3. owner \in AgentIds /\ s.mac[owner] = None
    BY <2>2 DEF Owners
  <2> HIDE DEF owner
  <2>4. named = [s EXCEPT !.mac = [s.mac EXCEPT ![owner] = m]]
    OBVIOUS
  <2>5. /\ IsWifi(named) /\ named.mac = [s.mac EXCEPT ![owner] = m] /\ named.hosts = s.hosts
        /\ named.parent = s.parent /\ named.reason = s.reason
    BY <1>2, <2>4, WifiFields
  <2> HIDE DEF named
  <2>6. Hangs(named, t, Agent(owner), spot, named.mac, named.hosts)
    BY <1>5, <2>5, UnderApHangs
  <2>7. Hangs(s, t, Agent(owner), spot, [s.mac EXCEPT ![owner] = m], s.hosts)
    <3> HIDE DEF spot, m
    <3> QED
      BY <2>5, <2>6 DEF Hangs
  <2> QED
    BY <2>3, <2>7
<1>6. CASE node = << >> /\ t = UnderAp(found, Host(m), ap, client)
  <2>1. Host(m) \notin DOMAIN s.hosts
    BY <1>6, NodesDiffer DEF NodeWith
  <2> HIDE DEF new
  <2>2. /\ IsWifi(found) /\ found.hosts = Over(Only(Host(m), new), s.hosts) /\ found.mac = s.mac
        /\ found.parent = s.parent /\ found.reason = s.reason
    BY <1>2, WifiFields
  <2> HIDE DEF found
  <2>3. Hangs(found, t, Host(m), spot, found.mac, found.hosts)
    BY <1>6, <2>2, UnderApHangs
  <2>4. Hangs(s, t, Host(m), spot, s.mac, Over(Only(Host(m), new), s.hosts))
    <3> HIDE DEF spot, m
    <3> QED
      BY <2>2, <2>3 DEF Hangs
  <2> QED
    BY <2>1, <2>4
<1> HIDE DEF node, owners, named, found, owner
<1> QED
  BY <1>1, <1>3, <1>4, <1>5, <1>6

\* A node that hangs under an access point has no reason for being nowhere; every other keeps what it had.
LEMMA HangsKeeps ==
  ASSUME Given, NEW s, WifiInv(s), NEW t, NEW node, NEW spot, NEW macs, NEW hs, Hangs(s, t, node, spot, macs, hs),
         spot.to # None, spot.by = "wifi", DOMAIN macs = AgentIds,
         \A j \in AgentIds : node # Agent(j) => macs[j] = s.mac[j],
         DOMAIN hs = DOMAIN s.hosts \cup ({node} \ {Agent(i) : i \in AgentIds}),
         \/ \E i \in AgentIds : node = Agent(i) /\ s.parent[node].by # "lldp"
         \/ \E k : node = Host(k) /\ (node \in DOMAIN s.parent => s.parent[node].by # "lldp")
  PROVE  WifiInv(t)
<1>0. IsWifi(t) /\ t.hosts = hs /\ t.mac = macs /\ t.parent = Over(Only(node, spot), s.parent)
  BY DEF Hangs
<1>1. DOMAIN s.mac = AgentIds /\ DOMAIN s.parent = Nodes(s.hosts)
  BY DEF WifiInv
<1>2. \A i \in AgentIds : Agent(i) \in DOMAIN s.parent
  BY DEF WifiInv, Reasoned
<1>3. \A i : i \in DOMAIN s.reason <=> i \in AgentIds /\ s.parent[Agent(i)].to = None
  BY DEF WifiInv, Reasoned
<1>4. \A i \in DOMAIN s.reason : ReasonIsTrue(i, s.reason, s.mac)
  BY DEF WifiInv, Reasoned
<1>5. \A i \in AgentIds : s.parent[Agent(i)].by = "lldp" => s.mac[i] # None
  BY DEF WifiInv
<1>6. \A x \in DOMAIN parent :
         x \in DOMAIN s.parent /\ (s.parent[x] = parent[x] \/ (parent[x].by # "lldp" /\ s.parent[x].by = "wifi"))
  BY DEF WifiInv
<1>7. /\ DOMAIN t.parent = {node} \cup DOMAIN s.parent /\ t.parent[node] = spot
      /\ \A x \in DOMAIN s.parent : x # node => t.parent[x] = s.parent[x]
  <2>1. PICK f : f = Only(node, spot)
    OBVIOUS
  <2>2. DOMAIN f = {node} /\ f[node] = spot
    BY <2>1 DEF Only
  <2>3. PICK g : g = s.parent
    OBVIOUS
  <2>4. t.parent = Over(f, g)
    BY <1>0, <2>1, <2>3
  <2>5. /\ DOMAIN Over(f, g) = DOMAIN f \cup DOMAIN g
        /\ \A x \in DOMAIN f : Over(f, g)[x] = f[x]
        /\ \A x \in DOMAIN g \ DOMAIN f : Over(f, g)[x] = g[x]
    BY DEF Over
  <2> QED
    BY <2>2, <2>3, <2>4, <2>5
<1>8. DOMAIN t.parent = Nodes(t.hosts)
  BY <1>0, <1>1, <1>7 DEF Nodes
<1>9. \A j \in AgentIds : node # Agent(j) => t.parent[Agent(j)] = s.parent[Agent(j)] /\ t.mac[j] = s.mac[j]
  BY <1>0, <1>2, <1>7
<1>10. /\ \A j \in DOMAIN s.reason : node # Agent(j) => j \in DOMAIN t.reason
       /\ \A j \in DOMAIN t.reason : j \in DOMAIN s.reason /\ node # Agent(j) /\ t.reason[j] = s.reason[j]
  <2>1. CASE \E i \in AgentIds : node = Agent(i)
    <3>1. PICK i \in AgentIds : node = Agent(i)
      BY <2>1
    <3>2. t.reason = Without(s.reason, {i})
      BY <3>1, NodesDiffer DEF Hangs
    <3> QED
      BY <3>1, <3>2, NodesDiffer DEF Without
  <2>2. CASE \E k : node = Host(k)
    <3>1. t.reason = s.reason
      BY <2>2, NodesDiffer DEF Hangs
    <3> QED
      BY <2>2, <3>1, NodesDiffer
  <2> QED
    BY <2>1, <2>2
<1>11. Reasoned(t.parent, t.reason, t.mac)
  <2>1. \A j \in AgentIds : Agent(j) \in DOMAIN t.parent
    BY <1>2, <1>7
  <2>2. ASSUME NEW j PROVE j \in DOMAIN t.reason <=> j \in AgentIds /\ t.parent[Agent(j)].to = None
    <3>1. CASE node = Agent(j)
      BY <1>7, <1>10, <3>1
    <3>2. CASE node # Agent(j)
      BY <1>3, <1>9, <1>10, <3>2
    <3> QED
      BY <3>1, <3>2
  <2>3. ASSUME NEW j \in DOMAIN t.reason PROVE ReasonIsTrue(j, t.reason, t.mac)
    <3>1. j \in DOMAIN s.reason /\ node # Agent(j) /\ t.reason[j] = s.reason[j] /\ j \in AgentIds
      BY <1>3, <1>10
    <3>2. t.mac[j] = s.mac[j] /\ ReasonIsTrue(j, s.reason, s.mac)
      BY <1>4, <1>9, <3>1
    <3> QED
      BY <3>1, <3>2 DEF ReasonIsTrue
  <2> QED
    BY <2>1, <2>2, <2>3 DEF Reasoned
<1>12. \A i \in AgentIds : t.parent[Agent(i)].by = "lldp" => t.mac[i] # None
  <2> SUFFICES ASSUME NEW i \in AgentIds, t.parent[Agent(i)].by = "lldp" PROVE t.mac[i] # None
    OBVIOUS
  <2>1. node # Agent(i)
    BY <1>7
  <2> QED
    BY <1>5, <1>9, <2>1
<1>13. \A x \in DOMAIN parent :
         x \in DOMAIN t.parent /\ (t.parent[x] = parent[x] \/ (parent[x].by # "lldp" /\ t.parent[x].by = "wifi"))
  <2> TAKE x \in DOMAIN parent
  <2>1. x \in DOMAIN s.parent /\ (s.parent[x] = parent[x] \/ (parent[x].by # "lldp" /\ s.parent[x].by = "wifi"))
    BY <1>6
  <2>2. CASE x = node
    <3>1. s.parent[node].by # "lldp"
      BY <2>1, <2>2
    <3> QED
      BY <1>7, <2>1, <2>2, <3>1
  <2>3. CASE x # node
    BY <1>7, <2>1, <2>3
  <2> QED
    BY <2>2, <2>3
<1> QED
  BY <1>0, <1>8, <1>11, <1>12, <1>13 DEF WifiInv

LEMMA WifiStep ==
  ASSUME Given, devices \subseteq Chassis, NEW s, WifiInv(s), NEW ap \in devices, NEW client
  PROVE  WifiInv(WifiClient(s, ap, client))
<1>1. PICK t : t = WifiClient(s, ap, client)
  OBVIOUS
<1>2. PICK m : m = client.mac
  OBVIOUS
<1>3. PICK spot : spot = OnAir(ap, client)
  OBVIOUS
<1>4. spot.to # None /\ spot.by = "wifi"
  BY <1>3, GivenIs DEF OnAir
<1>5. /\ DOMAIN s.mac = AgentIds /\ DOMAIN s.parent = Nodes(s.hosts)
      /\ \A i \in AgentIds : s.parent[Agent(i)].by = "lldp" => s.mac[i] # None
  BY DEF WifiInv
<1>6. \/ t = s
      \/ Host(m) \in DOMAIN s.hosts /\ s.parent[Host(m)].by # "lldp" /\ Hangs(s, t, Host(m), spot, s.mac, s.hosts)
      \/ \E i \in AgentIds : s.parent[Agent(i)].by # "lldp" /\ Hangs(s, t, Agent(i), spot, s.mac, s.hosts)
      \/ \E i \in AgentIds : s.mac[i] = None /\ Hangs(s, t, Agent(i), spot, [s.mac EXCEPT ![i] = m], s.hosts)
      \/ \E new : /\ Host(m) \notin DOMAIN s.hosts
                  /\ Hangs(s, t, Host(m), spot, s.mac, Over(Only(Host(m), new), s.hosts))
  BY <1>1, <1>2, <1>3, WifiClientIs
<1>7. WifiInv(t)
  <2>1. CASE t = s
    BY <2>1
  <2>2. CASE Host(m) \in DOMAIN s.hosts /\ s.parent[Host(m)].by # "lldp" /\ Hangs(s, t, Host(m), spot, s.mac, s.hosts)
    <3>1. PICK node : node = Host(m)
      OBVIOUS
    <3>2. DOMAIN s.hosts = DOMAIN s.hosts \cup ({node} \ {Agent(i) : i \in AgentIds})
      BY <2>2, <3>1
    <3>3. Hangs(s, t, node, spot, s.mac, s.hosts) /\ \E k : node = Host(k) /\ (node \in DOMAIN s.parent => s.parent[node].by # "lldp")
      BY <2>2, <3>1
    <3> QED
      BY <1>4, <1>5, <3>2, <3>3, HangsKeeps
  <2>3. CASE \E i \in AgentIds : s.parent[Agent(i)].by # "lldp" /\ Hangs(s, t, Agent(i), spot, s.mac, s.hosts)
    <3>1. PICK i \in AgentIds : s.parent[Agent(i)].by # "lldp" /\ Hangs(s, t, Agent(i), spot, s.mac, s.hosts)
      BY <2>3
    <3>2. PICK node : node = Agent(i)
      OBVIOUS
    <3>3. DOMAIN s.hosts = DOMAIN s.hosts \cup ({node} \ {Agent(j) : j \in AgentIds})
      BY <3>2
    <3>4. Hangs(s, t, node, spot, s.mac, s.hosts) /\ \E j \in AgentIds : node = Agent(j) /\ s.parent[node].by # "lldp"
      BY <3>1, <3>2
    <3> QED
      BY <1>4, <1>5, <3>3, <3>4, HangsKeeps
  <2>4. CASE \E i \in AgentIds : s.mac[i] = None /\ Hangs(s, t, Agent(i), spot, [s.mac EXCEPT ![i] = m], s.hosts)
    <3>1. PICK i \in AgentIds : s.mac[i] = None /\ Hangs(s, t, Agent(i), spot, [s.mac EXCEPT ![i] = m], s.hosts)
      BY <2>4
    <3>2. PICK node : node = Agent(i)
      OBVIOUS
    <3>3. PICK macs : macs = [s.mac EXCEPT ![i] = m]
      OBVIOUS
    <3>4. DOMAIN s.hosts = DOMAIN s.hosts \cup ({node} \ {Agent(j) : j \in AgentIds})
      BY <3>2
    <3>5. DOMAIN macs = AgentIds /\ \A j \in AgentIds : node # Agent(j) => macs[j] = s.mac[j]
      BY <1>5, <3>2, <3>3
    <3>6. Hangs(s, t, node, spot, macs, s.hosts) /\ \E j \in AgentIds : node = Agent(j) /\ s.parent[node].by # "lldp"
      BY <1>5, <3>1, <3>2, <3>3
    <3> QED
      BY <1>4, <3>4, <3>5, <3>6, HangsKeeps
  <2>5. CASE \E new : /\ Host(m) \notin DOMAIN s.hosts
                      /\ Hangs(s, t, Host(m), spot, s.mac, Over(Only(Host(m), new), s.hosts))
    <3>1. PICK new : /\ Host(m) \notin DOMAIN s.hosts
                     /\ Hangs(s, t, Host(m), spot, s.mac, Over(Only(Host(m), new), s.hosts))
      BY <2>5
    <3>2. PICK node : node = Host(m)
      OBVIOUS
    <3>3. PICK hs : hs = Over(Only(node, new), s.hosts)
      OBVIOUS
    <3>4. \A i : node # Agent(i)
      BY <3>2, NodesDiffer
    <3>5. DOMAIN hs = DOMAIN s.hosts \cup ({node} \ {Agent(j) : j \in AgentIds})
      <4>1. DOMAIN Only(node, new) = {node}
        BY DEF Only
      <4>2. DOMAIN hs = DOMAIN Only(node, new) \cup DOMAIN s.hosts
        BY <3>3 DEF Over
      <4> QED
        BY <3>4, <4>1, <4>2
    <3>6. node \notin DOMAIN s.parent
      BY <1>5, <3>1, <3>2, <3>4 DEF Nodes
    <3>7. Hangs(s, t, node, spot, s.mac, hs) /\ \E k : node = Host(k) /\ (node \in DOMAIN s.parent => s.parent[node].by # "lldp")
      BY <3>1, <3>2, <3>3, <3>6
    <3> QED
      BY <1>4, <1>5, <3>5, <3>7, HangsKeeps
  <2> QED
    BY <1>6, <2>1, <2>2, <2>3, <2>4, <2>5
<1> QED
  BY <1>1, <1>7

LEMMA ClientsOfLoop ==
  ASSUME NEW st, NEW ap, Len(doc.node[ap].clients) \in Nat
  PROVE  \E after : /\ after = [i \in 0..Len(doc.node[ap].clients) |-> IF i = 0 THEN st ELSE WifiClient(after[i - 1], ap, doc.node[ap].clients[i])]
                    /\ ClientsOf(st, ap) = after[Len(doc.node[ap].clients)]
<1> DEFINE n == Len(doc.node[ap].clients)
           IsAfter(f, m) == f = [i \in 0..m |-> IF i = 0 THEN st ELSE WifiClient(f[i - 1], ap, doc.node[ap].clients[i])]
           S == {m \in Nat : \E f : IsAfter(f, m)}
<1>1. 0 \in S
  <2>1. IsAfter([i \in 0..0 |-> st], 0)
    OBVIOUS
  <2> QED
    BY <2>1
<1>2. ASSUME NEW m \in Nat, m \in S PROVE m + 1 \in S
  <2>1. PICK f : IsAfter(f, m)
    BY <1>2
  <2> DEFINE g == [i \in 0..(m + 1) |-> IF i <= m THEN f[i] ELSE WifiClient(f[m], ap, doc.node[ap].clients[m + 1])]
  <2>2. \A i \in 0..(m + 1) : g[i] = IF i = 0 THEN st ELSE WifiClient(g[i - 1], ap, doc.node[ap].clients[i])
    <3> TAKE i \in 0..(m + 1)
    <3>1. CASE i = 0
      BY <2>1, <3>1
    <3>2. CASE i # 0 /\ i <= m
      <4>1. i \in 0..m /\ i - 1 \in 0..m
        BY <3>2
      <4>2. f[i] = WifiClient(f[i - 1], ap, doc.node[ap].clients[i])
        BY <2>1, <3>2, <4>1
      <4>3. g[i] = f[i] /\ g[i - 1] = f[i - 1]
        BY <3>2, <4>1
      <4> QED
        BY <3>2, <4>2, <4>3
    <3>3. CASE i = m + 1
      BY <3>3
    <3> QED
      BY <3>1, <3>2, <3>3
  <2>3. IsAfter(g, m + 1)
    BY <2>2
  <2> HIDE DEF IsAfter, g
  <2>4. \E h : IsAfter(h, m + 1)
    BY <2>3
  <2> QED
    BY <2>4
<1> HIDE DEF S
<1>3. n \in S
  BY <1>1, <1>2, ByNumbers
<1>4. PICK f : IsAfter(f, n)
  BY <1>3 DEF S
<1> DEFINE after[i \in 0..n] == IF i = 0 THEN st ELSE WifiClient(after[i - 1], ap, doc.node[ap].clients[i])
<1>5. IsAfter(after, n)
  BY <1>4
<1>6. ClientsOf(st, ap) = after[n]
  BY DEF ClientsOf
<1> QED
  BY <1>5, <1>6

LEMMA ClientsOfKeep ==
  ASSUME Given, devices \subseteq Chassis, NEW s, WifiInv(s), NEW ap \in devices
  PROVE  WifiInv(ClientsOf(s, ap))
<1> DEFINE n == Len(doc.node[ap].clients)
<1>1. n \in Nat
  BY GivenIs
<1>2. PICK after : /\ after = [i \in 0..n |-> IF i = 0 THEN s ELSE WifiClient(after[i - 1], ap, doc.node[ap].clients[i])]
                   /\ ClientsOf(s, ap) = after[n]
  BY <1>1, ClientsOfLoop
<1> HIDE DEF n
<1>3. after[0] = s /\ \A i \in 1..n : after[i] = WifiClient(after[i - 1], ap, doc.node[ap].clients[i])
  <2>1. \A i \in 0..n : after[i] = IF i = 0 THEN s ELSE WifiClient(after[i - 1], ap, doc.node[ap].clients[i])
    BY <1>2
  <2>2. 0 \in 0..n /\ \A i \in 1..n : i \in 0..n /\ i # 0
    BY <1>1
  <2> QED
    BY <2>1, <2>2
<1> DEFINE S == {k \in Nat : k <= n => WifiInv(after[k])}
<1>4. 0 \in S
  BY <1>3
<1>5. ASSUME NEW k \in Nat, k \in S PROVE k + 1 \in S
  <2> SUFFICES ASSUME k + 1 <= n PROVE WifiInv(after[k + 1])
    OBVIOUS
  <2>1. WifiInv(after[k]) /\ k + 1 \in 1..n /\ (k + 1) - 1 = k
    BY <1>1, <1>5
  <2>2. WifiInv(WifiClient(after[k], ap, doc.node[ap].clients[k + 1]))
    BY <2>1, WifiStep
  <2>3. after[k + 1] = WifiClient(after[k], ap, doc.node[ap].clients[k + 1])
    BY <1>1, <1>3, <2>1
  <2> QED
    BY <2>2, <2>3
<1> HIDE DEF S
<1>6. n \in S
  BY <1>1, <1>4, <1>5, ByNumbers
<1> QED
  BY <1>1, <1>2, <1>6 DEF n, S

OneAp(s, k) == IF doc.order[k] \in devices THEN ClientsOf(s, doc.order[k]) ELSE s

LEMMA WifiClientsLoop ==
  ASSUME NEW st, Len(doc.order) \in Nat
  PROVE  \E after : /\ after = [i \in 0..Len(doc.order) |-> IF i = 0 THEN st ELSE OneAp(after[i - 1], i)]
                    /\ WifiClients(st) = after[Len(doc.order)]
<1> DEFINE n == Len(doc.order)
           IsAfter(f, m) == f = [i \in 0..m |-> IF i = 0 THEN st ELSE OneAp(f[i - 1], i)]
           S == {m \in Nat : \E f : IsAfter(f, m)}
<1>1. 0 \in S
  <2>1. IsAfter([i \in 0..0 |-> st], 0)
    OBVIOUS
  <2> QED
    BY <2>1
<1>2. ASSUME NEW m \in Nat, m \in S PROVE m + 1 \in S
  <2>1. PICK f : IsAfter(f, m)
    BY <1>2
  <2> DEFINE g == [i \in 0..(m + 1) |-> IF i <= m THEN f[i] ELSE OneAp(f[m], m + 1)]
  <2>2. \A i \in 0..(m + 1) : g[i] = IF i = 0 THEN st ELSE OneAp(g[i - 1], i)
    <3> TAKE i \in 0..(m + 1)
    <3>1. CASE i = 0
      BY <2>1, <3>1
    <3>2. CASE i # 0 /\ i <= m
      <4>1. i \in 0..m /\ i - 1 \in 0..m
        BY <3>2
      <4>2. f[i] = OneAp(f[i - 1], i)
        BY <2>1, <3>2, <4>1
      <4>3. g[i] = f[i] /\ g[i - 1] = f[i - 1]
        BY <3>2, <4>1
      <4> QED
        BY <3>2, <4>2, <4>3
    <3>3. CASE i = m + 1
      BY <3>3
    <3> QED
      BY <3>1, <3>2, <3>3
  <2>3. IsAfter(g, m + 1)
    BY <2>2
  <2> HIDE DEF IsAfter, g
  <2>4. \E h : IsAfter(h, m + 1)
    BY <2>3
  <2> QED
    BY <2>4
<1> HIDE DEF S
<1>3. n \in S
  BY <1>1, <1>2, ByNumbers
<1>4. PICK f : IsAfter(f, n)
  BY <1>3 DEF S
<1> DEFINE after[i \in 0..n] == IF i = 0 THEN st ELSE OneAp(after[i - 1], i)
<1>5. IsAfter(after, n)
  BY <1>4
<1>6. WifiClients(st) = after[n]
  BY DEF WifiClients, OneAp
<1> QED
  BY <1>5, <1>6

LEMMA WifiClientsKeep ==
  ASSUME Given, devices \subseteq Chassis, NEW s, WifiInv(s)
  PROVE  WifiInv(WifiClients(s))
<1> DEFINE n == Len(doc.order)
<1>1. n \in Nat
  BY GivenIs
<1>2. PICK after : /\ after = [i \in 0..n |-> IF i = 0 THEN s ELSE OneAp(after[i - 1], i)]
                   /\ WifiClients(s) = after[n]
  BY <1>1, WifiClientsLoop
<1> HIDE DEF n
<1>3. after[0] = s /\ \A i \in 1..n : after[i] = OneAp(after[i - 1], i)
  <2>1. \A i \in 0..n : after[i] = IF i = 0 THEN s ELSE OneAp(after[i - 1], i)
    BY <1>2
  <2>2. 0 \in 0..n /\ \A i \in 1..n : i \in 0..n /\ i # 0
    BY <1>1
  <2> QED
    BY <2>1, <2>2
<1> DEFINE S == {k \in Nat : k <= n => WifiInv(after[k])}
<1>4. 0 \in S
  BY <1>3
<1>5. ASSUME NEW k \in Nat, k \in S PROVE k + 1 \in S
  <2> SUFFICES ASSUME k + 1 <= n PROVE WifiInv(after[k + 1])
    OBVIOUS
  <2>1. WifiInv(after[k]) /\ k + 1 \in 1..n /\ (k + 1) - 1 = k
    BY <1>1, <1>5
  <2>2. WifiInv(OneAp(after[k], k + 1))
    BY <2>1, ClientsOfKeep DEF OneAp
  <2>3. after[k + 1] = OneAp(after[k], k + 1)
    BY <1>1, <1>3, <2>1
  <2> QED
    BY <2>2, <2>3
<1> HIDE DEF S
<1>6. n \in S
  BY <1>1, <1>4, <1>5, ByNumbers
<1> QED
  BY <1>1, <1>2, <1>6 DEF n, S

-----------------------------------------------------------------------------
(***************************************************************************)
(* What the methods leave to the ones after them.                            *)
(***************************************************************************)
\* Where a table placed something is a device that was polled, so no agent and no host.
Anchored(p) == \A x \in DOMAIN p : p[x].by \in {"resolved", "tiebreak"} => p[x].to \in Chassis /\ doc.node[p[x].to].pollable
Recognised(p, macs) == \A i \in AgentIds : Agent(i) \in DOMAIN p /\ p[Agent(i)].by = "lldp" => macs[i] # None
\* A device that is still there and has the MAC an agent reports is equipment, or nothing that is there told of it.
Unclaimed(macs, left) ==
  \A i \in AgentIds : macs[i] # None /\ macs[i] \in left => Equipment(macs[i]) \/ SwitchAndPort(macs[i]).switch \notin left
AllAnnounced(p) == \A x \in DOMAIN p : (\E i \in AgentIds : x = Agent(i)) /\ p[x].by = "lldp" /\ p[x].to # None
EvidenceStep ==
  \A x \in DOMAIN parent :
    /\ parent[x].by = "lldp" /\ parent[x].to \in devices' => parent'[x] = parent[x]
    /\ parent[x].by \in {"resolved", "tiebreak"} => parent'[x] = parent[x] \/ parent'[x].by \in {"lldp", "wifi"}

LEMMA PhantomsLeave ==
  ASSUME Given, devices \subseteq Chassis, DOMAIN mac = AgentIds, \A i \in AgentIds : mac[i] \in Macs \cup {None},
         MergeLldpPhantoms
  PROVE  /\ devices' \subseteq devices /\ AllAnnounced(parent') /\ Announced(parent', mac, devices')
         /\ Unclaimed(mac, devices')
<1> DEFINE merged == {c \in devices : AnAgents(c) /\ ~Equipment(c) /\ SwitchAndPort(c).switch \in devices}
<1>1. /\ parent' = [x \in {Agent(AgentWith(c)) : c \in merged} |->
                       ByLldp(CHOOSE c \in merged : Agent(AgentWith(c)) = x)]
      /\ devices' = devices \ merged
  BY DEF MergeLldpPhantoms
<1>2. \A c \in merged : AgentWith(c) \in AgentIds /\ mac[AgentWith(c)] = c /\ c # None
  <2> TAKE c \in merged
  <2> DEFINE T == {i \in AgentIds : mac[i] = c}
  <2>1. MacOf(c) = c /\ c # None /\ T # {}
    <3>1. MacOf(c) # None /\ \E i \in AgentIds : mac[i] = MacOf(c)
      BY DEF AnAgents
    <3>2. MacOf(c) = c
      BY <3>1 DEF MacOf
    <3> QED
      BY <3>1, <3>2
  <2>2. T \in SUBSET (1..Len(doc.agents)) /\ Len(doc.agents) \in Nat
    BY GivenIs
  <2>3. Largest(T) \in T
    BY <2>1, <2>2, LargestIs
  <2> QED
    BY <2>1, <2>3 DEF AgentWith
<1> HIDE DEF merged
<1>3. ASSUME NEW x \in DOMAIN parent'
      PROVE  \E c \in merged : Agent(AgentWith(c)) = x /\ parent'[x] = ByLldp(c)
  <2>1. \E c \in merged : Agent(AgentWith(c)) = x
    BY <1>1, <1>3
  <2>2. PICK c \in merged : c = CHOOSE d \in merged : Agent(AgentWith(d)) = x
    BY <2>1
  <2>3. Agent(AgentWith(c)) = x
    BY <2>1, <2>2
  <2>4. parent'[x] = ByLldp(c)
    BY <1>1, <1>3, <2>2
  <2> QED
    BY <2>3, <2>4
<1>4. None \notin devices
  BY GivenIs
<1>5. AllAnnounced(parent')
  <2> SUFFICES ASSUME NEW x \in DOMAIN parent'
               PROVE  (\E i \in AgentIds : x = Agent(i)) /\ parent'[x].by = "lldp" /\ parent'[x].to # None
    BY DEF AllAnnounced
  <2>1. PICK c \in merged : Agent(AgentWith(c)) = x /\ parent'[x] = ByLldp(c)
    BY <1>3
  <2>2. SwitchAndPort(c).switch \in devices
    BY DEF merged
  <2>3. parent'[x].by = "lldp" /\ parent'[x].to = SwitchAndPort(c).switch
    BY <2>1 DEF ByLldp
  <2> QED
    BY <1>2, <1>4, <2>1, <2>2, <2>3
<1>6. Announced(parent', mac, devices')
  <2> SUFFICES ASSUME NEW i \in AgentIds, Agent(i) \in DOMAIN parent' PROVE mac[i] # None /\ mac[i] \notin devices'
    BY DEF Announced
  <2>1. PICK c \in merged : Agent(AgentWith(c)) = Agent(i)
    BY <1>3
  <2>2. AgentWith(c) = i
    BY <2>1, NodesDiffer
  <2> QED
    BY <1>1, <1>2, <2>2
<1>7. Unclaimed(mac, devices')
  <2> SUFFICES ASSUME NEW i \in AgentIds, mac[i] # None, mac[i] \in devices', ~Equipment(mac[i]),
                      SwitchAndPort(mac[i]).switch \in devices'
               PROVE  FALSE
    BY DEF Unclaimed
  <2>1. mac[i] \in devices /\ mac[i] \notin merged /\ SwitchAndPort(mac[i]).switch \in devices
    BY <1>1
  <2>2. MacOf(mac[i]) = mac[i]
    BY MacIs
  <2>3. AnAgents(mac[i])
    BY <2>2 DEF AnAgents
  <2> QED
    BY <2>1, <2>3 DEF merged
<1> QED
  BY <1>1, <1>5, <1>6, <1>7

LEMMA OwnerIs ==
  ASSUME Given, NEW ip, NEW macs, macs \subseteq Macs, NEW m, m = Owner(ip, macs), m # None
  PROVE  m \in macs
<1> DEFINE S == {k \in macs : IpOf(k) = ip}
<1>1. S # {} /\ m = Largest(S)
  BY DEF Owner
<1>2. FirstName \in Nat /\ S \in SUBSET (1..FirstName)
  <2>1. FirstName \in Nat
    BY GivenIs
  <2>2. \A k \in 1..(FirstName - 1) : k \in 1..FirstName
    BY <2>1
  <2> QED
    BY <2>1, <2>2 DEF Macs
<1> QED
  BY <1>1, <1>2, LargestIs

LEMMA PolledAreInfra ==
  ASSUME Given, NEW c \in Chassis, c \in Macs, c \notin Infra
  PROVE  ~doc.node[c].pollable
<1>1. MacOf(c) = c /\ c # None
  BY MacIs
<1> QED
  BY <1>1 DEF Infra

LEMMA TablesLeave ==
  ASSUME Given, devices \subseteq Chassis, DOMAIN mac = AgentIds, \A i \in AgentIds : mac[i] \in Macs \cup {None},
         AllAnnounced(parent), Announced(parent, mac, devices), Unclaimed(mac, devices),
         PlaceFromTables
  PROVE  /\ DOMAIN mac' = AgentIds /\ DOMAIN parent' = Nodes(<< >>) /\ Reasoned(parent', reason', mac')
         /\ Announced(parent', mac', devices) /\ MayBeLate(mac') /\ Anchored(parent') /\ EvidenceStep
<1> DEFINE open == {i \in AgentIds : Agent(i) \notin DOMAIN parent}
           placed(i) == IF TableMac(i) \in Learned THEN ByTable(TableMac(i)) ELSE BySubnet(i, devices)
           new == [x \in {Agent(i) : i \in open} |-> placed(x[2])]
           told == [i \in {j \in open : placed(j) = Unplaced} |-> WhyUnplaced(i, TableMac(i))]
<1>1. mac' = [i \in AgentIds |-> IF i \in open THEN TableMac(i) ELSE mac[i]]
      /\ parent' = Over(parent, new) /\ reason' = told
  BY DEF PlaceFromTables
<1>2. /\ DOMAIN new = {Agent(i) : i \in open}
      /\ \A i \in open : new[Agent(i)] = placed(i)
  <2> HIDE DEF placed, open
  <2> QED
    BY NodesDiffer
<1>3. \A i \in AgentIds : /\ (placed(i) = Unplaced <=> placed(i).to = None) /\ placed(i).by # "lldp"
                          /\ placed(i).by \in {"resolved", "tiebreak"} => placed(i).to \in Chassis /\ doc.node[placed(i).to].pollable
  <2> TAKE i \in AgentIds
  <2>1. CASE TableMac(i) \in Learned
    <3> DEFINE m == TableMac(i)
    <3>1. placed(i) = [to |-> Fact(m).switch, port |-> Fact(m).port, by |-> Confidence(m)]
      BY <2>1 DEF ByTable
    <3>2. Fact(m).switch \in Chassis /\ Fact(m).switch # None /\ doc.node[Fact(m).switch].pollable
      BY <2>1, FactIs
    <3>3. Confidence(m) # "lldp"
      BY DEF Confidence
    <3> HIDE DEF placed, m
    <3>4. placed(i).to = Fact(m).switch /\ placed(i).by = Confidence(m)
      BY <3>1
    <3>5. placed(i) # Unplaced
      BY <3>2, <3>4 DEF Unplaced
    <3> QED
      BY <3>2, <3>3, <3>4, <3>5
  <2>2. CASE TableMac(i) \notin Learned
    <3>1. placed(i) = BySubnet(i, devices)
      BY <2>2
    <3> HIDE DEF placed
    <3> QED
      BY <3>1, BySubnetIs
  <2> QED
    BY <2>1, <2>2
<1> HIDE DEF placed
<1>4. DOMAIN told = {j \in open : placed(j) = Unplaced} /\ \A i \in DOMAIN told : told[i] = WhyUnplaced(i, TableMac(i))
  OBVIOUS
<1> HIDE DEF new, told
<1>5. /\ DOMAIN parent' = DOMAIN parent \cup {Agent(i) : i \in open}
      /\ \A x \in DOMAIN parent : parent'[x] = parent[x]
      /\ \A i \in open : parent'[Agent(i)] = placed(i)
  <2>1. /\ DOMAIN Over(parent, new) = DOMAIN parent \cup DOMAIN new
        /\ \A x \in DOMAIN parent : Over(parent, new)[x] = parent[x]
        /\ \A x \in DOMAIN new \ DOMAIN parent : Over(parent, new)[x] = new[x]
    BY DEF Over
  <2>2. \A i \in open : Agent(i) \in DOMAIN new \ DOMAIN parent
    BY <1>2
  <2> HIDE DEF open
  <2> QED
    BY <1>1, <1>2, <2>1, <2>2
<1>6. \A i \in AgentIds : /\ i \in open => mac'[i] = TableMac(i)
                          /\ i \notin open => mac'[i] = mac[i] /\ Agent(i) \in DOMAIN parent
  BY <1>1
<1>7. DOMAIN mac' = AgentIds /\ open \subseteq AgentIds
  BY <1>1
<1>8. DOMAIN parent' = Nodes(<< >>)
  <2>1. DOMAIN parent \subseteq {Agent(i) : i \in AgentIds}
    BY DEF AllAnnounced
  <2>2. {Agent(i) : i \in AgentIds} \subseteq DOMAIN parent'
    BY <1>5
  <2>3. DOMAIN << >> = {}
    OBVIOUS
  <2> HIDE DEF open
  <2>4. DOMAIN parent' \subseteq {Agent(i) : i \in AgentIds}
    BY <1>5, <1>7, <2>1
  <2> QED
    BY <2>2, <2>3, <2>4 DEF Nodes
<1> HIDE DEF open
<1>9. Reasoned(parent', reason', mac')
  <2>1. \A i \in AgentIds : Agent(i) \in DOMAIN parent'
    BY <1>8 DEF Nodes
  <2>2. ASSUME NEW i PROVE i \in DOMAIN reason' <=> i \in AgentIds /\ parent'[Agent(i)].to = None
    <3>1. CASE i \in open
      BY <1>1, <1>3, <1>4, <1>5, <1>7, <3>1
    <3>2. CASE i \in AgentIds \ open
      <4>1. parent'[Agent(i)].to # None
        BY <1>5, <1>6, <3>2 DEF AllAnnounced
      <4> QED
        BY <1>1, <1>4, <3>2, <4>1
    <3>3. CASE i \notin AgentIds
      BY <1>1, <1>4, <1>7, <3>3
    <3> QED
      BY <3>1, <3>2, <3>3
  <2>3. ASSUME NEW i \in DOMAIN reason' PROVE ReasonIsTrue(i, reason', mac')
    <3>1. i \in open /\ reason'[i] = WhyUnplaced(i, TableMac(i))
      BY <1>1, <1>4
    <3>2. mac'[i] = TableMac(i)
      BY <1>6, <1>7, <3>1
    <3> QED
      BY <3>1, <3>2, WhyIs DEF ReasonIsTrue
  <2> QED
    BY <2>1, <2>2, <2>3 DEF Reasoned
<1>10. Announced(parent', mac', devices)
  <2> SUFFICES ASSUME NEW i \in AgentIds, parent'[Agent(i)].by = "lldp" PROVE mac'[i] # None /\ mac'[i] \notin devices
    BY DEF Announced
  <2>1. i \notin open
    BY <1>3, <1>5
  <2>2. mac'[i] = mac[i] /\ Agent(i) \in DOMAIN parent /\ parent[Agent(i)] = parent'[Agent(i)]
    BY <1>5, <1>6, <2>1
  <2> QED
    BY <2>2 DEF Announced
<1>11. MayBeLate(mac')
  <2> SUFFICES ASSUME NEW i \in AgentIds, NEW c, c = LateMac(i, mac'), c # None, c \in devices, ~Equipment(c),
                      SwitchAndPort(c).switch \in devices
               PROVE  ~doc.node[c].pollable
    BY DEF MayBeLate
  <2>1. CASE mac'[i] = None
    <3> DEFINE arp == ArpByIp(doc.agents[i].ip)
    <3>1. c = arp /\ arp \notin Infra
      BY <2>1 DEF LateMac
    <3>2. DOMAIN doc.arp \subseteq Macs
      BY GivenIs
    <3>3. c \in Macs
      BY <3>1, <3>2, OwnerIs DEF ArpByIp
    <3> QED
      BY <3>1, <3>3, PolledAreInfra
  <2>2. CASE mac'[i] # None
    <3>1. c = mac'[i]
      BY <2>2 DEF LateMac
    <3>2. CASE c = mac[i]
      BY <3>2 DEF Unclaimed
    <3>3. CASE c # mac[i]
      <4>1. c = TableMac(i)
        BY <1>6, <3>1, <3>3
      <4>2. c = ByIp(doc.agents[i].ip)
        BY <3>3, <4>1 DEF TableMac
      <4>3. Learned \subseteq Macs
        BY LearnedIs
      <4>4. c \in Learned
        BY <4>2, <4>3, OwnerIs DEF ByIp
      <4>5. c \in Macs /\ c \notin Infra
        BY <4>4, LearnedIs
      <4> QED
        BY <4>5, PolledAreInfra
    <3> QED
      BY <3>2, <3>3
  <2> QED
    BY <2>1, <2>2
<1>12. Anchored(parent')
  <2> SUFFICES ASSUME NEW x \in DOMAIN parent', parent'[x].by \in {"resolved", "tiebreak"}
               PROVE  parent'[x].to \in Chassis /\ doc.node[parent'[x].to].pollable
    BY DEF Anchored
  <2>1. CASE x \in DOMAIN parent
    BY <1>5, <2>1 DEF AllAnnounced
  <2>2. CASE \E i \in open : x = Agent(i)
    BY <1>3, <1>5, <1>7, <2>2
  <2> QED
    BY <1>5, <2>1, <2>2
<1>13. EvidenceStep
  BY <1>5 DEF EvidenceStep
<1> QED
  BY <1>7, <1>8, <1>9, <1>10, <1>11, <1>12, <1>13

\* Retiring devices nobody polled moves nothing that a table or a device that is still there placed.
LEMMA RetiringKeeps ==
  ASSUME NEW gone, NEW left, NEW p, Anchored(p), \A c \in gone : ~doc.node[c].pollable
  PROVE  LET q == RetiredParents(gone, left, p)
         IN /\ DOMAIN q = DOMAIN p /\ Anchored(q)
            /\ \A x \in DOMAIN p : p[x].to \notin gone => q[x] = p[x]
            /\ \A x \in DOMAIN p : q[x] = p[x] \/ q[x].by \in {"subnet_fallback", "none"}
            /\ \A x \in DOMAIN p : p[x].by \in {"resolved", "tiebreak"} => q[x] = p[x]
<1>1. PICK q : q = RetiredParents(gone, left, p)
  OBVIOUS
<1>2. /\ DOMAIN q = DOMAIN p
      /\ \A x \in DOMAIN p : IF \E i \in AgentIds : x = Agent(i) /\ p[x].to \in gone
                             THEN q[x] = BySubnet(x[2], left) ELSE q[x] = p[x]
  BY <1>1, RetiredIs
<1>3. \A x \in DOMAIN p : p[x].to \notin gone => q[x] = p[x]
  BY <1>2
<1>4. \A x \in DOMAIN p : q[x] = p[x] \/ q[x].by \in {"subnet_fallback", "none"}
  BY <1>2, BySubnetIs
<1>5. \A x \in DOMAIN p : p[x].by \in {"resolved", "tiebreak"} => q[x] = p[x]
  BY <1>3 DEF Anchored
<1>6. Anchored(q)
  <2> SUFFICES ASSUME NEW x \in DOMAIN p, q[x].by \in {"resolved", "tiebreak"}
               PROVE  q[x].to \in Chassis /\ doc.node[q[x].to].pollable
    BY <1>2 DEF Anchored
  <2>1. q[x] = p[x]
    BY <1>4
  <2> QED
    BY <2>1 DEF Anchored
<1> QED
  BY <1>1, <1>2, <1>3, <1>4, <1>5, <1>6

LEMMA LateLeaves ==
  ASSUME Given, devices \subseteq Chassis, DOMAIN mac = AgentIds, DOMAIN parent = Nodes(<< >>),
         Reasoned(parent, reason, mac), Announced(parent, mac, devices), MayBeLate(mac), Anchored(parent),
         MergeLatePhantoms
  PROVE  /\ devices' \subseteq devices /\ DOMAIN mac' = AgentIds /\ DOMAIN parent' = Nodes(<< >>)
         /\ Reasoned(parent', reason', mac') /\ Recognised(parent', mac') /\ Anchored(parent') /\ EvidenceStep
<1> DEFINE start == [late |-> {}, mac |-> mac, parent |-> parent, reason |-> reason, warned |-> warned]
<1>1. PICK st : st = LateAgents(start)
  OBVIOUS
<1> DEFINE left == devices \ st.late
<1>2. /\ devices' = left /\ mac' = st.mac
      /\ parent' = RetiredParents(st.late, left, st.parent)
      /\ reason' = RetiredReasons(st.late, left, st.parent, st.mac, st.reason)
  BY <1>1 DEF MergeLatePhantoms
<1>3. \A i \in AgentIds : Agent(i) \in DOMAIN parent
  BY DEF Reasoned
<1>4. LateInv(start, 0)
  <2>1. /\ IsLate(start) /\ start.mac = mac /\ start.parent = parent /\ start.reason = reason /\ start.late = {}
    BY DEF IsLate
  <2> HIDE DEF start
  <2>2. devices \ start.late = devices
    BY <2>1
  <2> QED
    BY <2>1, <2>2 DEF LateInv
<1> HIDE DEF start
<1>5. LateInv(st, Len(doc.agents))
  BY <1>1, <1>3, <1>4, LateAgentsKeep
<1>6. /\ DOMAIN st.mac = AgentIds /\ DOMAIN st.parent = DOMAIN parent
      /\ Reasoned(st.parent, st.reason, st.mac)
      /\ st.late \subseteq devices /\ (\A c \in st.late : ~doc.node[c].pollable)
      /\ Announced(st.parent, st.mac, devices \ st.late)
  BY <1>5 DEF LateInv
<1>7. \A x \in DOMAIN parent :
         \/ st.parent[x] = parent[x]
         \/ parent[x].by # "lldp" /\ st.parent[x].by = "lldp" /\ doc.node[st.parent[x].to].pollable
  BY <1>5 DEF LateInv
<1>8. Anchored(st.parent)
  <2> SUFFICES ASSUME NEW x \in DOMAIN parent, st.parent[x].by \in {"resolved", "tiebreak"}
               PROVE  st.parent[x].to \in Chassis /\ doc.node[st.parent[x].to].pollable
    BY <1>6 DEF Anchored
  <2>1. st.parent[x] = parent[x]
    BY <1>7
  <2> QED
    BY <2>1 DEF Anchored
<1>9. /\ DOMAIN parent' = DOMAIN st.parent /\ Anchored(parent')
      /\ \A x \in DOMAIN st.parent : st.parent[x].to \notin st.late => parent'[x] = st.parent[x]
      /\ \A x \in DOMAIN st.parent : parent'[x] = st.parent[x] \/ parent'[x].by \in {"subnet_fallback", "none"}
      /\ \A x \in DOMAIN st.parent : st.parent[x].by \in {"resolved", "tiebreak"} => parent'[x] = st.parent[x]
  BY <1>2, <1>6, <1>8, RetiringKeeps
<1>10. None \notin st.late
  BY <1>6, GivenIs
<1>11. Reasoned(parent', reason', mac')
  BY <1>2, <1>6, <1>10, RetiredAreReasoned
<1>12. Recognised(parent', mac')
  <2> SUFFICES ASSUME NEW i \in AgentIds, Agent(i) \in DOMAIN parent', parent'[Agent(i)].by = "lldp" PROVE mac'[i] # None
    BY DEF Recognised
  <2>1. parent'[Agent(i)] = st.parent[Agent(i)] /\ Agent(i) \in DOMAIN st.parent
    BY <1>9
  <2> QED
    BY <1>2, <1>6, <2>1 DEF Announced
<1>13. EvidenceStep
  <2> SUFFICES ASSUME NEW x \in DOMAIN parent
               PROVE  /\ parent[x].by = "lldp" /\ parent[x].to \in devices' => parent'[x] = parent[x]
                      /\ parent[x].by \in {"resolved", "tiebreak"} => parent'[x] = parent[x] \/ parent'[x].by \in {"lldp", "wifi"}
    BY DEF EvidenceStep
  <2>1. ASSUME parent[x].by = "lldp", parent[x].to \in devices' PROVE parent'[x] = parent[x]
    <3>1. st.parent[x] = parent[x]
      BY <1>7, <2>1
    <3>2. st.parent[x].to \notin st.late
      BY <1>2, <2>1, <3>1
    <3> QED
      BY <1>6, <1>9, <3>1, <3>2
  <2>2. ASSUME parent[x].by \in {"resolved", "tiebreak"} PROVE parent'[x] = parent[x] \/ parent'[x].by \in {"lldp", "wifi"}
    <3>1. CASE st.parent[x] = parent[x]
      BY <1>6, <1>9, <2>2, <3>1
    <3>2. CASE st.parent[x].by = "lldp" /\ doc.node[st.parent[x].to].pollable
      <4>1. st.parent[x].to \notin st.late
        BY <1>6, <3>2
      <4> QED
        BY <1>6, <1>9, <3>2, <4>1
    <3> QED
      BY <1>7, <3>1, <3>2
  <2> QED
    BY <2>1, <2>2
<1> QED
  BY <1>2, <1>6, <1>9, <1>11, <1>12, <1>13

\* Nodes that are added and are no agents change nothing of what is known of the agents.
LEMMA AddedAreReasoned ==
  ASSUME NEW p, NEW q, NEW r, NEW macs, Reasoned(p, r, macs), DOMAIN p \subseteq DOMAIN q,
         \A i \in AgentIds : q[Agent(i)] = p[Agent(i)]
  PROVE  Reasoned(q, r, macs)
  BY DEF Reasoned

LEMMA EndsLeave ==
  ASSUME Given, devices \subseteq Chassis, DOMAIN mac = AgentIds, hosts = << >>, DOMAIN parent = Nodes(hosts),
         Reasoned(parent, reason, mac), Recognised(parent, mac), Anchored(parent),
         AddLldpEndHosts
  PROVE  /\ devices' \subseteq devices /\ mac' = mac /\ DOMAIN parent' = Nodes(hosts')
         /\ Reasoned(parent', reason', mac) /\ Recognised(parent', mac) /\ EvidenceStep
<1> DEFINE ends == {c \in devices : IsEndHost(c)}
           left == devices \ ends
           placed(c) == IF SwitchAndPort(c).switch \in left THEN ByLldp(c) ELSE Unplaced
           new == [x \in {Host(c) : c \in ends} |-> placed(x[2])]
           q == RetiredParents(ends, left, parent)
<1>1. /\ devices' = left /\ mac' = mac
      /\ DOMAIN hosts' = {Host(c) : c \in ends}
      /\ parent' = Over(q, new)
      /\ reason' = RetiredReasons(ends, left, parent, mac, reason)
  BY DEF AddLldpEndHosts
<1>2. \A c \in ends : ~doc.node[c].pollable
  BY DEF IsEndHost
<1>3. /\ DOMAIN q = DOMAIN parent
      /\ \A x \in DOMAIN parent : parent[x].to \notin ends => q[x] = parent[x]
      /\ \A x \in DOMAIN parent : q[x] = parent[x] \/ q[x].by \in {"subnet_fallback", "none"}
      /\ \A x \in DOMAIN parent : parent[x].by \in {"resolved", "tiebreak"} => q[x] = parent[x]
  <2> HIDE DEF ends, left
  <2> QED
    BY <1>2, RetiringKeeps
<1>4. None \notin ends
  BY GivenIs
<1>5. DOMAIN new = {Host(c) : c \in ends}
  OBVIOUS
<1> HIDE DEF new, placed
<1>6. Reasoned(q, reason', mac)
  <2> HIDE DEF ends, left
  <2> QED
    BY <1>1, <1>4, RetiredAreReasoned
<1> HIDE DEF q, ends
<1>7. DOMAIN parent' = DOMAIN q \cup DOMAIN new /\ \A x \in DOMAIN q : parent'[x] = q[x]
  BY <1>1 DEF Over
<1>8. \A i \in AgentIds : Agent(i) \in DOMAIN parent
  BY DEF Reasoned
<1>9. Reasoned(parent', reason', mac)
  <2>1. DOMAIN q \subseteq DOMAIN parent' /\ \A i \in AgentIds : parent'[Agent(i)] = q[Agent(i)]
    BY <1>3, <1>7, <1>8
  <2>2. \A p, r, m : Reasoned(p, r, m) /\ DOMAIN p \subseteq DOMAIN parent'
                       /\ (\A i \in AgentIds : parent'[Agent(i)] = p[Agent(i)]) => Reasoned(parent', r, m)
    BY DEF Reasoned
  <2> QED
    BY <1>6, <2>1, <2>2
<1>10. DOMAIN parent' = Nodes(hosts')
  <2>1. DOMAIN << >> = {}
    OBVIOUS
  <2> QED
    BY <1>1, <1>3, <1>5, <1>7, <2>1 DEF Nodes
<1>11. Recognised(parent', mac)
  <2> SUFFICES ASSUME NEW i \in AgentIds, parent'[Agent(i)].by = "lldp" PROVE mac[i] # None
    BY DEF Recognised
  <2>1. parent'[Agent(i)] = parent[Agent(i)]
    BY <1>3, <1>7, <1>8
  <2> QED
    BY <1>8, <2>1 DEF Recognised
<1>12. EvidenceStep
  <2> SUFFICES ASSUME NEW x \in DOMAIN parent
               PROVE  /\ parent[x].by = "lldp" /\ parent[x].to \in devices' => parent'[x] = parent[x]
                      /\ parent[x].by \in {"resolved", "tiebreak"} => parent'[x] = parent[x] \/ parent'[x].by \in {"lldp", "wifi"}
    BY DEF EvidenceStep
  <2>1. parent'[x] = q[x]
    BY <1>3, <1>7
  <2>2. parent[x].to \in devices' => parent[x].to \notin ends
    BY <1>1
  <2> QED
    BY <1>3, <2>1, <2>2
<1> QED
  BY <1>1, <1>9, <1>10, <1>11, <1>12

LEMMA TableHostsLeave ==
  ASSUME DOMAIN parent = Nodes(hosts), Reasoned(parent, reason, mac), Recognised(parent, mac),
         AddTableHosts
  PROVE  /\ DOMAIN parent' = Nodes(hosts') /\ Reasoned(parent', reason, mac) /\ Recognised(parent', mac) /\ EvidenceStep
<1> DEFINE new == {Host(m) : m \in Learned \ KnownMacs}
           found == [x \in new |-> [mac |-> x[2], ip |-> IpOf(x[2]), how |-> "fdb"]]
           places == [x \in new |-> [to |-> Fact(x[2]).switch, port |-> Fact(x[2]).port, by |-> "fdb"]]
<1>1. hosts' = Over(hosts, found) /\ parent' = Over(parent, places)
  BY DEF AddTableHosts
<1>2. DOMAIN found = new /\ DOMAIN places = new
  OBVIOUS
<1> HIDE DEF new, found, places
<1>3. /\ DOMAIN parent' = DOMAIN parent \cup new /\ \A x \in DOMAIN parent : parent'[x] = parent[x]
      /\ DOMAIN hosts' = DOMAIN hosts \cup new
  BY <1>1, <1>2 DEF Over
<1>4. DOMAIN parent' = Nodes(hosts')
  BY <1>3 DEF Nodes
<1>5. \A i \in AgentIds : Agent(i) \in DOMAIN parent
  BY DEF Reasoned
<1>6. Reasoned(parent', reason, mac)
  BY <1>3, <1>5 DEF Reasoned
<1>7. Recognised(parent', mac)
  BY <1>3, <1>5 DEF Recognised
<1>8. EvidenceStep
  BY <1>3 DEF EvidenceStep
<1> QED
  BY <1>4, <1>6, <1>7, <1>8

LEMMA WifiLeaves ==
  ASSUME Given, devices \subseteq Chassis, DOMAIN mac = AgentIds, DOMAIN parent = Nodes(hosts),
         Reasoned(parent, reason, mac), Recognised(parent, mac),
         PlaceWifiClients
  PROVE  /\ DOMAIN mac' = AgentIds /\ DOMAIN parent' = Nodes(hosts')
         /\ Reasoned(parent', reason', mac') /\ Recognised(parent', mac') /\ EvidenceStep
<1> DEFINE start == [hosts |-> hosts, mac |-> mac, parent |-> parent, reason |-> reason]
<1>1. PICK st : st = WifiClients(start)
  OBVIOUS
<1>2. hosts' = st.hosts /\ mac' = st.mac /\ parent' = st.parent /\ reason' = st.reason
  BY <1>1 DEF PlaceWifiClients
<1>3. \A i \in AgentIds : Agent(i) \in DOMAIN parent
  BY DEF Reasoned
<1>4. WifiInv(start)
  <2>1. /\ IsWifi(start) /\ start.mac = mac /\ start.parent = parent /\ start.reason = reason /\ start.hosts = hosts
    BY DEF IsWifi
  <2> HIDE DEF start
  <2>2. \A i \in AgentIds : parent[Agent(i)].by = "lldp" => mac[i] # None
    BY <1>3 DEF Recognised
  <2> QED
    BY <2>1, <2>2 DEF WifiInv
<1> HIDE DEF start
<1>5. WifiInv(st)
  BY <1>1, <1>4, WifiClientsKeep
<1>6. /\ DOMAIN st.mac = AgentIds /\ DOMAIN st.parent = Nodes(st.hosts)
      /\ Reasoned(st.parent, st.reason, st.mac)
      /\ \A i \in AgentIds : st.parent[Agent(i)].by = "lldp" => st.mac[i] # None
  BY <1>5 DEF WifiInv
<1>7. \A x \in DOMAIN parent :
         x \in DOMAIN st.parent /\ (st.parent[x] = parent[x] \/ (parent[x].by # "lldp" /\ st.parent[x].by = "wifi"))
  BY <1>5 DEF WifiInv
<1>8. Recognised(parent', mac')
  BY <1>2, <1>6 DEF Recognised
<1>9. EvidenceStep
  <2> SUFFICES ASSUME NEW x \in DOMAIN parent
               PROVE  /\ parent[x].by = "lldp" /\ parent[x].to \in devices' => parent'[x] = parent[x]
                      /\ parent[x].by \in {"resolved", "tiebreak"} => parent'[x] = parent[x] \/ parent'[x].by \in {"lldp", "wifi"}
    BY DEF EvidenceStep
  <2>1. parent'[x] = parent[x] \/ (parent[x].by # "lldp" /\ parent'[x].by = "wifi")
    BY <1>2, <1>7
  <2> QED
    BY <2>1
<1> QED
  BY <1>2, <1>6, <1>8, <1>9

Early == {"phantoms", "links", "tables"}
Late == {"ends", "hosts", "wifi", "vlans", "done"}
BuildInv ==
  /\ Given /\ devices \subseteq Chassis /\ DOMAIN mac = AgentIds
  /\ step = "phantoms" => parent = << >>
  /\ step \in Early => hosts = << >> /\ \A i \in AgentIds : mac[i] \in Macs \cup {None}
  /\ step \in {"links", "tables"} => AllAnnounced(parent) /\ Announced(parent, mac, devices) /\ Unclaimed(mac, devices)
  /\ step = "late" => Announced(parent, mac, devices) /\ MayBeLate(mac)
  /\ step \in {"late", "ends"} => hosts = << >> /\ Anchored(parent)
  /\ step \in Late => Recognised(parent, mac)
  /\ step \in Late \cup {"late"} => DOMAIN parent = Nodes(hosts) /\ Reasoned(parent, reason, mac)

\* The document is what it was, and so is what is said in its terms.
LEMMA DocumentStays ==
  ASSUME doc' = doc
  PROVE  /\ Given' <=> Given
         /\ Chassis' = Chassis /\ AgentIds' = AgentIds
         /\ AllAnnounced(parent') => AllAnnounced(parent)'
         /\ Announced(parent', mac', devices') => Announced(parent, mac, devices)'
         /\ Unclaimed(mac', devices') => Unclaimed(mac, devices)'
         /\ Anchored(parent') => Anchored(parent)'
         /\ Recognised(parent', mac') => Recognised(parent, mac)'
         /\ Nodes(hosts') = Nodes(hosts)'
         /\ Reasoned(parent', reason', mac') => Reasoned(parent, reason, mac)'
<1>1. AgentIds' = AgentIds /\ Chassis' = Chassis
  BY DEF AgentIds, Chassis
<1>2. Given' <=> Given
  BY DEF Given
<1>3. AllAnnounced(parent') => AllAnnounced(parent)'
  BY <1>1 DEF AllAnnounced, Agent
<1>4. Announced(parent', mac', devices') => Announced(parent, mac, devices)'
  BY <1>1 DEF Announced, Agent
<1>5. Unclaimed(mac', devices') => Unclaimed(mac, devices)'
  <2>1. \A c : Equipment(c)' = Equipment(c) /\ SwitchAndPort(c)' = SwitchAndPort(c)
    BY DEF Equipment, SwitchAndPort, Touching
  <2> QED
    BY <1>1, <2>1 DEF Unclaimed
<1>6. Anchored(parent') => Anchored(parent)'
  BY <1>1 DEF Anchored
<1>7. Recognised(parent', mac') => Recognised(parent, mac)'
  BY <1>1 DEF Recognised, Agent
<1>8. Nodes(hosts') = Nodes(hosts)'
  BY <1>1 DEF Nodes, Agent
<1>9. Reasoned(parent', reason', mac') => Reasoned(parent, reason, mac)'
  BY <1>1 DEF Reasoned, ReasonIsTrue, Agent, Online
<1> QED
  BY <1>1, <1>2, <1>3, <1>4, <1>5, <1>6, <1>7, <1>8, <1>9

LEMMA BuildInit ==
  AssembleInit => BuildInv
<1> SUFFICES ASSUME AssembleInit PROVE BuildInv
  OBVIOUS
<1>1. Given
  BY DEF AssembleInit, Given
<1>2. /\ devices = Chassis /\ mac = [i \in AgentIds |-> doc.agents[i].mac] /\ parent = << >> /\ hosts = << >>
      /\ step = "phantoms"
  BY DEF AssembleInit, AssembleStarts
<1>3. DOMAIN mac = AgentIds /\ \A i \in AgentIds : mac[i] \in Macs \cup {None}
  BY <1>1, <1>2, GivenIs
<1> QED
  BY <1>1, <1>2, <1>3 DEF BuildInv, Late

LEMMA BuildStep ==
  ASSUME BuildInv, [AssembleNext]_assembleVars
  PROVE  BuildInv' /\ ([EvidenceStep]_assembleVars)
<1>0. /\ Given /\ devices \subseteq Chassis /\ DOMAIN mac = AgentIds
      /\ step = "phantoms" => parent = << >>
      /\ step \in Early => hosts = << >> /\ \A i \in AgentIds : mac[i] \in Macs \cup {None}
      /\ step \in {"links", "tables"} => AllAnnounced(parent) /\ Announced(parent, mac, devices) /\ Unclaimed(mac, devices)
      /\ step = "late" => Announced(parent, mac, devices) /\ MayBeLate(mac)
      /\ step \in {"late", "ends"} => hosts = << >> /\ Anchored(parent)
      /\ step \in Late => Recognised(parent, mac)
      /\ step \in Late \cup {"late"} => DOMAIN parent = Nodes(hosts) /\ Reasoned(parent, reason, mac)
  BY DEF BuildInv
<1>1. CASE MergeLldpPhantoms
  <2>1. step = "phantoms" /\ step' = "links" /\ doc' = doc /\ mac' = mac /\ hosts' = hosts
    BY <1>1 DEF MergeLldpPhantoms
  <2>2. /\ devices' \subseteq devices /\ AllAnnounced(parent') /\ Announced(parent', mac, devices')
        /\ Unclaimed(mac, devices')
    BY <1>0, <1>1, <2>1, PhantomsLeave DEF Early
  <2>3. EvidenceStep
    <3>1. DOMAIN parent = {}
      BY <1>0, <2>1
    <3> QED
      BY <3>1 DEF EvidenceStep
  <2>4. BuildInv'
    BY <1>0, <2>1, <2>2, DocumentStays DEF BuildInv, Early, Late
  <2> QED
    BY <2>3, <2>4
<1>2. CASE LinkDevices
  <2>1. step = "links" /\ step' = "tables" /\ doc' = doc /\ mac' = mac /\ hosts' = hosts /\ devices' = devices /\ parent' = parent
    BY <1>2 DEF LinkDevices
  <2>2. AllAnnounced(parent') /\ Announced(parent', mac', devices') /\ Unclaimed(mac', devices')
    BY <1>0, <2>1
  <2>3. EvidenceStep
    BY <2>1 DEF EvidenceStep
  <2>4. BuildInv'
    BY <1>0, <2>1, <2>2, DocumentStays DEF BuildInv, Early, Late
  <2> QED
    BY <2>3, <2>4
<1>3. CASE PlaceFromTables
  <2>1. step = "tables" /\ step' = "late" /\ doc' = doc /\ devices' = devices /\ hosts' = hosts
    BY <1>3 DEF PlaceFromTables
  <2>2. /\ DOMAIN mac' = AgentIds /\ DOMAIN parent' = Nodes(<< >>) /\ Reasoned(parent', reason', mac')
        /\ Announced(parent', mac', devices) /\ MayBeLate(mac') /\ Anchored(parent') /\ EvidenceStep
    BY <1>0, <1>3, <2>1, TablesLeave DEF Early
  <2>3. MayBeLate(mac)'
    <3>1. Infra' = Infra
      BY <2>1 DEF Infra, Chassis, MacOf
    <3>2. \A c : Equipment(c)' = Equipment(c) /\ SwitchAndPort(c)' = SwitchAndPort(c)
      BY <2>1 DEF Equipment, SwitchAndPort, Touching
    <3>3. \A ip : ArpByIp(ip)' = ArpByIp(ip)
      BY <2>1 DEF ArpByIp, Owner, IpOf, Largest
    <3>4. AgentIds' = AgentIds
      BY <2>1 DEF AgentIds
    <3>5. \A i : LateMac(i, mac)' = LateMac(i, mac')
      BY <2>1, <3>1, <3>2, <3>3 DEF LateMac
    <3> QED
      BY <2>1, <2>2, <3>2, <3>4, <3>5 DEF MayBeLate
  <2>4. hosts = << >>
    BY <1>0, <2>1 DEF Early
  <2>5. BuildInv'
    BY <1>0, <2>1, <2>2, <2>3, <2>4, DocumentStays DEF BuildInv, Early, Late
  <2> QED
    BY <2>2, <2>5
<1>4. CASE MergeLatePhantoms
  <2>1. step = "late" /\ step' = "ends" /\ doc' = doc /\ hosts' = hosts
    BY <1>4 DEF MergeLatePhantoms
  <2>2. hosts = << >>
    BY <1>0, <2>1
  <2>3. /\ devices' \subseteq devices /\ DOMAIN mac' = AgentIds /\ DOMAIN parent' = Nodes(<< >>)
        /\ Reasoned(parent', reason', mac') /\ Recognised(parent', mac') /\ Anchored(parent') /\ EvidenceStep
    BY <1>0, <1>4, <2>1, <2>2, LateLeaves DEF Late
  <2>4. BuildInv'
    BY <1>0, <2>1, <2>2, <2>3, DocumentStays DEF BuildInv, Early, Late
  <2> QED
    BY <2>3, <2>4
<1>5. CASE AddLldpEndHosts
  <2>1. step = "ends" /\ step' = "hosts" /\ doc' = doc
    BY <1>5 DEF AddLldpEndHosts
  <2>2. /\ devices' \subseteq devices /\ mac' = mac /\ DOMAIN parent' = Nodes(hosts')
        /\ Reasoned(parent', reason', mac) /\ Recognised(parent', mac) /\ EvidenceStep
    BY <1>0, <1>5, <2>1, EndsLeave DEF Late
  <2>3. BuildInv'
    BY <1>0, <2>1, <2>2, DocumentStays DEF BuildInv, Early, Late
  <2> QED
    BY <2>2, <2>3
<1>6. CASE AddTableHosts
  <2>1. step = "hosts" /\ step' = "wifi" /\ doc' = doc /\ devices' = devices /\ mac' = mac /\ reason' = reason
    BY <1>6 DEF AddTableHosts
  <2>2. DOMAIN parent' = Nodes(hosts') /\ Reasoned(parent', reason, mac) /\ Recognised(parent', mac) /\ EvidenceStep
    BY <1>0, <1>6, <2>1, TableHostsLeave DEF Late
  <2>3. BuildInv'
    BY <1>0, <2>1, <2>2, DocumentStays DEF BuildInv, Early, Late
  <2> QED
    BY <2>2, <2>3
<1>7. CASE PlaceWifiClients
  <2>1. step = "wifi" /\ step' = "vlans" /\ doc' = doc /\ devices' = devices
    BY <1>7 DEF PlaceWifiClients
  <2>2. /\ DOMAIN mac' = AgentIds /\ DOMAIN parent' = Nodes(hosts')
        /\ Reasoned(parent', reason', mac') /\ Recognised(parent', mac') /\ EvidenceStep
    BY <1>0, <1>7, <2>1, WifiLeaves DEF Late
  <2>3. BuildInv'
    BY <1>0, <2>1, <2>2, DocumentStays DEF BuildInv, Early, Late
  <2> QED
    BY <2>2, <2>3
<1>8. CASE StampVlans
  <2>1. /\ step = "vlans" /\ step' = "done" /\ doc' = doc /\ devices' = devices /\ mac' = mac /\ hosts' = hosts
        /\ parent' = parent /\ reason' = reason
    BY <1>8 DEF StampVlans
  <2>2. DOMAIN parent' = Nodes(hosts') /\ Reasoned(parent', reason', mac') /\ Recognised(parent', mac')
    BY <1>0, <2>1 DEF Late
  <2>3. EvidenceStep
    BY <2>1 DEF EvidenceStep
  <2>4. BuildInv'
    BY <1>0, <2>1, <2>2, DocumentStays DEF BuildInv, Early, Late
  <2> QED
    BY <2>3, <2>4
<1>9. CASE UNCHANGED assembleVars
  <2>1. /\ step' = step /\ doc' = doc /\ devices' = devices /\ mac' = mac /\ hosts' = hosts
        /\ parent' = parent /\ reason' = reason
    BY <1>9 DEF assembleVars
  <2>2. MayBeLate(mac) => MayBeLate(mac)'
    <3>1. Infra' = Infra
      BY <2>1 DEF Infra, Chassis, MacOf
    <3>2. \A c : Equipment(c)' = Equipment(c) /\ SwitchAndPort(c)' = SwitchAndPort(c)
      BY <2>1 DEF Equipment, SwitchAndPort, Touching
    <3>3. \A ip : ArpByIp(ip)' = ArpByIp(ip)
      BY <2>1 DEF ArpByIp, Owner, IpOf, Largest
    <3>4. AgentIds' = AgentIds
      BY <2>1 DEF AgentIds
    <3>5. \A i : LateMac(i, mac)' = LateMac(i, mac)
      BY <2>1, <3>1, <3>2, <3>3 DEF LateMac
    <3> QED
      BY <2>1, <3>2, <3>4, <3>5 DEF MayBeLate
  <2>3. BuildInv'
    BY <1>0, <2>1, <2>2, DocumentStays DEF BuildInv
  <2> QED
    BY <1>9, <2>3
<1> QED
  BY <1>1, <1>2, <1>3, <1>4, <1>5, <1>6, <1>7, <1>8, <1>9 DEF AssembleNext

\* What each method of GraphAssembler.build leaves to those after it holds when they run.
THEOREM BuildAlways == AssembleSpec => []BuildInv
<1>1. AssembleInit => BuildInv
  BY BuildInit
<1>2. BuildInv /\ [AssembleNext]_assembleVars => BuildInv'
  BY BuildStep
<1> QED
  BY <1>1, <1>2, PTL DEF AssembleSpec

\* An agent of the graph has a reason for being nowhere when it is nowhere, and the reason is true (assemble/graph.py
\* unparented_reason).
THEOREM ReasonsAlwaysTrue == AssembleSpec => []ReasonsAreTrue
<1>1. BuildInv => ReasonsAreTrue
  <2> SUFFICES ASSUME BuildInv, Done PROVE
                 /\ DOMAIN reason = {i \in AgentIds : parent[Agent(i)].to = None}
                 /\ \A i \in DOMAIN reason : reason[i] = "offline" <=> ~Online(i)
                 /\ \A i \in DOMAIN reason : reason[i] = "no_mac" => mac[i] = None
    BY DEF ReasonsAreTrue
  <2>1. Reasoned(parent, reason, mac)
    BY DEF BuildInv, Done, Late
  <2> QED
    BY <2>1 DEF Reasoned, ReasonIsTrue
<1> QED
  BY <1>1, BuildAlways, PTL

\* What LLDP said of a machine is not replaced by weaker evidence (assemble/graph.py, the order of build).
THEOREM EvidenceAlwaysStands == AssembleSpec => EvidenceStands
<1>1. BuildInv /\ [AssembleNext]_assembleVars => [EvidenceStep]_assembleVars
  BY BuildStep
<1>2. AssembleSpec => [][EvidenceStep]_assembleVars
  BY <1>1, BuildAlways, PTL DEF AssembleSpec
<1> QED
  BY <1>2 DEF EvidenceStands, EvidenceStep

(***************************************************************************)
(* One machine, one node. Two nodes with one MAC are two agents, or an agent *)
(* or a host beside a device, which the code keeps for one of its reasons.   *)
(* Every method leaves that to the next one; what Excused says of a MAC      *)
(* stays true, because a device that is gone does not come back.             *)
(***************************************************************************)
Excused(m, left, w, also) == m \in w \/ (m \in Chassis /\ SwitchAndPort(m).switch \notin left) \/ m \in also
HostsNamed(h) == \A x \in DOMAIN h : x = Host(x[2]) /\ h[x].mac = MacOf(x[2])
Apart(h, macs, left, w, also) ==
  /\ \A i \in AgentIds : macs[i] # None /\ (macs[i] \in left \/ Host(macs[i]) \in DOMAIN h) => Excused(macs[i], left, w, also)
  /\ \A m \in left : Host(m) \in DOMAIN h => Excused(m, left, w, also)
HeardHere == IF step \in {"vlans", "done"} THEN devices \cap Clients ELSE {}
ApartInv == BuildInv /\ (step \in Late => HostsNamed(hosts) /\ Apart(hosts, mac, devices, warned, HeardHere))

\* An agent that the late loop has passed is no device, or is one the code keeps.
Told(m, s) ==
  m # None /\ m \in devices \ s.late => m \in s.warned \/ SwitchAndPort(m).switch \notin devices \ s.late
LateApart(s, k) == IsLate(s) /\ DOMAIN s.mac = AgentIds /\ \A j \in AgentIds : j <= k => Told(s.mac[j], s)

LEMMA ToldStays ==
  ASSUME NEW s, NEW t, s.late \subseteq t.late, s.warned \subseteq t.warned, NEW m, Told(m, s)
  PROVE  Told(m, t)
  BY DEF Told

\* What one agent's turn does to the devices, the MACs and the report.
TurnOf(s, t, i) ==
  /\ IsLate(t) /\ s.late \subseteq t.late /\ s.warned \subseteq t.warned
  /\ \/ t.mac = s.mac /\ Told(s.mac[i], t)
     \/ \E c : t.mac = [s.mac EXCEPT ![i] = c] /\ c \in t.late

LEMMA LateAgentTells ==
  ASSUME NEW s, IsLate(s), NEW i, NEW t, t = LateAgent(s, i)
  PROVE  TurnOf(s, t, i)
<1> DEFINE c == LateMac(i, s.mac)
           spot == ByLldp(c)
           warn(x, w) == [x EXCEPT !.warned = w]
           merge(x, l) == [x EXCEPT !.late = l]
           told(x, m) == [x EXCEPT !.mac = m]
           hang(x, p) == [x EXCEPT !.parent = p]
           clear(x, r) == [x EXCEPT !.reason = r]
           more == s.late \cup {c}
           macs == [s.mac EXCEPT ![i] = c]
           moved == [s.parent EXCEPT ![Agent(i)] = spot]
           less == Without(s.reason, {i})
           known == IF s.mac[i] = None THEN s.warned ELSE s.warned \cup {c}
<1>1. t = IF c = None \/ c \notin devices \/ c \in s.late THEN s
          ELSE IF Equipment(c) THEN warn(s, known)
          ELSE IF spot.to \notin devices \/ spot.to \in s.late THEN s
          ELSE IF s.parent[Agent(i)].to = spot.to /\ s.parent[Agent(i)].port = spot.port
               THEN told(merge(s, more), macs)
               ELSE clear(hang(told(merge(s, more), macs), moved), less)
  BY DEF LateAgent
<1>2. s = LateOf(s.late, s.mac, s.parent, s.reason, s.warned)
  BY DEF IsLate, LateOf
<1>3. s.mac[i] # None => c = s.mac[i]
  BY DEF LateMac
<1>4. spot.to = SwitchAndPort(c).switch
  BY DEF ByLldp
<1> HIDE DEF c, spot, moved, less
<1>5. \A l, m, p, r, w, x : warn(LateOf(l, m, p, r, w), x) = LateOf(l, m, p, r, x)
  BY DEF LateOf
<1>6. \A l, m, p, r, w, x : merge(LateOf(l, m, p, r, w), x) = LateOf(x, m, p, r, w)
  BY DEF LateOf
<1>7. \A l, m, p, r, w, x : told(LateOf(l, m, p, r, w), x) = LateOf(l, x, p, r, w)
  BY DEF LateOf
<1>8. \A l, m, p, r, w, x : hang(LateOf(l, m, p, r, w), x) = LateOf(l, m, x, r, w)
  BY DEF LateOf
<1>9. \A l, m, p, r, w, x : clear(LateOf(l, m, p, r, w), x) = LateOf(l, m, p, x, w)
  BY DEF LateOf
<1>10. \A l, m, p, r, w, x : x = LateOf(l, m, p, r, w) => IsLate(x) /\ x.late = l /\ x.mac = m /\ x.warned = w
  BY DEF LateOf, IsLate
<1> HIDE DEF warn, merge, told, hang, clear, more, macs, known
<1>11. /\ warn(s, known) = LateOf(s.late, s.mac, s.parent, s.reason, known)
       /\ told(merge(s, more), macs) = LateOf(more, macs, s.parent, s.reason, s.warned)
       /\ clear(hang(told(merge(s, more), macs), moved), less) = LateOf(more, macs, moved, less, s.warned)
  BY <1>2, <1>5, <1>6, <1>7, <1>8, <1>9
<1>12. CASE t = s /\ (c = None \/ c \notin devices \/ c \in s.late \/ spot.to \notin devices \/ spot.to \in s.late)
  <2>1. Told(s.mac[i], s)
    BY <1>3, <1>4, <1>12 DEF Told
  <2> QED
    BY <1>12, <2>1 DEF TurnOf
<1>13. CASE t = warn(s, known)
  <2>1. IsLate(t) /\ t.late = s.late /\ t.mac = s.mac /\ t.warned = known
    BY <1>10, <1>11, <1>13
  <2>2. s.warned \subseteq known /\ (s.mac[i] # None => c \in known)
    BY DEF known
  <2>3. Told(s.mac[i], t)
    BY <1>3, <2>1, <2>2 DEF Told
  <2> QED
    BY <2>1, <2>2, <2>3 DEF TurnOf
<1>14. CASE t = told(merge(s, more), macs) \/ t = clear(hang(told(merge(s, more), macs), moved), less)
  <2>1. IsLate(t) /\ t.late = more /\ t.mac = macs /\ t.warned = s.warned
    BY <1>10, <1>11, <1>14
  <2>2. s.late \subseteq more /\ c \in more
    BY DEF more
  <2>3. t.mac = [s.mac EXCEPT ![i] = c]
    BY <2>1 DEF macs
  <2> QED
    BY <2>1, <2>2, <2>3 DEF TurnOf
<1> QED
  BY <1>1, <1>12, <1>13, <1>14

LEMMA LateApartStep ==
  ASSUME Given, NEW s, NEW k \in Nat, LateApart(s, k), NEW i \in AgentIds, i = k + 1
  PROVE  LateApart(LateAgent(s, i), i)
<1>1. PICK t : t = LateAgent(s, i)
  OBVIOUS
<1>2. IsLate(s) /\ DOMAIN s.mac = AgentIds /\ \A j \in AgentIds : j <= k => Told(s.mac[j], s)
  BY DEF LateApart
<1>3. /\ IsLate(t) /\ s.late \subseteq t.late /\ s.warned \subseteq t.warned
      /\ \/ t.mac = s.mac /\ Told(s.mac[i], t)
         \/ \E c : t.mac = [s.mac EXCEPT ![i] = c] /\ c \in t.late
  <2>1. TurnOf(s, t, i)
    BY <1>1, <1>2, LateAgentTells
  <2> QED
    BY <2>1 DEF TurnOf
<1>4. /\ DOMAIN t.mac = AgentIds /\ Told(t.mac[i], t)
      /\ \A j \in AgentIds \ {i} : t.mac[j] = s.mac[j]
  <2>1. CASE t.mac = s.mac /\ Told(s.mac[i], t)
    BY <1>2, <2>1
  <2>2. CASE \E c : t.mac = [s.mac EXCEPT ![i] = c] /\ c \in t.late
    <3>1. PICK c : t.mac = [s.mac EXCEPT ![i] = c] /\ c \in t.late
      BY <2>2
    <3>2. t.mac[i] = c /\ DOMAIN t.mac = AgentIds /\ \A j \in AgentIds \ {i} : t.mac[j] = s.mac[j]
      BY <1>2, <3>1
    <3> QED
      BY <3>1, <3>2 DEF Told
  <2> QED
    BY <1>3, <2>1, <2>2
<1>5. ASSUME NEW j \in AgentIds, j <= i PROVE Told(t.mac[j], t)
  <2>1. CASE j = i
    BY <1>4, <2>1
  <2>2. CASE j # i
    <3>1. j <= k /\ t.mac[j] = s.mac[j]
      BY <1>4, <1>5, <2>2, GivenIs
    <3> QED
      BY <1>2, <1>3, <3>1, ToldStays
  <2> QED
    BY <2>1, <2>2
<1> QED
  BY <1>1, <1>3, <1>4, <1>5 DEF LateApart

LEMMA LateAgentsApart ==
  ASSUME Given, NEW s, IsLate(s), DOMAIN s.mac = AgentIds
  PROVE  LateApart(LateAgents(s), Len(doc.agents))
<1> DEFINE n == Len(doc.agents)
<1>1. n \in Nat /\ AgentIds = 1..n
  BY GivenIs
<1>2. PICK after : /\ after = [i \in 0..n |-> IF i = 0 THEN s ELSE LateAgent(after[i - 1], i)]
                   /\ LateAgents(s) = after[n]
  BY <1>1, LateAgentsLoop
<1> HIDE DEF n
<1>3. after[0] = s /\ \A i \in 1..n : after[i] = LateAgent(after[i - 1], i)
  <2>1. \A i \in 0..n : after[i] = IF i = 0 THEN s ELSE LateAgent(after[i - 1], i)
    BY <1>2
  <2>2. 0 \in 0..n /\ \A i \in 1..n : i \in 0..n /\ i # 0
    BY <1>1
  <2> QED
    BY <2>1, <2>2
<1> DEFINE S == {k \in Nat : k <= n => LateApart(after[k], k)}
<1>4. 0 \in S
  <2>1. \A j \in AgentIds : ~(j <= 0)
    BY <1>1
  <2> QED
    BY <1>3, <2>1 DEF LateApart
<1>5. ASSUME NEW k \in Nat, k \in S PROVE k + 1 \in S
  <2> SUFFICES ASSUME k + 1 <= n PROVE LateApart(after[k + 1], k + 1)
    OBVIOUS
  <2>1. LateApart(after[k], k) /\ k + 1 \in AgentIds /\ (k + 1) - 1 = k
    BY <1>1, <1>5
  <2>2. LateApart(LateAgent(after[k], k + 1), k + 1)
    BY <2>1, LateApartStep
  <2>3. after[k + 1] = LateAgent(after[k], k + 1)
    BY <1>1, <1>3, <2>1
  <2> QED
    BY <2>2, <2>3
<1> HIDE DEF S
<1>6. n \in S
  BY <1>1, <1>4, <1>5, ByNumbers
<1> QED
  BY <1>1, <1>2, <1>6 DEF n, S

LEMMA LateParts ==
  ASSUME Given, devices \subseteq Chassis, DOMAIN mac = AgentIds, hosts = << >>, MergeLatePhantoms
  PROVE  HostsNamed(hosts') /\ Apart(hosts', mac', devices', warned', {})
<1> DEFINE start == [late |-> {}, mac |-> mac, parent |-> parent, reason |-> reason, warned |-> warned]
<1>1. PICK st : st = LateAgents(start)
  OBVIOUS
<1>2. devices' = devices \ st.late /\ mac' = st.mac /\ warned' = st.warned /\ hosts' = hosts
  BY <1>1 DEF MergeLatePhantoms
<1>3. IsLate(start) /\ DOMAIN start.mac = AgentIds
  BY DEF IsLate
<1> HIDE DEF start
<1>4. LateApart(st, Len(doc.agents))
  BY <1>1, <1>3, LateAgentsApart
<1>5. \A j \in AgentIds : Told(st.mac[j], st)
  <2>1. \A j \in AgentIds : j <= Len(doc.agents)
    BY GivenIs
  <2> QED
    BY <1>4, <2>1 DEF LateApart
<1>6. DOMAIN hosts' = {}
  BY <1>2
<1>7. ASSUME NEW i \in AgentIds, mac'[i] # None, mac'[i] \in devices' PROVE Excused(mac'[i], devices', warned', {})
  BY <1>2, <1>5, <1>7 DEF Told, Excused
<1> QED
  BY <1>6, <1>7 DEF HostsNamed, Apart

\* What is told apart stays so while devices go, MACs are reported and access points are heard.
LEMMA ExcusedStays ==
  ASSUME NEW m, NEW left, NEW less, less \subseteq left, NEW w, NEW also, NEW more, also \subseteq more,
         Excused(m, left, w, also)
  PROVE  Excused(m, less, w, more)
  BY DEF Excused

LEMMA ApartStays ==
  ASSUME NEW h, NEW macs, NEW left, NEW less, less \subseteq left, NEW w, NEW also, NEW more, also \subseteq more,
         Apart(h, macs, left, w, also)
  PROVE  Apart(h, macs, less, w, more)
<1>1. \A m : Excused(m, left, w, also) => Excused(m, less, w, more)
  BY ExcusedStays
<1> QED
  BY <1>1 DEF Apart

LEMMA EndsApart ==
  ASSUME hosts = << >>, Apart(hosts, mac, devices, warned, {}), AddLldpEndHosts
  PROVE  HostsNamed(hosts') /\ Apart(hosts', mac, devices', warned, {})
<1> DEFINE ends == {c \in devices : IsEndHost(c)}
<1>1. /\ devices' = devices \ ends /\ DOMAIN hosts' = {Host(c) : c \in ends}
      /\ \A x \in {Host(c) : c \in ends} : hosts'[x].mac = MacOf(x[2])
  BY DEF AddLldpEndHosts
<1>2. ends \subseteq devices
  OBVIOUS
<1> HIDE DEF ends
<1>3. \A m : Host(m) \in DOMAIN hosts' <=> m \in ends
  BY <1>1, NodesDiffer
<1>4. HostsNamed(hosts')
  BY <1>1, NodesDiffer DEF HostsNamed
<1>5. \A m : Excused(m, devices, warned, {}) => Excused(m, devices', warned, {})
  BY <1>1, ExcusedStays
<1>6. ASSUME NEW i \in AgentIds, mac[i] # None, mac[i] \in devices' \/ Host(mac[i]) \in DOMAIN hosts'
      PROVE  Excused(mac[i], devices', warned, {})
  <2>1. mac[i] \in devices
    BY <1>1, <1>2, <1>3, <1>6
  <2> QED
    BY <1>5, <1>6, <2>1 DEF Apart
<1>7. \A m \in devices' : Host(m) \notin DOMAIN hosts'
  BY <1>1, <1>3
<1> QED
  BY <1>4, <1>6, <1>7 DEF Apart

LEMMA TableHostsApart ==
  ASSUME Given, HostsNamed(hosts), Apart(hosts, mac, devices, warned, {}), AddTableHosts
  PROVE  HostsNamed(hosts') /\ Apart(hosts', mac, devices, warned, {})
<1> DEFINE found == Learned \ KnownMacs
           new == [x \in {Host(m) : m \in found} |-> [mac |-> x[2], ip |-> IpOf(x[2]), how |-> "fdb"]]
<1>1. hosts' = Over(hosts, new)
  BY DEF AddTableHosts
<1>2. DOMAIN new = {Host(m) : m \in found} /\ \A x \in DOMAIN new : new[x].mac = x[2]
  OBVIOUS
<1>3. \A m \in found : MacOf(m) = m /\ m \notin KnownMacs
  BY LearnedIs, MacIs
<1> HIDE DEF found, new
<1>4. /\ DOMAIN hosts' = DOMAIN hosts \cup {Host(m) : m \in found}
      /\ \A x \in DOMAIN hosts : hosts'[x] = hosts[x]
      /\ \A x \in DOMAIN hosts' \ DOMAIN hosts : hosts'[x].mac = x[2] /\ x \in {Host(m) : m \in found}
  BY <1>1, <1>2 DEF Over
<1>5. \A m : Host(m) \in DOMAIN hosts' => Host(m) \in DOMAIN hosts \/ m \in found
  BY <1>4, NodesDiffer
<1>6. HostsNamed(hosts')
  <2> SUFFICES ASSUME NEW x \in DOMAIN hosts' PROVE x = Host(x[2]) /\ hosts'[x].mac = MacOf(x[2])
    BY DEF HostsNamed
  <2>1. CASE x \in DOMAIN hosts
    BY <1>4, <2>1 DEF HostsNamed
  <2>2. CASE x \notin DOMAIN hosts
    <3>1. PICK m \in found : x = Host(m)
      BY <1>4, <2>2
    <3>2. x[2] = m /\ hosts'[x].mac = m
      BY <1>4, <2>2, <3>1, NodesDiffer
    <3> QED
      BY <1>3, <3>1, <3>2
  <2> QED
    BY <2>1, <2>2
<1>7. \A i \in AgentIds : mac[i] \notin found
  BY <1>3 DEF KnownMacs
<1>8. \A m \in devices : m \notin found
  <2> SUFFICES ASSUME NEW m \in devices, m \in found PROVE FALSE
    OBVIOUS
  <2>1. MacOf(m) = m /\ MacOf(m) \in KnownMacs
    BY <1>3 DEF KnownMacs
  <2> QED
    BY <1>3, <2>1
<1> QED
  BY <1>5, <1>6, <1>7, <1>8 DEF Apart

\* What one client does to the MACs and the hosts: nothing, or its MAC, which no host and no agent has, becomes that
\* of an agent or of a new host.
HeardAs(s, t, m) ==
  \/ t.mac = s.mac /\ t.hosts = s.hosts
  \/ /\ NodeWith(s, m) = << >>
     /\ \/ \E i \in AgentIds : t.mac = [s.mac EXCEPT ![i] = m] /\ t.hosts = s.hosts
        \/ \E new : new.mac = m /\ t.mac = s.mac /\ t.hosts = Over(Only(Host(m), new), s.hosts)

LEMMA WifiClientTells ==
  ASSUME NEW s, IsWifi(s), NEW ap, NEW client, NEW t, t = WifiClient(s, ap, client)
  PROVE  IsWifi(t) /\ HeardAs(s, t, client.mac)
<1> DEFINE m == client.mac
           spot == OnAir(ap, client)
           node == NodeWith(s, m)
           owners == Owners(s, client)
           new == [mac |-> m, ip |-> IF client.ip # None THEN client.ip ELSE IpOf(m), how |-> "wifi"]
           owner == CHOOSE i \in owners : TRUE
           named == [s EXCEPT !.mac[owner] = m]
           found == [s EXCEPT !.hosts = Over(Only(Host(m), new), @)]
<1>1. t = IF m \in Infra THEN s
          ELSE IF node # << >>
               THEN IF s.parent[node].by = "lldp" THEN s ELSE UnderAp(s, node, ap, client)
          ELSE IF Cardinality(owners) = 1 THEN UnderAp(named, Agent(owner), ap, client)
          ELSE UnderAp(found, Host(m), ap, client)
  BY DEF WifiClient
<1>2. CASE t = s
  BY <1>2 DEF HeardAs
<1>3. CASE t = UnderAp(s, node, ap, client)
  <2> HIDE DEF node
  <2>1. Hangs(s, t, node, spot, s.mac, s.hosts)
    BY <1>3, UnderApHangs
  <2> QED
    BY <2>1 DEF Hangs, HeardAs
<1>4. CASE node = << >> /\ Cardinality(owners) = 1 /\ t = UnderAp(named, Agent(owner), ap, client)
  <2>1. owners # {}
    <3>1. Cardinality({}) = 0
      BY FS_EmptySet
    <3>2. Cardinality(owners) = 1
      BY <1>4
    <3> QED
      BY <3>1, <3>2
  <2>2. owner \in AgentIds
    BY <2>1 DEF Owners
  <2> HIDE DEF owner
  <2>3. named = [s EXCEPT !.mac = [s.mac EXCEPT ![owner] = m]]
    OBVIOUS
  <2>4. IsWifi(named) /\ named.mac = [s.mac EXCEPT ![owner] = m] /\ named.hosts = s.hosts
    BY <2>3, WifiFields
  <2> HIDE DEF named
  <2>5. Hangs(named, t, Agent(owner), spot, named.mac, named.hosts)
    BY <1>4, <2>4, UnderApHangs
  <2>6. IsWifi(t) /\ t.mac = [s.mac EXCEPT ![owner] = m] /\ t.hosts = s.hosts
    <3> HIDE DEF spot, m
    <3> QED
      BY <2>4, <2>5 DEF Hangs
  <2> QED
    BY <1>4, <2>2, <2>6 DEF HeardAs
<1>5. CASE node = << >> /\ t = UnderAp(found, Host(m), ap, client)
  <2>1. new.mac = m
    OBVIOUS
  <2> HIDE DEF new
  <2>2. IsWifi(found) /\ found.hosts = Over(Only(Host(m), new), s.hosts) /\ found.mac = s.mac
    BY WifiFields
  <2> HIDE DEF found
  <2>3. Hangs(found, t, Host(m), spot, found.mac, found.hosts)
    BY <1>5, <2>2, UnderApHangs
  <2>4. IsWifi(t) /\ t.mac = s.mac /\ t.hosts = Over(Only(Host(m), new), s.hosts)
    <3> HIDE DEF spot, m
    <3> QED
      BY <2>2, <2>3 DEF Hangs
  <2> QED
    BY <1>5, <2>1, <2>4 DEF HeardAs
<1> HIDE DEF node, owners, named, found, owner
<1> QED
  BY <1>1, <1>2, <1>3, <1>4, <1>5

\* No node of the graph has the MAC.
LEMMA NodeWithIs ==
  ASSUME NEW s, NEW m, NodeWith(s, m) = << >>
  PROVE  Host(m) \notin DOMAIN s.hosts /\ \A i \in AgentIds : s.mac[i] # m
  BY NodesDiffer DEF NodeWith

WifiApart(s) ==
  IsWifi(s) /\ DOMAIN s.mac = AgentIds /\ HostsNamed(s.hosts) /\ Apart(s.hosts, s.mac, devices, warned, devices \cap Clients)

LEMMA WifiApartStep ==
  ASSUME Given, NEW s, WifiApart(s), NEW ap, NEW client, client.mac \in Clients \cap Macs
  PROVE  WifiApart(WifiClient(s, ap, client))
<1>1. PICK t : t = WifiClient(s, ap, client)
  OBVIOUS
<1>2. PICK m : m = client.mac
  OBVIOUS
<1>3. m \in Clients /\ MacOf(m) = m
  BY <1>2, MacIs
<1>4. IsWifi(s) /\ DOMAIN s.mac = AgentIds /\ HostsNamed(s.hosts) /\ Apart(s.hosts, s.mac, devices, warned, devices \cap Clients)
  BY DEF WifiApart
<1>5. IsWifi(t) /\ HeardAs(s, t, m)
  BY <1>1, <1>2, <1>4, WifiClientTells
<1>6. m \in devices => Excused(m, devices, warned, devices \cap Clients)
  BY <1>3 DEF Excused
<1>7. CASE t.mac = s.mac /\ t.hosts = s.hosts
  BY <1>1, <1>4, <1>5, <1>7 DEF WifiApart
<1>8. CASE /\ NodeWith(s, m) = << >>
           /\ \E i \in AgentIds : t.mac = [s.mac EXCEPT ![i] = m] /\ t.hosts = s.hosts
  <2>1. Host(m) \notin DOMAIN s.hosts
    BY <1>8, NodeWithIs
  <2>2. PICK i \in AgentIds : t.mac = [s.mac EXCEPT ![i] = m] /\ t.hosts = s.hosts
    BY <1>8
  <2>3. DOMAIN t.mac = AgentIds /\ \A j \in AgentIds : t.mac[j] = IF j = i THEN m ELSE s.mac[j]
    BY <1>4, <2>2
  <2>4. Apart(t.hosts, t.mac, devices, warned, devices \cap Clients)
    BY <1>4, <1>6, <2>1, <2>2, <2>3 DEF Apart
  <2> QED
    BY <1>1, <1>4, <1>5, <2>2, <2>3, <2>4 DEF WifiApart
<1>9. CASE /\ NodeWith(s, m) = << >>
           /\ \E new : new.mac = m /\ t.mac = s.mac /\ t.hosts = Over(Only(Host(m), new), s.hosts)
  <2>1. \A i \in AgentIds : s.mac[i] # m
    BY <1>9, NodeWithIs
  <2>2. PICK new : new.mac = m /\ t.mac = s.mac /\ t.hosts = Over(Only(Host(m), new), s.hosts)
    BY <1>9
  <2>3. PICK f : f = Only(Host(m), new)
    OBVIOUS
  <2>4. DOMAIN f = {Host(m)} /\ f[Host(m)] = new
    BY <2>3 DEF Only
  <2>5. /\ DOMAIN t.hosts = {Host(m)} \cup DOMAIN s.hosts /\ t.hosts[Host(m)] = new
        /\ \A x \in DOMAIN s.hosts : x # Host(m) => t.hosts[x] = s.hosts[x]
    BY <2>2, <2>3, <2>4 DEF Over
  <2>6. HostsNamed(t.hosts)
    BY <1>3, <1>4, <2>2, <2>5, NodesDiffer DEF HostsNamed
  <2>7. \A k : Host(k) \in DOMAIN t.hosts => k = m \/ Host(k) \in DOMAIN s.hosts
    BY <2>5, NodesDiffer
  <2>8. Apart(t.hosts, t.mac, devices, warned, devices \cap Clients)
    BY <1>4, <1>6, <2>1, <2>2, <2>7 DEF Apart
  <2> QED
    BY <1>1, <1>4, <1>5, <2>2, <2>6, <2>8 DEF WifiApart
<1> QED
  BY <1>5, <1>7, <1>8, <1>9 DEF HeardAs

LEMMA ClientsOfApart ==
  ASSUME Given, NEW s, WifiApart(s), NEW ap \in Chassis
  PROVE  WifiApart(ClientsOf(s, ap))
<1> DEFINE clients == doc.node[ap].clients
           n == Len(clients)
<1>1. n \in Nat /\ \A i \in 1..n : clients[i].mac \in Clients \cap Macs
  <2> DEFINE R == [mac : Macs, ip : Nat, radio : Nat]
  <2>1. clients \in Seq(R)
    BY AssembleAssumption DEF Given, Chassis
  <2>2. \A r \in R : r.mac \in Macs
    OBVIOUS
  <2> HIDE DEF clients, R
  <2>3. n \in Nat /\ DOMAIN clients = 1..n /\ \A i \in 1..n : clients[i] \in R
    BY <2>1
  <2>4. \A i \in 1..n : clients[i].mac \in Macs /\ clients[i] \in ToSet(clients)
    BY <2>2, <2>3 DEF ToSet
  <2> QED
    BY <2>3, <2>4 DEF Clients, clients
<1>2. PICK after : /\ after = [i \in 0..n |-> IF i = 0 THEN s ELSE WifiClient(after[i - 1], ap, clients[i])]
                   /\ ClientsOf(s, ap) = after[n]
  BY <1>1, ClientsOfLoop
<1> HIDE DEF n, clients
<1>3. after[0] = s /\ \A i \in 1..n : after[i] = WifiClient(after[i - 1], ap, clients[i])
  <2>1. \A i \in 0..n : after[i] = IF i = 0 THEN s ELSE WifiClient(after[i - 1], ap, clients[i])
    BY <1>2
  <2>2. 0 \in 0..n /\ \A i \in 1..n : i \in 0..n /\ i # 0
    BY <1>1
  <2> QED
    BY <2>1, <2>2
<1> DEFINE S == {k \in Nat : k <= n => WifiApart(after[k])}
<1>4. 0 \in S
  BY <1>3
<1>5. ASSUME NEW k \in Nat, k \in S PROVE k + 1 \in S
  <2> SUFFICES ASSUME k + 1 <= n PROVE WifiApart(after[k + 1])
    OBVIOUS
  <2>1. WifiApart(after[k]) /\ k + 1 \in 1..n /\ (k + 1) - 1 = k
    BY <1>1, <1>5
  <2>2. clients[k + 1].mac \in Clients \cap Macs
    BY <1>1, <2>1
  <2>3. WifiApart(WifiClient(after[k], ap, clients[k + 1]))
    BY <2>1, <2>2, WifiApartStep
  <2>4. after[k + 1] = WifiClient(after[k], ap, clients[k + 1])
    BY <1>1, <1>3, <2>1
  <2> QED
    BY <2>3, <2>4
<1> HIDE DEF S
<1>6. n \in S
  BY <1>1, <1>4, <1>5, ByNumbers
<1>7. WifiApart(after[n])
  BY <1>1, <1>6 DEF S
<1> QED
  BY <1>2, <1>7

LEMMA WifiClientsApart ==
  ASSUME Given, NEW s, WifiApart(s)
  PROVE  WifiApart(WifiClients(s))
<1> DEFINE n == Len(doc.order)
<1>1. n \in Nat /\ \A k \in 1..n : doc.order[k] \in Chassis
  BY GivenIs
<1>2. PICK after : /\ after = [i \in 0..n |-> IF i = 0 THEN s ELSE OneAp(after[i - 1], i)]
                   /\ WifiClients(s) = after[n]
  BY <1>1, WifiClientsLoop
<1> HIDE DEF n
<1>3. after[0] = s /\ \A i \in 1..n : after[i] = OneAp(after[i - 1], i)
  <2>1. \A i \in 0..n : after[i] = IF i = 0 THEN s ELSE OneAp(after[i - 1], i)
    BY <1>2
  <2>2. 0 \in 0..n /\ \A i \in 1..n : i \in 0..n /\ i # 0
    BY <1>1
  <2> QED
    BY <2>1, <2>2
<1> DEFINE S == {k \in Nat : k <= n => WifiApart(after[k])}
<1>4. 0 \in S
  BY <1>3
<1>5. ASSUME NEW k \in Nat, k \in S PROVE k + 1 \in S
  <2> SUFFICES ASSUME k + 1 <= n PROVE WifiApart(after[k + 1])
    OBVIOUS
  <2>1. WifiApart(after[k]) /\ k + 1 \in 1..n /\ (k + 1) - 1 = k
    BY <1>1, <1>5
  <2>2. WifiApart(OneAp(after[k], k + 1))
    BY <1>1, <2>1, ClientsOfApart DEF OneAp
  <2>3. after[k + 1] = OneAp(after[k], k + 1)
    BY <1>1, <1>3, <2>1
  <2> QED
    BY <2>2, <2>3
<1> HIDE DEF S
<1>6. n \in S
  BY <1>1, <1>4, <1>5, ByNumbers
<1>7. WifiApart(after[n])
  BY <1>1, <1>6 DEF S
<1> QED
  BY <1>2, <1>7

LEMMA ClientsApart ==
  ASSUME Given, DOMAIN mac = AgentIds, HostsNamed(hosts), Apart(hosts, mac, devices, warned, {}), PlaceWifiClients
  PROVE  HostsNamed(hosts') /\ Apart(hosts', mac', devices, warned, devices \cap Clients)
<1> DEFINE start == [hosts |-> hosts, mac |-> mac, parent |-> parent, reason |-> reason]
<1>1. PICK st : st = WifiClients(start)
  OBVIOUS
<1>2. hosts' = st.hosts /\ mac' = st.mac
  BY <1>1 DEF PlaceWifiClients
<1>3. IsWifi(start) /\ start.mac = mac /\ start.hosts = hosts
  BY DEF IsWifi
<1> HIDE DEF start
<1>4. Apart(hosts, mac, devices, warned, devices \cap Clients)
  BY ApartStays
<1>5. WifiApart(start)
  BY <1>3, <1>4 DEF WifiApart
<1>6. WifiApart(st)
  BY <1>1, <1>5, WifiClientsApart
<1> QED
  BY <1>2, <1>6 DEF WifiApart

\* The document is what it was, and so is what is said in its terms.
LEMMA ApartIsKept ==
  ASSUME doc' = doc
  PROVE  /\ HostsNamed(hosts') => HostsNamed(hosts)'
         /\ Apart(hosts', mac', devices', warned', {}) => Apart(hosts, mac, devices, warned, {})'
         /\ Apart(hosts', mac', devices', warned', devices' \cap Clients)
              => Apart(hosts, mac, devices, warned, devices \cap Clients)'
<1>1. AgentIds' = AgentIds /\ Chassis' = Chassis /\ Clients' = Clients
  BY DEF AgentIds, Chassis, Clients
<1>2. \A c : SwitchAndPort(c)' = SwitchAndPort(c)
  BY DEF SwitchAndPort, Touching
<1>3. HostsNamed(hosts') => HostsNamed(hosts)'
  BY DEF HostsNamed, Host, MacOf
<1> QED
  BY <1>1, <1>2, <1>3 DEF Apart, Excused, Host

LEMMA ApartStep ==
  ASSUME ApartInv, [AssembleNext]_assembleVars
  PROVE  ApartInv'
<1>1. BuildInv /\ BuildInv'
  BY BuildStep DEF ApartInv
<1>2. Given /\ devices \subseteq Chassis /\ DOMAIN mac = AgentIds
  BY <1>1 DEF BuildInv
<1>3. step \in {"late", "ends"} => hosts = << >>
  BY <1>1 DEF BuildInv
<1>4. step \in Late => HostsNamed(hosts) /\ Apart(hosts, mac, devices, warned, HeardHere)
  BY DEF ApartInv
<1>5. HeardHere = IF step \in {"vlans", "done"} THEN devices \cap Clients ELSE {}
  BY DEF HeardHere
<1>6. HeardHere' = IF step' \in {"vlans", "done"} THEN (devices \cap Clients)' ELSE {}
  BY DEF HeardHere
<1> SUFFICES ASSUME step' \in Late PROVE (HostsNamed(hosts) /\ Apart(hosts, mac, devices, warned, HeardHere))'
  BY <1>1 DEF ApartInv, Late
<1>7. CASE MergeLldpPhantoms \/ LinkDevices \/ PlaceFromTables
  <2>1. step' \in {"links", "tables", "late"}
    BY <1>7 DEF MergeLldpPhantoms, LinkDevices, PlaceFromTables
  <2> QED
    BY <2>1 DEF Late
<1>8. CASE MergeLatePhantoms
  <2>1. step = "late" /\ step' = "ends" /\ doc' = doc
    BY <1>8 DEF MergeLatePhantoms
  <2>2. HostsNamed(hosts') /\ Apart(hosts', mac', devices', warned', {})
    BY <1>2, <1>3, <1>8, <2>1, LateParts
  <2> QED
    BY <1>6, <2>1, <2>2, ApartIsKept
<1>9. CASE AddLldpEndHosts
  <2>1. step = "ends" /\ step' = "hosts" /\ doc' = doc /\ mac' = mac /\ warned' = warned
    BY <1>9 DEF AddLldpEndHosts
  <2>2. Apart(hosts, mac, devices, warned, {})
    BY <1>4, <1>5, <2>1 DEF Late
  <2>3. HostsNamed(hosts') /\ Apart(hosts', mac, devices', warned, {})
    BY <1>3, <1>9, <2>1, <2>2, EndsApart
  <2> QED
    BY <1>6, <2>1, <2>3, ApartIsKept
<1>10. CASE AddTableHosts
  <2>1. step = "hosts" /\ step' = "wifi" /\ doc' = doc /\ mac' = mac /\ warned' = warned /\ devices' = devices
    BY <1>10 DEF AddTableHosts
  <2>2. HostsNamed(hosts) /\ Apart(hosts, mac, devices, warned, {})
    BY <1>4, <1>5, <2>1 DEF Late
  <2>3. HostsNamed(hosts') /\ Apart(hosts', mac, devices, warned, {})
    BY <1>2, <1>10, <2>2, TableHostsApart
  <2> QED
    BY <1>6, <2>1, <2>3, ApartIsKept
<1>11. CASE PlaceWifiClients
  <2>1. step = "wifi" /\ step' = "vlans" /\ doc' = doc /\ warned' = warned /\ devices' = devices
    BY <1>11 DEF PlaceWifiClients
  <2>2. HostsNamed(hosts) /\ Apart(hosts, mac, devices, warned, {})
    BY <1>4, <1>5, <2>1 DEF Late
  <2>3. HostsNamed(hosts') /\ Apart(hosts', mac', devices, warned, devices \cap Clients)
    BY <1>2, <1>11, <2>2, ClientsApart
  <2> QED
    BY <1>6, <2>1, <2>3, ApartIsKept
<1>12. CASE StampVlans
  <2>1. /\ step = "vlans" /\ step' = "done" /\ doc' = doc /\ mac' = mac /\ warned' = warned /\ devices' = devices
        /\ hosts' = hosts
    BY <1>12 DEF StampVlans
  <2>2. HostsNamed(hosts) /\ Apart(hosts, mac, devices, warned, devices \cap Clients)
    BY <1>4, <1>5, <2>1 DEF Late
  <2> QED
    BY <1>6, <2>1, <2>2, ApartIsKept
<1>13. CASE UNCHANGED assembleVars
  <2>1. step' = step /\ doc' = doc /\ mac' = mac /\ warned' = warned /\ devices' = devices /\ hosts' = hosts
    BY <1>13 DEF assembleVars
  <2>2. CASE step \in {"vlans", "done"}
    BY <1>4, <1>5, <1>6, <2>1, <2>2, ApartIsKept
  <2>3. CASE step \notin {"vlans", "done"}
    BY <1>4, <1>5, <1>6, <2>1, <2>3, ApartIsKept
  <2> QED
    BY <2>2, <2>3
<1> QED
  BY <1>7, <1>8, <1>9, <1>10, <1>11, <1>12, <1>13 DEF AssembleNext

\* Two nodes of one MAC are two agents, or one of them is beside a device.
LEMMA OneNode ==
  ASSUME HostsNamed(hosts), Apart(hosts, mac, devices, warned, devices \cap Clients), DOMAIN parent = Nodes(hosts),
         NEW m, m # None,
         ~Excused(m, devices, warned, devices \cap Clients), \A i, j \in AgentIds : mac[i] = m /\ mac[j] = m => i = j
  PROVE  \A x, y \in NodesOf(m) : x = y
<1>1. \A i \in AgentIds : mac[i] = m => m \notin devices /\ Host(m) \notin DOMAIN hosts
  BY DEF Apart
<1>2. m \in devices => Host(m) \notin DOMAIN hosts
  BY DEF Apart
<1>3. \A c \in devices : MacOf(c) = m => c = m
  BY DEF MacOf
<1> DEFINE Is(x) == \/ \E i \in AgentIds : mac[i] = m /\ x = Agent(i)
                    \/ Host(m) \in DOMAIN hosts /\ x = Host(m)
                    \/ m \in devices /\ x = <<"device", m>>
<1>4. ASSUME NEW x \in NodesOf(m) PROVE Is(x)
  <2>1. CASE x \in DOMAIN parent /\ NodeMac(x) = m
    <3>1. CASE \E i \in AgentIds : x = Agent(i)
      <4>1. PICK i \in AgentIds : x = Agent(i)
        BY <3>1
      <4>2. mac[i] = m
        BY <2>1, <4>1, NodesDiffer DEF NodeMac
      <4> QED
        BY <4>1, <4>2
    <3>2. CASE x \in DOMAIN hosts
      <4>1. x = Host(x[2]) /\ hosts[x].mac = MacOf(x[2])
        BY <3>2 DEF HostsNamed
      <4>2. x[1] = "host"
        BY <4>1, NodesDiffer
      <4>3. MacOf(x[2]) = m
        BY <2>1, <4>1, <4>2 DEF NodeMac
      <4>4. x[2] = m
        BY <4>3 DEF MacOf
      <4> QED
        BY <3>2, <4>1, <4>4
    <3> QED
      BY <2>1, <3>1, <3>2 DEF Nodes
  <2>2. CASE \E c \in devices : MacOf(c) = m /\ x = <<"device", c>>
    BY <1>3, <2>2
  <2> QED
    BY <2>1, <2>2 DEF NodesOf
<1>5. \A x, y : Is(x) /\ Is(y) => x = y
  BY <1>1, <1>2
<1> HIDE DEF Is
<1> QED
  BY <1>4, <1>5

\* When the graph is assembled no two nodes are one machine, but for those the code means to keep apart
\* (assemble/graph.py _merge_lldp_phantoms, _merge_late_phantoms, _add_table_hosts).
THEOREM MachinesAlwaysOneNode == AssembleSpec => []OneNodePerMachine
<1>1. AssembleInit => ApartInv
  <2> SUFFICES ASSUME AssembleInit PROVE ApartInv
    OBVIOUS
  <2>1. step = "phantoms"
    BY DEF AssembleInit, AssembleStarts
  <2> QED
    BY <2>1, BuildInit DEF ApartInv, Late
<1>2. ApartInv /\ [AssembleNext]_assembleVars => ApartInv'
  BY ApartStep
<1>3. ApartInv => OneNodePerMachine
  <2> SUFFICES ASSUME ApartInv, Done, NEW x \in DOMAIN parent, NEW m, m = NodeMac(x), m # None, Cardinality(NodesOf(m)) > 1
               PROVE  \/ m \in warned
                      \/ m \in Chassis /\ SwitchAndPort(m).switch \notin devices
                      \/ m \in devices \cap Clients
                      \/ \E i, j \in AgentIds : i # j /\ mac[i] = m /\ mac[j] = m
    BY DEF OneNodePerMachine
  <2> SUFFICES ASSUME ~Excused(m, devices, warned, devices \cap Clients), \A i, j \in AgentIds : mac[i] = m /\ mac[j] = m => i = j
               PROVE  FALSE
    BY DEF Excused
  <2>1. step = "done" /\ step \in Late
    BY DEF Done, Late
  <2>2. HostsNamed(hosts) /\ Apart(hosts, mac, devices, warned, devices \cap Clients)
    BY <2>1 DEF ApartInv, HeardHere
  <2>3. DOMAIN parent = Nodes(hosts)
    BY <2>1 DEF ApartInv, BuildInv
  <2>4. \A y, z \in NodesOf(m) : y = z
    BY <2>2, <2>3, OneNode
  <2>5. x \in NodesOf(m)
    BY DEF NodesOf
  <2>6. NodesOf(m) = {x}
    BY <2>4, <2>5
  <2>7. Cardinality({x}) = 1
    BY FS_Singleton
  <2>8. Cardinality(NodesOf(m)) = 1
    BY <2>6, <2>7
  <2> QED
    BY <2>8
<1> QED
  BY <1>1, <1>2, <1>3, PTL DEF AssembleSpec

(***************************************************************************)
(* The document. An edge stands for the links between its ends when it shows *)
(* a port of theirs at each end, if they tell one, and their protocols; the   *)
(* edges made of some links stand for all of them, one for each pair.        *)
(***************************************************************************)
Edges == [source : Nat, target : Nat, local : Nat, remote : Nat, protocols : SUBSET STRING]
Cables(L, e) == {l \in L : {l.source, l.target} = {e.source, e.target}}
Shown(port, ports) == IF port = NoPort THEN ports \subseteq {NoPort} ELSE port \in ports
Stands(e, L) ==
  /\ e.source <= e.target /\ L # {}
  /\ Shown(e.local, {Oriented(l).local : l \in L})
  /\ Shown(e.remote, {Oriented(l).remote : l \in L})
  /\ \A p : p \in e.protocols <=> \E l \in L : l.protocol = p
MadeOf(edges, L) ==
  /\ edges \in Seq(Edges)
  /\ \A i, j \in DOMAIN edges : i # j => ~SamePair(edges[i], edges[j])
  /\ \A i \in DOMAIN edges : Stands(edges[i], Cables(L, edges[i]))
  /\ \A l \in L : \E i \in DOMAIN edges : SamePair(edges[i], l)

LEMMA OrientedIs ==
  ASSUME NEW l \in Links
  PROVE  /\ Oriented(l) \in Edges /\ Oriented(l).source <= Oriented(l).target
         /\ {Oriented(l).source, Oriented(l).target} = {l.source, l.target}
         /\ Oriented(l).protocols = {l.protocol}
<1>1. l.source \in Nat /\ l.target \in Nat /\ l.local \in Nat /\ l.remote \in Nat /\ l.protocol \in STRING
  BY DEF Links
<1>2. CASE l.source <= l.target
  <2>1. Oriented(l) = [source |-> l.source, target |-> l.target, local |-> l.local, remote |-> l.remote,
                       protocols |-> {l.protocol}]
    BY <1>2 DEF Oriented
  <2> QED
    BY <1>1, <1>2, <2>1 DEF Edges
<1>3. CASE ~(l.source <= l.target)
  <2>1. Oriented(l) = [source |-> l.target, target |-> l.source, local |-> l.remote, remote |-> l.local,
                       protocols |-> {l.protocol}]
    BY <1>3 DEF Oriented
  <2> QED
    BY <1>1, <1>3, <2>1 DEF Edges
<1> QED
  BY <1>2, <1>3

LEMMA FirstStands ==
  ASSUME NEW l \in Links
  PROVE  Stands(Oriented(l), {l})
<1>1. Oriented(l).source <= Oriented(l).target /\ Oriented(l).protocols = {l.protocol}
  BY OrientedIs
<1>2. \A p, x : x = p => Shown(p, {x})
  BY DEF Shown
<1>3. /\ {Oriented(k).local : k \in {l}} = {Oriented(l).local}
      /\ {Oriented(k).remote : k \in {l}} = {Oriented(l).remote}
  OBVIOUS
<1> QED
  BY <1>1, <1>2, <1>3 DEF Stands

LEMMA ShownOr ==
  ASSUME NEW p, NEW ports, Shown(p, ports), NEW q
  PROVE  Shown(Or(p, q), ports \cup {q})
  BY DEF Shown, Or

LEMMA JoinedStands ==
  ASSUME NEW e \in Edges, NEW L, Stands(e, L), NEW l \in Links
  PROVE  LET f == Joined(e, Oriented(l))
         IN f \in Edges /\ f.source = e.source /\ f.target = e.target /\ Stands(f, L \cup {l})
<1> DEFINE o == Oriented(l)
           near == Or(e.local, o.local)
           far == Or(e.remote, o.remote)
           both == e.protocols \cup o.protocols
           f == [source |-> e.source, target |-> e.target, local |-> near, remote |-> far, protocols |-> both]
<1>1. o \in Edges /\ o.protocols = {l.protocol}
  BY OrientedIs
<1>2. e.source \in Nat /\ e.target \in Nat /\ e.local \in Nat /\ e.remote \in Nat /\ e.protocols \in SUBSET STRING
  BY DEF Edges
<1>3. e = [source |-> e.source, target |-> e.target, local |-> e.local, remote |-> e.remote, protocols |-> e.protocols]
  BY DEF Edges
<1>4. near \in Nat /\ far \in Nat /\ both \in SUBSET STRING
  <2>1. o.local \in Nat /\ o.remote \in Nat /\ o.protocols \in SUBSET STRING
    BY <1>1 DEF Edges
  <2> HIDE DEF o
  <2> QED
    BY <1>2, <2>1 DEF Or
<1>5. Joined(e, o) = [e EXCEPT !.local = near, !.remote = far, !.protocols = both]
  BY DEF Joined
<1> HIDE DEF near, far, both
<1>6. Joined(e, o) = f
  BY <1>3, <1>5
<1>7. f \in Edges /\ f.source = e.source /\ f.target = e.target /\ f.local = near /\ f.remote = far /\ f.protocols = both
  BY <1>2, <1>4 DEF Edges
<1> HIDE DEF f
<1> DEFINE M == L \cup {l}
<1>8. Shown(f.local, {Oriented(k).local : k \in M})
  <2>1. {Oriented(k).local : k \in M} = {Oriented(k).local : k \in L} \cup {o.local}
    OBVIOUS
  <2>2. Shown(e.local, {Oriented(k).local : k \in L})
    BY DEF Stands
  <2>3. Shown(Or(e.local, o.local), {Oriented(k).local : k \in L} \cup {o.local})
    BY <2>2, ShownOr
  <2> QED
    BY <1>7, <2>1, <2>3 DEF near
<1>9. Shown(f.remote, {Oriented(k).remote : k \in M})
  <2>1. {Oriented(k).remote : k \in M} = {Oriented(k).remote : k \in L} \cup {o.remote}
    OBVIOUS
  <2>2. Shown(e.remote, {Oriented(k).remote : k \in L})
    BY DEF Stands
  <2>3. Shown(Or(e.remote, o.remote), {Oriented(k).remote : k \in L} \cup {o.remote})
    BY <2>2, ShownOr
  <2> QED
    BY <1>7, <2>1, <2>3 DEF far
<1>10. \A p : p \in f.protocols <=> \E k \in M : k.protocol = p
  <2>1. \A p : p \in e.protocols <=> \E k \in L : k.protocol = p
    BY DEF Stands
  <2> HIDE DEF o
  <2> QED
    BY <1>1, <1>7, <2>1 DEF both
<1>11. f.source <= f.target /\ M # {}
  BY <1>7 DEF Stands
<1>12. Stands(f, M)
  BY <1>8, <1>9, <1>10, <1>11 DEF Stands
<1> QED
  BY <1>6, <1>7, <1>12

LEMMA WithLinkStands ==
  ASSUME NEW L, NEW edges, MadeOf(edges, L), NEW l \in Links
  PROVE  MadeOf(WithLink(edges, l), L \cup {l})
<1> DEFINE f == Oriented(l)
           M == L \cup {l}
<1>1. f \in Edges /\ {f.source, f.target} = {l.source, l.target}
  BY OrientedIs
<1>2. edges \in Seq(Edges)
  BY DEF MadeOf
<1>3. Len(edges) \in Nat /\ DOMAIN edges = 1..Len(edges) /\ \A i \in DOMAIN edges : edges[i] \in Edges
  BY <1>2
<1>4. \A i, j \in DOMAIN edges : i # j => ~SamePair(edges[i], edges[j])
  BY DEF MadeOf
<1>5. \A i \in DOMAIN edges : Stands(edges[i], Cables(L, edges[i]))
  BY DEF MadeOf
<1>6. \A k \in L : \E i \in DOMAIN edges : SamePair(edges[i], k)
  BY DEF MadeOf
<1>7. \A e : SamePair(e, f) <=> {e.source, e.target} = {l.source, l.target}
  BY <1>1 DEF SamePair
<1>8. \A e : ~SamePair(e, f) => Cables(M, e) = Cables(L, e)
  BY <1>7 DEF Cables
<1>9. \A e : SamePair(e, f) => Cables(M, e) = Cables(L, e) \cup {l}
  BY <1>7 DEF Cables
<1> HIDE DEF f, M
<1>10. CASE \E i \in DOMAIN edges : SamePair(edges[i], f)
  <2> DEFINE t == [i \in DOMAIN edges |-> IF SamePair(edges[i], f) THEN Joined(edges[i], f) ELSE edges[i]]
  <2>1. WithLink(edges, l) = t
    BY <1>10 DEF WithLink, f
  <2>2. DOMAIN t = DOMAIN edges
    OBVIOUS
  <2>3. ASSUME NEW i \in DOMAIN edges
        PROVE  t[i] \in Edges /\ t[i].source = edges[i].source /\ t[i].target = edges[i].target /\ Stands(t[i], Cables(M, t[i]))
    <3>1. Stands(edges[i], Cables(L, edges[i])) /\ edges[i] \in Edges
      BY <1>3, <1>5
    <3>2. CASE SamePair(edges[i], f)
      <4>1. t[i] = Joined(edges[i], f)
        BY <3>2
      <4> HIDE DEF t
      <4>2. /\ t[i] \in Edges /\ t[i].source = edges[i].source /\ t[i].target = edges[i].target
            /\ Stands(t[i], Cables(L, edges[i]) \cup {l})
        BY <3>1, <4>1, JoinedStands DEF f
      <4>3. Cables(M, t[i]) = Cables(M, edges[i])
        BY <4>2 DEF Cables
      <4> QED
        BY <1>9, <3>2, <4>2, <4>3
    <3>3. CASE ~SamePair(edges[i], f)
      <4>1. t[i] = edges[i]
        BY <3>3
      <4> HIDE DEF t
      <4> QED
        BY <1>8, <3>1, <3>3, <4>1
    <3> QED
      BY <3>2, <3>3
  <2>4. t \in Seq(Edges)
    <3>1. t \in [1..Len(edges) -> Edges]
      BY <1>3, <2>3
    <3> HIDE DEF t
    <3> QED
      BY <1>3, <3>1
  <2> HIDE DEF t
  <2>5. \A i, j \in DOMAIN t : i # j => ~SamePair(t[i], t[j])
    BY <1>4, <2>2, <2>3 DEF SamePair
  <2>6. \A k \in M : \E i \in DOMAIN t : SamePair(t[i], k)
    <3> SUFFICES ASSUME NEW k \in M PROVE \E i \in DOMAIN edges : SamePair(edges[i], k)
      BY <2>2, <2>3 DEF SamePair
    <3>1. CASE k \in L
      BY <1>6, <3>1
    <3>2. CASE k = l
      BY <1>7, <1>10, <3>2 DEF SamePair
    <3> QED
      BY <3>1, <3>2 DEF M
  <2> QED
    BY <2>1, <2>2, <2>3, <2>4, <2>5, <2>6 DEF MadeOf, M
<1>11. CASE ~\E i \in DOMAIN edges : SamePair(edges[i], f)
  <2> DEFINE t == Append(edges, f)
             n == Len(edges)
  <2>1. WithLink(edges, l) = t
    BY <1>11 DEF WithLink, f
  <2>2. t \in Seq(Edges) /\ DOMAIN t = 1..(n + 1) /\ t[n + 1] = f /\ \A i \in 1..n : t[i] = edges[i]
    BY <1>1, <1>2, <1>3
  <2>3. DOMAIN t = DOMAIN edges \cup {n + 1} /\ n + 1 \notin DOMAIN edges
    BY <1>3, <2>2
  <2> HIDE DEF t, n
  <2>4. \A i, j \in DOMAIN t : i # j => ~SamePair(t[i], t[j])
    <3>1. \A i \in DOMAIN edges : t[i] = edges[i] /\ ~SamePair(t[i], f) /\ ~SamePair(f, t[i])
      BY <1>3, <1>11, <2>2 DEF SamePair, n
    <3> QED
      BY <1>4, <2>2, <2>3, <3>1
  <2>5. Cables(L, f) = {}
    <3> SUFFICES ASSUME NEW k \in L, {k.source, k.target} = {f.source, f.target} PROVE FALSE
      BY DEF Cables
    <3>1. PICK i \in DOMAIN edges : SamePair(edges[i], k)
      BY <1>6
    <3> QED
      BY <1>11, <3>1 DEF SamePair
  <2>6. Stands(f, Cables(M, f))
    <3>1. Cables(M, f) = {l}
      BY <1>9, <2>5 DEF SamePair
    <3> QED
      BY <3>1, FirstStands DEF f
  <2>7. \A i \in DOMAIN t : Stands(t[i], Cables(M, t[i]))
    <3> SUFFICES ASSUME NEW i \in DOMAIN t PROVE Stands(t[i], Cables(M, t[i]))
      OBVIOUS
    <3>1. CASE i = n + 1
      BY <2>2, <2>6, <3>1
    <3>2. CASE i \in DOMAIN edges
      <4>1. t[i] = edges[i] /\ ~SamePair(edges[i], f)
        BY <1>3, <1>11, <2>2, <3>2 DEF n
      <4> QED
        BY <1>5, <1>8, <3>2, <4>1
    <3> QED
      BY <2>3, <3>1, <3>2
  <2>8. \A k \in M : \E i \in DOMAIN t : SamePair(t[i], k)
    <3> SUFFICES ASSUME NEW k \in M PROVE \E i \in DOMAIN t : SamePair(t[i], k)
      OBVIOUS
    <3>1. CASE k \in L
      <4>1. PICK i \in DOMAIN edges : SamePair(edges[i], k)
        BY <1>6, <3>1
      <4> QED
        BY <1>3, <2>2, <2>3, <4>1 DEF n
    <3>2. CASE k = l
      <4>1. SamePair(t[n + 1], k)
        BY <1>1, <2>2, <3>2 DEF SamePair
      <4> QED
        BY <2>3, <4>1
    <3> QED
      BY <3>1, <3>2 DEF M
  <2> QED
    BY <2>1, <2>2, <2>4, <2>7, <2>8 DEF MadeOf, M
<1> QED
  BY <1>10, <1>11

\* A loop over the links, and one over the positions of a sequence, are well defined.
LEMMA DedupeLoop ==
  ASSUME NEW told, Len(told) \in Nat
  PROVE  \E after : /\ after = [k \in 0..Len(told) |-> IF k = 0 THEN << >> ELSE WithLink(after[k - 1], told[k])]
                    /\ DedupeEdges(told) = after[Len(told)]
<1> DEFINE n == Len(told)
           IsAfter(f, m) == f = [k \in 0..m |-> IF k = 0 THEN << >> ELSE WithLink(f[k - 1], told[k])]
           S == {m \in Nat : \E f : IsAfter(f, m)}
<1>1. 0 \in S
  <2>1. IsAfter([k \in 0..0 |-> << >>], 0)
    OBVIOUS
  <2> QED
    BY <2>1
<1>2. ASSUME NEW m \in Nat, m \in S PROVE m + 1 \in S
  <2>1. PICK f : IsAfter(f, m)
    BY <1>2
  <2> DEFINE g == [k \in 0..(m + 1) |-> IF k <= m THEN f[k] ELSE WithLink(f[m], told[m + 1])]
  <2>2. \A k \in 0..(m + 1) : g[k] = IF k = 0 THEN << >> ELSE WithLink(g[k - 1], told[k])
    <3> TAKE k \in 0..(m + 1)
    <3>1. CASE k = 0
      BY <2>1, <3>1
    <3>2. CASE k # 0 /\ k <= m
      <4>1. k \in 0..m /\ k - 1 \in 0..m
        BY <3>2
      <4>2. f[k] = WithLink(f[k - 1], told[k])
        BY <2>1, <3>2, <4>1
      <4>3. g[k] = f[k] /\ g[k - 1] = f[k - 1]
        BY <3>2, <4>1
      <4> QED
        BY <3>2, <4>2, <4>3
    <3>3. CASE k = m + 1
      BY <3>3
    <3> QED
      BY <3>1, <3>2, <3>3
  <2>3. IsAfter(g, m + 1)
    BY <2>2
  <2> HIDE DEF IsAfter, g
  <2>4. \E h : IsAfter(h, m + 1)
    BY <2>3
  <2> QED
    BY <2>4
<1> HIDE DEF S
<1>3. n \in S
  BY <1>1, <1>2, ByNumbers
<1>4. PICK f : IsAfter(f, n)
  BY <1>3 DEF S
<1> DEFINE after[k \in 0..n] == IF k = 0 THEN << >> ELSE WithLink(after[k - 1], told[k])
<1>5. IsAfter(after, n)
  BY <1>4
<1>6. DedupeEdges(told) = after[n]
  BY DEF DedupeEdges
<1> QED
  BY <1>5, <1>6

OneKept(t, s, I, k) == IF k \in I THEN Append(t, s[k]) ELSE t

LEMMA KeptLoop ==
  ASSUME NEW s, NEW I, Len(s) \in Nat
  PROVE  \E after : /\ after = [k \in 0..Len(s) |-> IF k = 0 THEN << >> ELSE OneKept(after[k - 1], s, I, k)]
                    /\ Kept(s, I) = after[Len(s)]
<1> DEFINE n == Len(s)
           IsAfter(f, m) == f = [k \in 0..m |-> IF k = 0 THEN << >> ELSE OneKept(f[k - 1], s, I, k)]
           S == {m \in Nat : \E f : IsAfter(f, m)}
<1>1. 0 \in S
  <2>1. IsAfter([k \in 0..0 |-> << >>], 0)
    OBVIOUS
  <2> QED
    BY <2>1
<1>2. ASSUME NEW m \in Nat, m \in S PROVE m + 1 \in S
  <2>1. PICK f : IsAfter(f, m)
    BY <1>2
  <2> DEFINE g == [k \in 0..(m + 1) |-> IF k <= m THEN f[k] ELSE OneKept(f[m], s, I, m + 1)]
  <2>2. \A k \in 0..(m + 1) : g[k] = IF k = 0 THEN << >> ELSE OneKept(g[k - 1], s, I, k)
    <3> TAKE k \in 0..(m + 1)
    <3>1. CASE k = 0
      BY <2>1, <3>1
    <3>2. CASE k # 0 /\ k <= m
      <4>1. k \in 0..m /\ k - 1 \in 0..m
        BY <3>2
      <4>2. f[k] = OneKept(f[k - 1], s, I, k)
        BY <2>1, <3>2, <4>1
      <4>3. g[k] = f[k] /\ g[k - 1] = f[k - 1]
        BY <3>2, <4>1
      <4> QED
        BY <3>2, <4>2, <4>3
    <3>3. CASE k = m + 1
      BY <3>3
    <3> QED
      BY <3>1, <3>2, <3>3
  <2>3. IsAfter(g, m + 1)
    BY <2>2
  <2> HIDE DEF IsAfter, g
  <2>4. \E h : IsAfter(h, m + 1)
    BY <2>3
  <2> QED
    BY <2>4
<1> HIDE DEF S
<1>3. n \in S
  BY <1>1, <1>2, ByNumbers
<1>4. PICK f : IsAfter(f, n)
  BY <1>3 DEF S
<1> DEFINE after[k \in 0..n] == IF k = 0 THEN << >> ELSE OneKept(after[k - 1], s, I, k)
<1>5. IsAfter(after, n)
  BY <1>4
<1>6. Kept(s, I) = after[n]
  BY DEF Kept, OneKept
<1> QED
  BY <1>5, <1>6

LEMMA DedupeIs ==
  ASSUME NEW told \in Seq(Links)
  PROVE  MadeOf(DedupeEdges(told), ToSet(told))
<1> DEFINE n == Len(told)
           Upto(k) == {told[i] : i \in 1..k}
<1>1. n \in Nat /\ DOMAIN told = 1..n /\ \A i \in 1..n : told[i] \in Links
  OBVIOUS
<1>2. PICK after : /\ after = [k \in 0..n |-> IF k = 0 THEN << >> ELSE WithLink(after[k - 1], told[k])]
                   /\ DedupeEdges(told) = after[n]
  BY <1>1, DedupeLoop
<1> HIDE DEF n
<1>3. after[0] = << >> /\ \A k \in 1..n : after[k] = WithLink(after[k - 1], told[k])
  <2>1. \A k \in 0..n : after[k] = IF k = 0 THEN << >> ELSE WithLink(after[k - 1], told[k])
    BY <1>2
  <2>2. 0 \in 0..n /\ \A k \in 1..n : k \in 0..n /\ k # 0
    BY <1>1
  <2> QED
    BY <2>1, <2>2
<1> DEFINE S == {k \in Nat : k <= n => MadeOf(after[k], Upto(k))}
<1>4. 0 \in S
  <2>1. Upto(0) = {} /\ DOMAIN << >> = {} /\ << >> \in Seq(Edges)
    OBVIOUS
  <2> HIDE DEF Upto
  <2>2. MadeOf(<< >>, Upto(0))
    BY <2>1 DEF MadeOf
  <2> QED
    BY <1>3, <2>2
<1>5. ASSUME NEW k \in Nat, k \in S PROVE k + 1 \in S
  <2> SUFFICES ASSUME k + 1 <= n PROVE MadeOf(after[k + 1], Upto(k + 1))
    OBVIOUS
  <2>1. MadeOf(after[k], Upto(k)) /\ k + 1 \in 1..n /\ (k + 1) - 1 = k
    BY <1>1, <1>5
  <2>2. Upto(k + 1) = Upto(k) \cup {told[k + 1]}
    <3>1. 1..(k + 1) = (1..k) \cup {k + 1}
      OBVIOUS
    <3> QED
      BY <3>1
  <2> HIDE DEF Upto
  <2>3. MadeOf(WithLink(after[k], told[k + 1]), Upto(k) \cup {told[k + 1]})
    BY <1>1, <2>1, WithLinkStands
  <2>4. after[k + 1] = WithLink(after[k], told[k + 1])
    BY <1>1, <1>3, <2>1
  <2> QED
    BY <2>2, <2>3, <2>4
<1> HIDE DEF S
<1>6. n \in S
  BY <1>1, <1>4, <1>5, ByNumbers
<1>7. MadeOf(after[n], Upto(n))
  BY <1>1, <1>6 DEF S
<1>8. Upto(n) = ToSet(told)
  BY <1>1 DEF ToSet
<1> QED
  BY <1>2, <1>7, <1>8

\* What is kept of a sequence is what stands at the positions, each position once.
KeptOf(t, s, I, R) ==
  /\ t \in Seq(R)
  /\ \A j \in DOMAIN t : \E i \in I : t[j] = s[i]
  /\ \A j, k \in DOMAIN t : j # k => \E i, h \in I : i # h /\ t[j] = s[i] /\ t[k] = s[h]
  /\ \A i \in I : \E j \in DOMAIN t : t[j] = s[i]

LEMMA OneKeptIs ==
  ASSUME NEW R, NEW s, NEW J, NEW t, KeptOf(t, s, J, R), NEW k, k \notin J, s[k] \in R
  PROVE  KeptOf(Append(t, s[k]), s, J \cup {k}, R)
<1> DEFINE x == s[k]
           a == Append(t, x)
           n == Len(t)
           M == J \cup {k}
<1>1. t \in Seq(R)
  BY DEF KeptOf
<1>2. /\ a \in Seq(R) /\ DOMAIN a = DOMAIN t \cup {n + 1} /\ n + 1 \notin DOMAIN t
      /\ a[n + 1] = x /\ \A j \in DOMAIN t : a[j] = t[j]
  BY <1>1
<1> HIDE DEF a, n
<1>3. \A j \in DOMAIN t : \E i \in J : t[j] = s[i]
  BY DEF KeptOf
<1>4. \A j, h \in DOMAIN t : j # h => \E i, g \in J : i # g /\ t[j] = s[i] /\ t[h] = s[g]
  BY DEF KeptOf
<1>5. \A i \in J : \E j \in DOMAIN t : t[j] = s[i]
  BY DEF KeptOf
<1>6. \A j \in DOMAIN a : \E i \in M : a[j] = s[i]
  BY <1>2, <1>3
<1>7. ASSUME NEW j \in DOMAIN a, NEW h \in DOMAIN a, j # h
      PROVE  \E i, g \in M : i # g /\ a[j] = s[i] /\ a[h] = s[g]
  <2>1. CASE j \in DOMAIN t /\ h \in DOMAIN t
    BY <1>2, <1>4, <1>7, <2>1
  <2>2. CASE j \in DOMAIN t /\ h = n + 1
    <3>1. PICK i \in J : t[j] = s[i]
      BY <1>3, <2>2
    <3> QED
      BY <1>2, <2>2, <3>1
  <2>3. CASE j = n + 1 /\ h \in DOMAIN t
    <3>1. PICK i \in J : t[h] = s[i]
      BY <1>3, <2>3
    <3> QED
      BY <1>2, <2>3, <3>1
  <2> QED
    BY <1>2, <1>7, <2>1, <2>2, <2>3
<1>8. \A i \in M : \E j \in DOMAIN a : a[j] = s[i]
  BY <1>2, <1>5
<1> QED
  BY <1>2, <1>6, <1>7, <1>8 DEF KeptOf, a

LEMMA KeptIs ==
  ASSUME NEW R, NEW s \in Seq(R), NEW I
  PROVE  KeptOf(Kept(s, I), s, I \cap DOMAIN s, R)
<1> DEFINE n == Len(s)
           Upto(k) == I \cap (1..k)
<1>1. n \in Nat /\ DOMAIN s = 1..n /\ \A i \in 1..n : s[i] \in R
  OBVIOUS
<1>2. PICK after : /\ after = [k \in 0..n |-> IF k = 0 THEN << >> ELSE OneKept(after[k - 1], s, I, k)]
                   /\ Kept(s, I) = after[n]
  BY <1>1, KeptLoop
<1> HIDE DEF n
<1>3. after[0] = << >> /\ \A k \in 1..n : after[k] = OneKept(after[k - 1], s, I, k)
  <2>1. \A k \in 0..n : after[k] = IF k = 0 THEN << >> ELSE OneKept(after[k - 1], s, I, k)
    BY <1>2
  <2>2. 0 \in 0..n /\ \A k \in 1..n : k \in 0..n /\ k # 0
    BY <1>1
  <2> QED
    BY <2>1, <2>2
<1> DEFINE S == {k \in Nat : k <= n => KeptOf(after[k], s, Upto(k), R)}
<1>4. 0 \in S
  <2>1. Upto(0) = {} /\ DOMAIN << >> = {} /\ << >> \in Seq(R)
    OBVIOUS
  <2> HIDE DEF Upto
  <2>2. KeptOf(<< >>, s, Upto(0), R)
    BY <2>1 DEF KeptOf
  <2> QED
    BY <1>3, <2>2
<1>5. ASSUME NEW k \in Nat, k \in S PROVE k + 1 \in S
  <2> SUFFICES ASSUME k + 1 <= n PROVE KeptOf(after[k + 1], s, Upto(k + 1), R)
    OBVIOUS
  <2>1. KeptOf(after[k], s, Upto(k), R) /\ k + 1 \in 1..n /\ (k + 1) - 1 = k
    BY <1>1, <1>5
  <2>2. /\ k + 1 \in I => Upto(k + 1) = Upto(k) \cup {k + 1}
        /\ k + 1 \notin I => Upto(k + 1) = Upto(k)
        /\ k + 1 \notin Upto(k)
    OBVIOUS
  <2> HIDE DEF Upto
  <2>3. after[k + 1] = OneKept(after[k], s, I, k + 1)
    BY <1>1, <1>3, <2>1
  <2>4. CASE k + 1 \in I
    <3>1. KeptOf(Append(after[k], s[k + 1]), s, Upto(k) \cup {k + 1}, R)
      BY <1>1, <2>1, <2>2, OneKeptIs
    <3> QED
      BY <2>2, <2>3, <2>4, <3>1 DEF OneKept
  <2>5. CASE k + 1 \notin I
    BY <2>1, <2>2, <2>3, <2>5 DEF OneKept
  <2> QED
    BY <2>4, <2>5
<1> HIDE DEF S
<1>6. n \in S
  BY <1>1, <1>4, <1>5, ByNumbers
<1>7. KeptOf(after[n], s, Upto(n), R)
  BY <1>1, <1>6 DEF S
<1> QED
  BY <1>1, <1>2, <1>7

\* What a crawl reported, and the document that is made of it: its edges stand for the crawl's own links.
Crawled(crawl) ==
  /\ crawl.polled \cap crawl.known = {} /\ crawl.links \in Seq(Links)
  /\ \A i \in DOMAIN crawl.links : crawl.links[i].source \in crawl.polled
DocumentOf(d, crawl, only) ==
  /\ d.edges \in Seq(Edges)
  /\ \A i, j \in DOMAIN d.edges : i # j => ~SamePair(d.edges[i], d.edges[j])
  /\ \A i \in DOMAIN d.edges :
       /\ Stands(d.edges[i], Cables(ToSet(crawl.links), d.edges[i]))
       /\ {d.edges[i].source, d.edges[i].target} \cap d.polled # {}
       /\ only => {d.edges[i].source, d.edges[i].target} \subseteq d.polled
  /\ d.polled = crawl.polled /\ d.known = IF only THEN {} ELSE crawl.known

LEMMA DocumentIs ==
  ASSUME NEW crawl, Crawled(crawl), NEW d, NEW L \in SUBSET ToSet(crawl.links), MadeOf(d.edges, L), NEW only \in BOOLEAN,
         \A l \in ToSet(crawl.links) : l \in L <=> (only => {l.source, l.target} \subseteq crawl.polled),
         d.polled = crawl.polled, d.known = IF only THEN {} ELSE crawl.known
  PROVE  DocumentOf(d, crawl, only)
<1> DEFINE edges == d.edges
           A == ToSet(crawl.links)
<1>1. /\ edges \in Seq(Edges)
      /\ \A i, j \in DOMAIN edges : i # j => ~SamePair(edges[i], edges[j])
      /\ \A i \in DOMAIN edges : Stands(edges[i], Cables(L, edges[i]))
  BY DEF MadeOf
<1>2. \A l \in A : l.source \in d.polled
  BY DEF Crawled, ToSet
<1>3. ASSUME NEW i \in DOMAIN edges
      PROVE  /\ Cables(A, edges[i]) = Cables(L, edges[i])
             /\ {edges[i].source, edges[i].target} \cap d.polled # {}
             /\ only => {edges[i].source, edges[i].target} \subseteq d.polled
  <2>1. Cables(L, edges[i]) # {}
    BY <1>1 DEF Stands
  <2>2. PICK l \in L : {l.source, l.target} = {edges[i].source, edges[i].target}
    BY <2>1 DEF Cables
  <2>3. l.source \in {edges[i].source, edges[i].target} /\ l.source \in d.polled
    BY <1>2, <2>2
  <2>4. only => {edges[i].source, edges[i].target} \subseteq d.polled
    BY <2>2
  <2>5. Cables(A, edges[i]) = Cables(L, edges[i])
    BY <2>4 DEF Cables
  <2> QED
    BY <2>3, <2>4, <2>5
<1> QED
  BY <1>1, <1>3 DEF DocumentOf

LEMMA BuiltIs ==
  ASSUME NEW crawl, Crawled(crawl), NEW only \in BOOLEAN
  PROVE  DocumentOf(BuildDocument(crawl, only), crawl, only)
<1>1. PICK d : d = BuildDocument(crawl, only)
  OBVIOUS
<1> DEFINE A == ToSet(crawl.links)
<1>2. crawl.links \in Seq(Links)
  BY DEF Crawled
<1>3. A = {crawl.links[i] : i \in DOMAIN crawl.links}
  BY DEF ToSet
<1>4. CASE only
  <2> DEFINE I == AmongPolled(crawl)
             kept == Kept(crawl.links, I)
             L == {l \in A : {l.source, l.target} \subseteq crawl.polled}
  <2>1. d.polled = crawl.polled /\ d.known = {} /\ d.edges = DedupeEdges(kept)
    BY <1>1, <1>4 DEF BuildDocument
  <2>2. KeptOf(kept, crawl.links, I \cap DOMAIN crawl.links, Links)
    BY <1>2, KeptIs
  <2>3. I \subseteq DOMAIN crawl.links
    BY DEF AmongPolled
  <2>4. kept \in Seq(Links) /\ ToSet(kept) = {crawl.links[i] : i \in I}
    <3> HIDE DEF kept, I
    <3>1. ToSet(kept) = {kept[j] : j \in DOMAIN kept}
      BY DEF ToSet
    <3> QED
      BY <2>2, <2>3, <3>1 DEF KeptOf
  <2>5. {crawl.links[i] : i \in I} = L
    BY <1>3 DEF AmongPolled
  <2> HIDE DEF kept, I
  <2>6. MadeOf(d.edges, L)
    BY <2>1, <2>4, <2>5, DedupeIs
  <2>7. L \in SUBSET A /\ \A l \in A : l \in L <=> (only => {l.source, l.target} \subseteq crawl.polled)
    BY <1>4
  <2>8. d.known = IF only THEN {} ELSE crawl.known
    BY <1>4, <2>1
  <2> HIDE DEF L, A
  <2>9. DocumentOf(d, crawl, only)
    BY <2>1, <2>6, <2>7, <2>8, DocumentIs DEF A
  <2> QED
    BY <1>1, <2>9
<1>5. CASE ~only
  <2>1. d.polled = crawl.polled /\ d.known = crawl.known /\ d.edges = DedupeEdges(crawl.links)
    BY <1>1, <1>5 DEF BuildDocument
  <2>2. MadeOf(d.edges, A)
    BY <1>2, <2>1, DedupeIs
  <2> QED
    BY <1>1, <1>5, <2>1, <2>2, DocumentIs
<1> QED
  BY <1>4, <1>5

\* With every device kept, every link has its edge.
LEMMA AllTold ==
  ASSUME NEW crawl, Crawled(crawl), NEW l \in ToSet(crawl.links)
  PROVE  \E i \in DOMAIN BuildDocument(crawl, FALSE).edges : SamePair(BuildDocument(crawl, FALSE).edges[i], l)
<1>1. BuildDocument(crawl, FALSE).edges = DedupeEdges(crawl.links)
  BY DEF BuildDocument
<1>2. MadeOf(DedupeEdges(crawl.links), ToSet(crawl.links))
  BY DedupeIs DEF Crawled
<1> QED
  BY <1>1, <1>2 DEF MadeOf

\* What OneEdgePerPair says of one edge.
EdgeHolds(e, told, polled) ==
  LET Shows(port, end) == IF port = NoPort THEN PortsNamed(told, end) = {} ELSE port \in PortsNamed(told, end)
  IN /\ e.source # e.target => Shows(e.local, e.source) /\ Shows(e.remote, e.target)
     /\ "lldp" \in e.protocols <=> \E l \in told : l.protocol = "lldp"
     /\ {e.source, e.target} \cap polled # {}
     /\ report.only => {e.source, e.target} \subseteq polled

LEMMA StandingHolds ==
  ASSUME NEW e \in Edges, NEW L \in SUBSET Links, NEW K, K = Cables(L, e), Stands(e, K),
         NEW polled, {e.source, e.target} \cap polled # {}, report.only => {e.source, e.target} \subseteq polled
  PROVE  EdgeHolds(e, K, polled)
<1>1. e.source \in Nat /\ e.target \in Nat /\ e.source <= e.target
  BY DEF Edges, Stands
<1>2. ASSUME e.source # e.target, NEW l \in K
      PROVE  \/ l.source = e.source /\ l.target = e.target /\ Oriented(l).local = l.local /\ Oriented(l).remote = l.remote
             \/ l.source = e.target /\ l.target = e.source /\ Oriented(l).local = l.remote /\ Oriented(l).remote = l.local
  <2>1. l.source \in Nat /\ l.target \in Nat /\ {l.source, l.target} = {e.source, e.target}
    BY DEF Cables, Links
  <2>2. CASE l.source = e.source /\ l.target = e.target
    BY <1>1, <2>2 DEF Oriented
  <2>3. CASE l.source = e.target /\ l.target = e.source
    <3>1. ~(l.source <= l.target)
      BY <1>1, <1>2, <2>3
    <3> QED
      BY <2>3, <3>1 DEF Oriented
  <2> QED
    BY <1>2, <2>1, <2>2, <2>3
<1>3. ASSUME e.source # e.target
      PROVE  /\ PortsNamed(K, e.source) = {Oriented(l).local : l \in K} \ {NoPort}
             /\ PortsNamed(K, e.target) = {Oriented(l).remote : l \in K} \ {NoPort}
  <2>1. \A p : p \in PortsNamed(K, e.source) <=> p # NoPort /\ \E l \in K : p = Oriented(l).local
    BY <1>2, <1>3 DEF PortsNamed
  <2>2. \A p : p \in PortsNamed(K, e.target) <=> p # NoPort /\ \E l \in K : p = Oriented(l).remote
    BY <1>2, <1>3 DEF PortsNamed
  <2> QED
    BY <2>1, <2>2
<1>4. /\ Shown(e.local, {Oriented(l).local : l \in K}) /\ Shown(e.remote, {Oriented(l).remote : l \in K})
      /\ \A p : p \in e.protocols <=> \E l \in K : l.protocol = p
  BY DEF Stands
<1>5. ASSUME e.source # e.target
      PROVE  /\ IF e.local = NoPort THEN PortsNamed(K, e.source) = {} ELSE e.local \in PortsNamed(K, e.source)
             /\ IF e.remote = NoPort THEN PortsNamed(K, e.target) = {} ELSE e.remote \in PortsNamed(K, e.target)
  BY <1>3, <1>4, <1>5 DEF Shown
<1> QED
  BY <1>4, <1>5 DEF EdgeHolds

\* The document is of the first crawl, and then of both.
DocumentInv ==
  /\ report \in Reports /\ parts \in {0, 1, 2}
  /\ parts = 0 => network = NoDocument
  /\ parts = 1 => network = BuildDocument(report.base, report.only)
  /\ parts = 2 => report.only = FALSE
  /\ parts = 2 => network = MergeDocuments(BuildDocument(report.base, FALSE), BuildDocument(report.extra, FALSE))

LEMMA ReportIs ==
  ASSUME report \in Reports
  PROVE  report.only \in BOOLEAN /\ Crawled(report.base) /\ Crawled(report.extra)
  BY ReportsAssumption DEF Crawled

LEMMA LinksOfIs ==
  ASSUME NEW e
  PROVE  LinksOf({e.source, e.target}) =
           IF Cables(ToSet(report.base.links), e) # {} THEN Cables(ToSet(report.base.links), e)
           ELSE Cables(ToSet(report.extra.links), e)
  BY DEF LinksOf, Cables

LEMMA EdgeOfDocument ==
  ASSUME NEW crawl, Crawled(crawl), NEW d, DocumentOf(d, crawl, report.only), NEW i \in DOMAIN d.edges,
         NEW polled, d.polled \subseteq polled,
         LinksOf({d.edges[i].source, d.edges[i].target}) = Cables(ToSet(crawl.links), d.edges[i])
  PROVE  EdgeHolds(d.edges[i], LinksOf({d.edges[i].source, d.edges[i].target}), polled)
<1>1. PICK e : e = d.edges[i]
  OBVIOUS
<1>2. /\ Stands(e, Cables(ToSet(crawl.links), e))
      /\ {e.source, e.target} \cap polled # {} /\ (report.only => {e.source, e.target} \subseteq polled)
  BY <1>1 DEF DocumentOf
<1>3. e \in Edges
  <2>1. d.edges \in Seq(Edges)
    BY DEF DocumentOf
  <2> QED
    BY <1>1, <2>1
<1>4. ToSet(crawl.links) \subseteq Links
  <2>1. crawl.links \in Seq(Links)
    BY DEF Crawled
  <2>2. \A k \in DOMAIN crawl.links : crawl.links[k] \in Links
    BY <2>1
  <2> QED
    BY <2>2 DEF ToSet
<1> QED
  BY <1>1, <1>2, <1>3, <1>4, StandingHolds

OnePerPair(d) ==
  /\ \A i, j \in DOMAIN d.edges : i # j => ~SamePair(d.edges[i], d.edges[j])
  /\ \A i \in DOMAIN d.edges : EdgeHolds(d.edges[i], LinksOf({d.edges[i].source, d.edges[i].target}), d.polled)

LEMMA FirstCrawlHolds ==
  ASSUME report \in Reports, NEW d, d = BuildDocument(report.base, report.only)
  PROVE  OnePerPair(d) /\ d.polled \cap d.known = {}
<1>1. Crawled(report.base) /\ report.only \in BOOLEAN
  BY ReportIs
<1>2. DocumentOf(d, report.base, report.only)
  BY <1>1, BuiltIs
<1>3. d.polled \cap d.known = {}
  BY <1>1, <1>2 DEF DocumentOf, Crawled
<1>4. ASSUME NEW i \in DOMAIN d.edges
      PROVE  EdgeHolds(d.edges[i], LinksOf({d.edges[i].source, d.edges[i].target}), d.polled)
  <2>1. Stands(d.edges[i], Cables(ToSet(report.base.links), d.edges[i]))
    BY <1>2 DEF DocumentOf
  <2>2. Cables(ToSet(report.base.links), d.edges[i]) # {}
    BY <2>1 DEF Stands
  <2>3. LinksOf({d.edges[i].source, d.edges[i].target}) = Cables(ToSet(report.base.links), d.edges[i])
    BY <2>2, LinksOfIs
  <2> QED
    BY <1>1, <1>2, <2>3, EdgeOfDocument
<1>5. \A i, j \in DOMAIN d.edges : i # j => ~SamePair(d.edges[i], d.edges[j])
  BY <1>2 DEF DocumentOf
<1> QED
  BY <1>3, <1>4, <1>5 DEF OnePerPair

\* Of the second crawl's edges those are added whose pair the first has not.
Extends(c, a, b, J) ==
  /\ DOMAIN a \subseteq DOMAIN c /\ \A i \in DOMAIN a : c[i] = a[i]
  /\ \A i \in DOMAIN c \ DOMAIN a : \E j \in J : c[i] = b[j]
  /\ \A i, k \in DOMAIN c \ DOMAIN a : i # k => \E j, h \in J : j # h /\ c[i] = b[j] /\ c[k] = b[h]
  /\ \A j \in J : \E i \in DOMAIN c : c[i] = b[j]

LEMMA AddedIs ==
  ASSUME NEW a \in Seq(Edges), NEW b \in Seq(Edges), NEW c, c = a \o Kept(b, Added(a, b))
  PROVE  Extends(c, a, b, Added(a, b))
<1> DEFINE J == Added(a, b)
           t == Kept(b, J)
           n == Len(a)
<1>1. J \subseteq DOMAIN b
  BY DEF Added
<1>2. KeptOf(t, b, J, Edges)
  <2> HIDE DEF t, J
  <2>1. KeptOf(Kept(b, J), b, J \cap DOMAIN b, Edges)
    BY KeptIs
  <2>2. J \cap DOMAIN b = J
    BY <1>1
  <2> QED
    BY <2>1, <2>2 DEF t
<1> HIDE DEF J, t
<1>3. /\ t \in Seq(Edges)
      /\ \A k \in DOMAIN t : \E j \in J : t[k] = b[j]
      /\ \A i, k \in DOMAIN t : i # k => \E j, h \in J : j # h /\ t[i] = b[j] /\ t[k] = b[h]
      /\ \A j \in J : \E k \in DOMAIN t : t[k] = b[j]
  BY <1>2 DEF KeptOf
<1>4. /\ n \in Nat /\ DOMAIN a = 1..n /\ Len(t) \in Nat /\ DOMAIN t = 1..Len(t)
      /\ DOMAIN c = 1..(n + Len(t))
      /\ \A i \in 1..n : c[i] = a[i]
      /\ \A i \in 1..(n + Len(t)) : i > n => c[i] = t[i - n]
  BY <1>3 DEF t, J
<1> HIDE DEF n
<1>5. \A i \in DOMAIN c \ DOMAIN a : i - n \in DOMAIN t /\ c[i] = t[i - n]
  <2> TAKE i \in DOMAIN c \ DOMAIN a
  <2>1. i \in 1..(n + Len(t)) /\ i \notin 1..n
    BY <1>4
  <2>2. i > n /\ i - n \in 1..Len(t)
    BY <1>4, <2>1
  <2>3. c[i] = t[i - n]
    BY <1>4, <2>1, <2>2
  <2> QED
    BY <1>4, <2>2, <2>3
<1>6. \A k \in DOMAIN t : \E i \in DOMAIN c : c[i] = t[k]
  <2> TAKE k \in DOMAIN t
  <2>1. k \in 1..Len(t)
    BY <1>4
  <2>2. k + n \in 1..(n + Len(t)) /\ k + n > n /\ (k + n) - n = k
    BY <1>4, <2>1
  <2>3. c[k + n] = t[k]
    BY <1>4, <2>2
  <2> QED
    BY <1>4, <2>2, <2>3
<1>7. \A i, k \in DOMAIN c \ DOMAIN a : i # k => i - n # k - n
  BY <1>4
<1>8. DOMAIN a \subseteq DOMAIN c /\ \A i \in DOMAIN a : c[i] = a[i]
  BY <1>4
<1>9. \A i \in DOMAIN c \ DOMAIN a : \E j \in J : c[i] = b[j]
  BY <1>3, <1>5
<1>10. \A i, k \in DOMAIN c \ DOMAIN a : i # k => \E j, h \in J : j # h /\ c[i] = b[j] /\ c[k] = b[h]
  <2> SUFFICES ASSUME NEW i \in DOMAIN c \ DOMAIN a, NEW k \in DOMAIN c \ DOMAIN a, i # k
               PROVE  \E j, h \in J : j # h /\ c[i] = b[j] /\ c[k] = b[h]
    OBVIOUS
  <2>1. PICK p : p = i - n
    OBVIOUS
  <2>2. PICK q : q = k - n
    OBVIOUS
  <2>3. p \in DOMAIN t /\ q \in DOMAIN t /\ p # q /\ c[i] = t[p] /\ c[k] = t[q]
    BY <1>5, <1>7, <2>1, <2>2
  <2>4. \E j, h \in J : j # h /\ t[p] = b[j] /\ t[q] = b[h]
    BY <1>3, <2>3
  <2> QED
    BY <2>3, <2>4
<1>11. \A j \in J : \E i \in DOMAIN c : c[i] = b[j]
  <2> TAKE j \in J
  <2>1. PICK k \in DOMAIN t : t[k] = b[j]
    BY <1>3
  <2> QED
    BY <1>6, <2>1
<1> QED
  BY <1>8, <1>9, <1>10, <1>11 DEF J, Extends

LEMMA BothCrawlsHold ==
  ASSUME report \in Reports, report.only = FALSE, NEW base, base = BuildDocument(report.base, FALSE),
         NEW extra, extra = BuildDocument(report.extra, FALSE), NEW d, d = MergeDocuments(base, extra)
  PROVE  /\ OnePerPair(d) /\ d.polled \cap d.known = {}
         /\ d.polled = report.base.polled \cup report.extra.polled
         /\ d.polled \cup d.known = d.polled \cup report.base.known \cup report.extra.known
         /\ \A l \in ToSet(report.base.links) \cup ToSet(report.extra.links) :
              \E i \in DOMAIN d.edges : SamePair(d.edges[i], l)
<1> DEFINE a == base.edges
           b == extra.edges
           c == d.edges
           J == Added(a, b)
           polled == d.polled
<1>1. /\ d.polled = base.polled \cup extra.polled
      /\ d.known = (base.known \cup extra.known) \ (base.polled \cup extra.polled)
      /\ c = a \o Kept(b, J)
  BY DEF MergeDocuments
<1>2. Crawled(report.base) /\ Crawled(report.extra)
  BY ReportIs
<1>3. DocumentOf(base, report.base, report.only) /\ DocumentOf(extra, report.extra, report.only)
  BY <1>2, BuiltIs
<1>4. a \in Seq(Edges) /\ b \in Seq(Edges)
  BY <1>3 DEF DocumentOf
<1>5. /\ base.polled = report.base.polled /\ extra.polled = report.extra.polled
      /\ base.known = report.base.known /\ extra.known = report.extra.known
  BY <1>3 DEF DocumentOf
<1>6. base.polled \subseteq polled /\ extra.polled \subseteq polled
  BY <1>1
<1>7. /\ \A l \in ToSet(report.base.links) : \E i \in DOMAIN a : SamePair(a[i], l)
      /\ \A l \in ToSet(report.extra.links) : \E i \in DOMAIN b : SamePair(b[i], l)
  BY <1>2, AllTold
<1>8. /\ DOMAIN a \subseteq DOMAIN c /\ \A i \in DOMAIN a : c[i] = a[i]
      /\ \A i \in DOMAIN c \ DOMAIN a : \E j \in J : c[i] = b[j]
      /\ \A i, k \in DOMAIN c \ DOMAIN a : i # k => \E j, h \in J : j # h /\ c[i] = b[j] /\ c[k] = b[h]
      /\ \A j \in J : \E i \in DOMAIN c : c[i] = b[j]
  <2>1. Extends(c, a, b, J)
    <3> HIDE DEF a, b, c
    <3> QED
      BY <1>1, <1>4, AddedIs
  <2> QED
    BY <2>1 DEF Extends
<1>9. \A j \in J : j \in DOMAIN b /\ \A i \in DOMAIN a : ~SamePair(a[i], b[j])
  BY DEF Added
<1>10. \A j \in DOMAIN b \ J : \E i \in DOMAIN a : SamePair(a[i], b[j])
  BY DEF Added
<1>11. /\ \A i, j \in DOMAIN a : i # j => ~SamePair(a[i], a[j])
       /\ \A i, j \in DOMAIN b : i # j => ~SamePair(b[i], b[j])
  BY <1>3 DEF DocumentOf
<1>12. \A i \in DOMAIN a : EdgeHolds(a[i], LinksOf({a[i].source, a[i].target}), polled)
  <2> TAKE i \in DOMAIN a
  <2>1. Stands(a[i], Cables(ToSet(report.base.links), a[i]))
    BY <1>3 DEF DocumentOf
  <2>2. Cables(ToSet(report.base.links), a[i]) # {}
    BY <2>1 DEF Stands
  <2>3. LinksOf({a[i].source, a[i].target}) = Cables(ToSet(report.base.links), a[i])
    BY <2>2, LinksOfIs
  <2> QED
    BY <1>2, <1>3, <1>6, <2>3, EdgeOfDocument
<1>13. \A j \in J : EdgeHolds(b[j], LinksOf({b[j].source, b[j].target}), polled)
  <2> TAKE j \in J
  <2>1. j \in DOMAIN b
    BY <1>9
  <2>2. Cables(ToSet(report.base.links), b[j]) = {}
    <3> SUFFICES ASSUME NEW l \in ToSet(report.base.links), {l.source, l.target} = {b[j].source, b[j].target} PROVE FALSE
      BY DEF Cables
    <3> HIDE DEF a, b, J
    <3>1. PICK i \in DOMAIN a : SamePair(a[i], l)
      BY <1>7
    <3>2. SamePair(a[i], b[j])
      BY <3>1 DEF SamePair
    <3> QED
      BY <1>9, <3>2
  <2>3. LinksOf({b[j].source, b[j].target}) = Cables(ToSet(report.extra.links), b[j])
    BY <2>2, LinksOfIs
  <2> QED
    BY <1>2, <1>3, <1>6, <2>1, <2>3, EdgeOfDocument
<1> HIDE DEF a, b, c, J, polled
<1>14. \A i \in DOMAIN c : EdgeHolds(c[i], LinksOf({c[i].source, c[i].target}), polled)
  <2> TAKE i \in DOMAIN c
  <2>1. CASE i \in DOMAIN a
    BY <1>8, <1>12, <2>1
  <2>2. CASE i \notin DOMAIN a
    <3>1. PICK j \in J : c[i] = b[j]
      BY <1>8, <2>2
    <3> QED
      BY <1>13, <3>1
  <2> QED
    BY <2>1, <2>2
<1>15. ASSUME NEW i \in DOMAIN c, NEW k \in DOMAIN c, i # k PROVE ~SamePair(c[i], c[k])
  <2>1. CASE i \in DOMAIN a /\ k \in DOMAIN a
    BY <1>8, <1>11, <1>15, <2>1
  <2>2. CASE i \in DOMAIN a /\ k \notin DOMAIN a
    <3>1. PICK j \in J : c[k] = b[j]
      BY <1>8, <2>2
    <3> QED
      BY <1>8, <1>9, <2>2, <3>1
  <2>3. CASE i \notin DOMAIN a /\ k \in DOMAIN a
    <3>1. PICK j \in J : c[i] = b[j]
      BY <1>8, <2>3
    <3>2. ~SamePair(c[k], c[i])
      BY <1>8, <1>9, <2>3, <3>1
    <3> QED
      BY <3>2 DEF SamePair
  <2>4. CASE i \notin DOMAIN a /\ k \notin DOMAIN a
    <3>1. PICK j \in J, h \in J : j # h /\ c[i] = b[j] /\ c[k] = b[h]
      BY <1>8, <1>15, <2>4
    <3> QED
      BY <1>9, <1>11, <3>1
  <2> QED
    BY <2>1, <2>2, <2>3, <2>4
<1>16. ASSUME NEW l \in ToSet(report.base.links) \cup ToSet(report.extra.links)
       PROVE  \E i \in DOMAIN c : SamePair(c[i], l)
  <2>1. CASE \E i \in DOMAIN a : SamePair(a[i], l)
    BY <1>8, <2>1
  <2>2. CASE \E j \in DOMAIN b : SamePair(b[j], l)
    <3>1. PICK j \in DOMAIN b : SamePair(b[j], l)
      BY <2>2
    <3>2. CASE j \in J
      BY <1>8, <3>1, <3>2
    <3>3. CASE j \notin J
      <4>1. PICK i \in DOMAIN a : SamePair(a[i], b[j])
        BY <1>10, <3>3
      <4>2. SamePair(a[i], l)
        BY <3>1, <4>1 DEF SamePair
      <4> QED
        BY <1>8, <4>2
    <3> QED
      BY <3>2, <3>3
  <2> QED
    BY <1>7, <2>1, <2>2
<1> QED
  BY <1>1, <1>5, <1>14, <1>15, <1>16 DEF OnePerPair, c, polled

LEMMA DocumentHolds == DocumentInv => OneEdgePerPair
<1> SUFFICES ASSUME DocumentInv PROVE OneEdgePerPair
  OBVIOUS
<1>1. report \in Reports /\ report.only \in BOOLEAN
  BY ReportIs DEF DocumentInv
<1>2. ASSUME OnePerPair(network), network.polled \cap network.known = {},
             parts = 2 =>
               /\ network.polled = report.base.polled \cup report.extra.polled
               /\ network.polled \cup network.known = network.polled \cup report.base.known \cup report.extra.known
               /\ \A l \in ToSet(report.base.links) \cup ToSet(report.extra.links) :
                    \E i \in DOMAIN network.edges : SamePair(network.edges[i], l)
      PROVE  OneEdgePerPair
  BY <1>2 DEF OnePerPair, EdgeHolds, OneEdgePerPair
<1>3. CASE parts = 0
  <2>1. network.edges = << >> /\ network.polled = {}
    BY <1>3 DEF DocumentInv, NoDocument
  <2>2. DOMAIN network.edges = {}
    BY <2>1
  <2> QED
    BY <1>2, <1>3, <2>1, <2>2 DEF OnePerPair
<1>4. CASE parts = 1
  <2>1. network = BuildDocument(report.base, report.only)
    BY <1>4 DEF DocumentInv
  <2> QED
    BY <1>1, <1>2, <1>4, <2>1, FirstCrawlHolds
<1>5. CASE parts = 2
  <2>1. network = MergeDocuments(BuildDocument(report.base, FALSE), BuildDocument(report.extra, FALSE))
    BY <1>5 DEF DocumentInv
  <2>2. report.only = FALSE
    BY <1>5 DEF DocumentInv
  <2> QED
    BY <1>1, <1>2, <2>1, <2>2, BothCrawlsHold
<1> QED
  BY <1>3, <1>4, <1>5 DEF DocumentInv

\* The document of one crawl and of two has one edge for a pair, made of the links of that pair (document.py
\* build_document, merge_documents).
THEOREM DocumentAlways == DocumentSpec => []DocumentInv
<1>1. DocumentInit => DocumentInv
  BY DEF DocumentInit, DocumentStarts, DocumentInv
<1>2. DocumentInv /\ [DocumentNext]_documentVars => DocumentInv'
  <2> SUFFICES ASSUME DocumentInv, [DocumentNext]_documentVars PROVE DocumentInv'
    OBVIOUS
  <2>1. CASE CrawlEmits
    BY <2>1 DEF CrawlEmits, DocumentInv, BuildDocument, AmongPolled
  <2>2. CASE SecondCrawlIsMerged
    <3>1. report.only = FALSE
      BY <2>2, ReportIs DEF SecondCrawlIsMerged, DocumentInv
    <3>2. /\ parts = 1 /\ parts' = 2 /\ report' = report
          /\ network' = MergeDocuments(network, BuildDocument(report.extra, FALSE))
      BY <2>2 DEF SecondCrawlIsMerged
    <3>3. network = BuildDocument(report.base, FALSE)
      BY <3>1, <3>2 DEF DocumentInv
    <3> QED
      BY <3>1, <3>2, <3>3 DEF DocumentInv
  <2>3. CASE UNCHANGED documentVars
    BY <2>3 DEF documentVars, DocumentInv
  <2> QED
    BY <2>1, <2>2, <2>3 DEF DocumentNext
<1> QED
  BY <1>1, <1>2, PTL DEF DocumentSpec

\* One edge for a pair of devices in the document and one node for a machine in the graph, whatever was told of them,
\* in which order and from which end.
THEOREM OneOfEachAlways == TopologySpec => []OneOfEach
<1>1. DocumentSpec => []OneEdgePerPair
  BY DocumentAlways, DocumentHolds, PTL
<1>2. AssembleSpec => []OneNodePerMachine
  BY MachinesAlwaysOneNode
<1> QED
  BY <1>1, <1>2, PTL DEF TopologySpec, OneOfEach
=============================================================================
