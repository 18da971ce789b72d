--------------------------- MODULE MonitorProofs ---------------------------
(***************************************************************************)
(* Proofs about chains of liveness passes, for any graphs, nodes, ports,   *)
(* thresholds and readings.                                                *)
(***************************************************************************)
EXTENDS MonitorProperties, FiniteSetTheorems, TLAPS

-----------------------------------------------------------------------------
(* A record in the middle of a pass: what MonitorInv says of one, and a    *)
(* reply has left it active, without misses and without a mark.            *)
Sound(rec) ==
  /\ rec \in Records
  /\ rec.mark # NoMark => rec.state = "inactive"
  /\ "active" \in {rec.state, rec.mark.previous} => rec.proven # {}
  /\ rec.reply # "none" => rec.state = "active" /\ rec.misses = 0 /\ rec.mark = NoMark

(* The passes without a reply after this one, unless it has one.           *)
QuietAfter(r, n) == IF SaidGone(r, n) THEN Threshold ELSE OneMore(quiet[n])

LEMMA MarkTypes ==
  /\ NoMark \in Marks /\ NoMark.previous = "unknown" /\ NoMark.link = None
  /\ \A link \in Links \cup {None}, s \in States, t \in 0 .. MaxAge + 1 :
       /\ MarkOf(link, s, t) \in Marks /\ MarkOf(link, s, t).link = link
       /\ MarkOf(link, s, t).previous = s
BY MonitorConstants DEF NoMark, MarkOf, Marks, States

(* Assignments to the fields that evidence changes.                         *)
With(rec, s, k, P) == [rec EXCEPT !.state = s, !.misses = k, !.proven = P]

LEMMA WithTypes ==
  ASSUME NEW rec \in Records,
         NEW s \in States, NEW k \in 0 .. Threshold, NEW P \in SUBSET Methods
  PROVE  /\ With(rec, s, k, P) \in Records
         /\ With(rec, s, k, P).state = s /\ With(rec, s, k, P).misses = k
         /\ With(rec, s, k, P).proven = P /\ With(rec, s, k, P).mark = rec.mark
         /\ With(rec, s, k, P).reply = rec.reply
BY DEF With, Records

LEMMA NewRecordType == NewRecord \in Records /\ Sound(NewRecord)
BY MarkTypes, MonitorConstants DEF NewRecord, Records, States, Methods, Sound

LEMMA Misses1 ==
  \A m \in 0 .. Threshold :
    /\ OneMore(m) \in 0 .. Threshold /\ OneMore(m) >= m
    /\ m = Threshold => OneMore(m) = Threshold
    /\ \A q \in 0 .. Threshold : m <= q => OneMore(m) <= OneMore(q)
BY MonitorConstants DEF OneMore

LEMMA LinkTypes ==
  ASSUME TypeOK, NEW n \in graph.nodes
  PROVE  n \in Nodes /\ graph.link[n] \in Links \cup {None}
BY MonitorConstants DEF TypeOK, GraphsOK

-----------------------------------------------------------------------------
(* The steps of a pass keep a record sound.                                *)
LEMMA CarriedSound ==
  ASSUME MonitorInv, NEW n \in graph.nodes
  PROVE  /\ Sound(Carried(n)) /\ Carried(n).reply = "none"
         /\ Misses(Carried(n), quiet[n])
         /\ Carried(n).mark = NoMark <=> records[n].mark = NoMark
<1> DEFINE old == records[n]
<1>1. n \in Nodes /\ old \in Records /\ quiet[n] \in 0 .. Threshold
      BY LinkTypes DEF MonitorInv, TypeOK
<1>2. PICK mark \in Marks :
        /\ Carried(n) = [old EXCEPT !.reply = "none", !.fresh = FALSE, !.mark = mark]
        /\ mark = NoMark <=> old.mark = NoMark
        /\ mark.previous = old.mark.previous
  <2>1. CASE old.mark = NoMark
        BY <1>1, <2>1, MarkTypes DEF Carried
  <2>2. CASE old.mark # NoMark
    <3> DEFINE mark == [old.mark EXCEPT !.since = Older(@)]
    <3>1. old.mark \in Marks
          BY <1>1 DEF Records
    <3>2. Older(old.mark.since) \in 1 .. MaxAge + 1
          BY <3>1, MonitorConstants DEF Marks, Older
    <3>3. mark \in Marks /\ mark.previous = old.mark.previous /\ mark.since # 0
          BY <3>1, <3>2 DEF Marks
    <3>4. mark # NoMark
          BY <3>3 DEF NoMark
    <3>5. Carried(n) = [old EXCEPT !.reply = "none", !.fresh = FALSE, !.mark = mark]
          BY <1>1, <2>2 DEF Carried, Records
    <3> QED
        BY <2>2, <3>3, <3>4, <3>5
  <2> QED
      BY <2>1, <2>2
<1>3. /\ Carried(n) \in Records /\ Carried(n).reply = "none" /\ Carried(n).mark = mark
      /\ Carried(n).state = old.state /\ Carried(n).proven = old.proven
      /\ Carried(n).misses = old.misses
      BY <1>1, <1>2 DEF Records
<1>4. Sound(Carried(n))
      BY <1>1, <1>2, <1>3 DEF Sound, MonitorInv, MarkedIsInactive, ActiveHasReplied, Marked
<1>5. Misses(Carried(n), quiet[n])
  <2>1. CASE old.reply = "none"
        BY <1>1, <1>2, <1>3, <2>1 DEF MonitorInv, QuietInv, Misses
  <2>2. CASE old.reply # "none"
        BY <1>1, <1>2, <1>3, <2>2 DEF MonitorInv, QuietInv, Misses, Replied
  <2> QED
      BY <2>1, <2>2
<1> QED
    BY <1>2, <1>3, <1>4, <1>5

LEMMA PlannedSound ==
  ASSUME NEW n, NEW rec, Sound(rec), rec.reply = "none", NEW q, Misses(rec, q)
  PROVE  /\ Sound(Planned(n, rec)) /\ Planned(n, rec).reply = "none"
         /\ Misses(Planned(n, rec), q) /\ Planned(n, rec).mark = rec.mark
<1>1. CASE Planned(n, rec) = rec
      BY <1>1
<1>2. CASE Planned(n, rec) = [rec EXCEPT !.state = "unknown"] /\ rec.mark = NoMark
      BY <1>2, MarkTypes DEF Sound, Records, States, Misses
<1> QED
    BY <1>1, <1>2 DEF Planned

LEMMA ApplySound ==
  ASSUME NEW rec, Sound(rec), rec.mark = NoMark, rec.reply = "none",
         NEW method \in Methods, NEW says \in {"reply", "silent", "gone"},
         NEW q \in 0 .. Threshold, Misses(rec, q)
  PROVE  LET new == ApplyProbe(rec, method, says) IN
         /\ new \in Records /\ Sound(new) /\ new.mark = NoMark /\ new.reply = "none"
         /\ says = "reply" => new.state = "active" /\ new.misses = 0 /\ new.proven # {}
         /\ says = "silent" =>
              new.proven = rec.proven /\ Misses(new, OneMore(q)) /\ (Counts(rec, method) \/ new = rec)
         /\ says = "gone" => Misses(new, Threshold)
<1> DEFINE new == ApplyProbe(rec, method, says)
<1>1. rec \in Records /\ rec.misses \in 0 .. Threshold /\ OneMore(rec.misses) \in 0 .. Threshold
      BY Misses1 DEF Sound, Records
<1>2. CASE says = "reply"
  <2> DEFINE proven == rec.proven \cup {method}
  <2>0. proven \in SUBSET Methods /\ proven # {}
        BY <1>1 DEF Records
  <2>1. new = With(rec, "active", 0, proven)
        BY <1>1, <1>2 DEF ApplyProbe, With
  <2> HIDE DEF proven
  <2>2. /\ new \in Records /\ new.mark = rec.mark /\ new.reply = rec.reply
        /\ new.state = "active" /\ new.misses = 0 /\ new.proven # {}
    <3>1. "active" \in States /\ 0 \in 0 .. Threshold
          BY MonitorConstants DEF States
    <3> HIDE DEF new
    <3> QED
        BY <1>1, <2>0, <2>1, <3>1, WithTypes
  <2> QED
      BY <1>2, <2>2, MarkTypes DEF Sound
<1>3. CASE says = "gone"
  <2>1. new = [rec EXCEPT !.state = "inactive", !.misses = OneMore(rec.misses)]
        BY <1>1, <1>3 DEF ApplyProbe
  <2>2. /\ new \in Records /\ new.mark = rec.mark /\ new.reply = rec.reply
        /\ new.state = "inactive" /\ new.misses \in 0 .. Threshold /\ new.proven = rec.proven
        BY <1>1, <2>1 DEF Records, States
  <2>3. Sound(new) /\ Misses(new, Threshold)
        BY <2>2, MarkTypes DEF Sound, Misses
  <2> QED
      BY <1>3, <2>2, <2>3
<1>4. CASE says = "silent" /\ Counts(rec, method)
  <2> DEFINE state == IF OneMore(rec.misses) >= Threshold THEN "inactive" ELSE rec.state
  <2>1. new = [rec EXCEPT !.misses = OneMore(rec.misses), !.state = state]
        BY <1>1, <1>4 DEF ApplyProbe
  <2>2. /\ new \in Records /\ new.mark = rec.mark /\ new.reply = rec.reply
        /\ new.state = state /\ new.misses = OneMore(rec.misses) /\ new.proven = rec.proven
        BY <1>1, <2>1 DEF Records, States
  <2>3. Sound(new)
        BY <2>2, MarkTypes DEF Sound
  <2>4. OneMore(rec.misses) <= OneMore(q) /\ OneMore(q) \in 0 .. Threshold
        BY <1>1, Misses1 DEF Misses
  <2>5. rec.state = "inactive" => OneMore(q) = Threshold
        BY <1>1, Misses1 DEF Misses
  <2>6. Misses(new, OneMore(q))
        BY <1>1, <2>2, <2>4, <2>5, MonitorConstants DEF Misses
  <2> QED
      BY <1>4, <2>2, <2>3, <2>6
<1>5. CASE says = "silent" /\ ~Counts(rec, method)
  <2>1. new = rec
        BY <1>5 DEF ApplyProbe
  <2>2. Misses(rec, OneMore(q))
        BY <1>1, Misses1 DEF Misses
  <2> QED
      BY <1>1, <1>5, <2>1, <2>2
<1> QED
    BY <1>2, <1>3, <1>4, <1>5

LEMMA LongerQuiet ==
  ASSUME NEW rec, Sound(rec), NEW q \in 0 .. Threshold, Misses(rec, q)
  PROVE  Misses(rec, OneMore(q)) /\ Misses(rec, Threshold)
BY Misses1 DEF Misses, Sound, Records

LEMMA ReplySound ==
  ASSUME NEW rec, Sound(rec), NEW method \in Methods, NEW reply \in {"live", "table"}
  PROVE  LET new == [ApplyProbe(rec, method, "reply") EXCEPT !.mark = NoMark, !.reply = reply] IN
         Sound(new) /\ new.reply = reply
<1> DEFINE proven == rec.proven \cup {method}
           mid == With(rec, "active", 0, proven)
           new == [mid EXCEPT !.mark = NoMark, !.reply = reply]
<1>1. rec \in Records /\ proven \in SUBSET Methods /\ proven # {}
      BY DEF Sound, Records
<1>2. "active" \in States /\ 0 \in 0 .. Threshold
      BY MonitorConstants DEF States
<1>3. ApplyProbe(rec, method, "reply") = mid
      BY DEF ApplyProbe, With
<1> HIDE DEF proven
<1>4. mid \in Records /\ mid.state = "active" /\ mid.misses = 0 /\ mid.proven # {}
      BY <1>1, <1>2, WithTypes
<1> HIDE DEF mid
<1>5. /\ new \in Records /\ new.state = "active" /\ new.misses = 0 /\ new.proven # {}
      /\ new.mark = NoMark /\ new.reply = reply
      BY <1>4, MarkTypes DEF Records
<1>6. Sound(new)
      BY <1>5, MarkTypes DEF Sound
<1> QED
    BY <1>3, <1>5, <1>6

LEMMA SettleSound ==
  ASSUME NEW rec, Sound(rec), NEW method \in Methods, NEW says \in {"reply", "silent", "gone"},
         rec.reply = "none" \/ says = "reply", NEW q \in 0 .. Threshold, Misses(rec, q)
  PROVE  LET new == Settle(rec, method, says) IN
         /\ Sound(new)
         /\ says = "reply" => new.reply = "live" /\ new.mark = NoMark
         /\ says # "reply" => new.reply = "none" /\ new.mark = rec.mark
         /\ says = "silent" =>
              new.proven = rec.proven /\ Misses(new, OneMore(q)) /\ (Counts(rec, method) \/ new = rec)
         /\ says = "gone" => IF rec.mark = NoMark THEN Misses(new, Threshold) ELSE new = rec
<1> DEFINE new == Settle(rec, method, says)
<1>1. CASE says = "reply"
  <2>1. new = [ApplyProbe(rec, method, "reply") EXCEPT !.mark = NoMark, !.reply = "live"]
        BY <1>1 DEF Settle
  <2>2. Sound(new) /\ new.reply = "live"
        BY <2>1, ReplySound
  <2> QED
      BY <1>1, <2>2 DEF Sound
<1>2. CASE says # "reply" /\ rec.mark # NoMark
  <2>1. new = rec
        BY <1>2 DEF Settle
  <2> QED
      BY <1>2, <2>1, LongerQuiet
<1>3. CASE says # "reply" /\ rec.mark = NoMark
  <2>1. new = ApplyProbe(rec, method, says)
        BY <1>3 DEF Settle
  <2> QED
      BY <1>3, <2>1, ApplySound
<1> QED
    BY <1>1, <1>2, <1>3

LEMMA ProbedSound ==
  ASSUME NEW r, NEW n, NEW rec, Sound(rec), rec.reply = "none",
         NEW q \in 0 .. Threshold, Misses(rec, q),
         n \in ToProbe => r.probe[n] \in {"reply", "silent", "failed"}
  PROVE  LET new == Probed(r, n, rec) IN
         /\ Sound(new) /\ new.reply \in {"none", "live"} /\ Misses(new, OneMore(q))
         /\ n \notin ToProbe => new = rec
         /\ new.reply = "none" /\ new.proven \cap Fast = {} => Misses(new, q)
<1> DEFINE new == Probed(r, n, rec)
           method == IF n \in BySnmp THEN "snmp" ELSE "icmp"
<1>1. CASE n \notin ToProbe \/ r.probe[n] = "failed"
  <2>1. new = rec
        BY <1>1 DEF Probed
  <2> QED
      BY <2>1, LongerQuiet
<1>2. CASE n \in ToProbe /\ r.probe[n] # "failed"
  <2>1. new = Settle(rec, method, r.probe[n])
        BY <1>2 DEF Probed
  <2>2. method \in Methods /\ method \in Fast /\ method \notin ProvenFromStart
        BY DEF Methods, Fast, ProvenFromStart
  <2>3. r.probe[n] \in {"reply", "silent"}
        BY <1>2
  <2> HIDE DEF method, new
  <2>4. CASE r.probe[n] = "reply"
    <3>1. Sound(new) /\ new.reply = "live"
          BY <2>1, <2>2, <2>4, SettleSound
    <3> QED
        BY <1>2, <3>1 DEF new, Misses
  <2>5. CASE r.probe[n] = "silent"
    <3>1. /\ Sound(new) /\ new.reply = "none" /\ Misses(new, OneMore(q))
          /\ new.proven = rec.proven /\ (Counts(rec, method) \/ new = rec)
          BY <2>1, <2>2, <2>5, SettleSound
    <3>2. Counts(rec, method) => new.proven \cap Fast # {}
          BY <2>2, <3>1 DEF Counts
    <3> QED
        BY <1>2, <3>1, <3>2 DEF new
  <2> QED
      BY <2>3, <2>4, <2>5 DEF new
<1> QED
    BY <1>1, <1>2

(* Once the agents have spoken: the misses are known, and a host that the  *)
(* forwarding tables may be asked for has missed nothing in this pass.     *)
Evidenced(r, n, rec) ==
  /\ Sound(rec) /\ Misses(rec, QuietAfter(r, n))
  /\ n \notin ByAgent /\ rec.reply = "none" /\ rec.proven \cap Fast = {} => Misses(rec, quiet[n])

LEMMA CheckedInSound ==
  ASSUME NEW r, NEW n, NEW rec, Sound(rec), quiet[n] \in 0 .. Threshold,
         Misses(rec, OneMore(quiet[n])),
         n \in ByAgent => rec.reply = "none" /\ Misses(rec, quiet[n])
                            /\ (rec.mark = NoMark => records[n].mark = NoMark),
         rec.reply = "none" /\ rec.proven \cap Fast = {} => Misses(rec, quiet[n])
  PROVE  Evidenced(r, n, CheckedIn(r, n, rec))
<1> DEFINE row == Row(r, n)
           fresh == row = [says |-> "active", age |-> 0]
           noted == [rec EXCEPT !.fresh = fresh]
           new == CheckedIn(r, n, rec)
<1>1. CASE ~Listed(r, n)
  <2>1. new = rec
        BY <1>1 DEF CheckedIn
  <2>2. QuietAfter(r, n) = OneMore(quiet[n])
        BY <1>1 DEF QuietAfter, SaidGone
  <2> QED
      BY <2>1, <2>2 DEF Evidenced
<1>2. CASE Listed(r, n)
  <2>1. n \in ByAgent
        BY <1>2 DEF Listed
  <2>2. fresh \in BOOLEAN
        BY Zenon
  <2> HIDE DEF fresh
  <2>3. /\ noted \in Records /\ noted.state = rec.state /\ noted.misses = rec.misses
        /\ noted.proven = rec.proven /\ noted.mark = rec.mark /\ noted.reply = rec.reply
        BY <2>2 DEF Sound, Records
  <2>4. Sound(noted) /\ Misses(noted, quiet[n]) /\ noted.reply = "none"
        BY <2>1, <2>3 DEF Sound, Misses
  <2> HIDE DEF noted
  <2>5. \A x : Sound(x) /\ Misses(x, OneMore(quiet[n])) => Misses(x, QuietAfter(r, n))
        BY Misses1 DEF QuietAfter, Misses, Sound, Records
  <2>6. CASE row.says = "active" /\ PortDecides(r, n, rec)
    <3>1. new = noted
          BY <1>2, <2>6 DEF CheckedIn, noted, fresh
    <3> QED
        BY <2>1, <2>4, <2>5, <3>1, LongerQuiet DEF Evidenced
  <2>7. CASE ~(row.says = "active" /\ PortDecides(r, n, rec))
    <3> DEFINE says == SaidOfAgent(row)
    <3>1. new = Settle(noted, "agent", says)
          BY <1>2, <2>7 DEF CheckedIn, noted, fresh
    <3>2. says \in {"reply", "silent", "gone"} /\ (says = "gone" => row.says = "gone")
          BY DEF SaidOfAgent
    <3>3. "agent" \in Methods
          BY DEF Methods
    <3> HIDE DEF says, new
    <3>4. CASE says = "reply"
      <4>1. Sound(new) /\ new.reply = "live"
            BY <2>4, <3>1, <3>3, <3>4, SettleSound
      <4> QED
          BY <2>1, <4>1 DEF Evidenced, Misses, new
    <3>5. CASE says = "silent"
      <4>1. Sound(new) /\ Misses(new, OneMore(quiet[n]))
            BY <2>4, <3>1, <3>3, <3>5, SettleSound
      <4> QED
          BY <2>1, <2>5, <4>1 DEF Evidenced, new
    <3>6. CASE says = "gone" /\ rec.mark # NoMark
      <4>1. Sound(new) /\ new = noted
            BY <2>3, <2>4, <3>1, <3>3, <3>6, SettleSound
      <4> QED
          BY <2>1, <2>4, <2>5, <4>1, LongerQuiet DEF Evidenced, new
    <3>7. CASE says = "gone" /\ rec.mark = NoMark
      <4>1. Sound(new) /\ Misses(new, Threshold)
            BY <2>3, <2>4, <3>1, <3>3, <3>7, SettleSound
      <4>2. QuietAfter(r, n) = Threshold
            BY <1>2, <2>1, <3>2, <3>7 DEF QuietAfter, SaidGone
      <4> QED
          BY <2>1, <4>1, <4>2 DEF Evidenced, new
    <3> QED
        BY <3>2, <3>4, <3>5, <3>6, <3>7
  <2> QED
      BY <2>6, <2>7
<1> QED
    BY <1>1, <1>2

LEMMA SeenOnWifiSound ==
  ASSUME NEW r, NEW n, NEW rec, Evidenced(r, n, rec), quiet[n] \in 0 .. Threshold
  PROVE  Evidenced(r, n, SeenOnWifi(r, n, rec))
<1>1. CASE SeenOnWifi(r, n, rec) = rec
      BY <1>1
<1>2. CASE SeenOnWifi(r, n, rec) = Settle(rec, "wifi", "reply")
  <2> DEFINE new == Settle(rec, "wifi", "reply")
  <2>1. new = [ApplyProbe(rec, "wifi", "reply") EXCEPT !.mark = NoMark, !.reply = "live"]
        BY DEF Settle
  <2>2. Sound(rec) /\ "wifi" \in Methods
        BY DEF Evidenced, Methods
  <2>3. Sound(new) /\ new.reply = "live"
        BY <2>1, <2>2, ReplySound
  <2> QED
      BY <1>2, <2>3 DEF Evidenced, Misses
<1> QED
    BY <1>1, <1>2 DEF SeenOnWifi

LEMMA InTableSound ==
  ASSUME NEW r, NEW n, NEW rec, Evidenced(r, n, rec), quiet[n] \in 0 .. Threshold
  PROVE  LET new == InTable(r, n, rec) IN Sound(new) /\ Misses(new, QuietAfter(r, n))
<1> DEFINE new == InTable(r, n, rec)
<1>1. CASE ~LookedUp(r, n, rec)
      BY <1>1 DEF InTable, Evidenced
<1>2. CASE LookedUp(r, n, rec)
  <2>1. /\ Sound(rec) /\ rec.mark = NoMark /\ rec.reply = "none" /\ n \notin ByAgent
        /\ Misses(rec, quiet[n])
        BY <1>2 DEF LookedUp, Evidenced
  <2>2. "mac-table" \in Methods
        BY DEF Methods
  <2>3. CASE n \in r.tables[graph.link[n].device]
    <3>1. new = [ApplyProbe(rec, "mac-table", "reply") EXCEPT !.reply = "table"]
          BY <1>2, <2>3 DEF InTable
    <3>2. /\ ApplyProbe(rec, "mac-table", "reply") \in Records
          /\ ApplyProbe(rec, "mac-table", "reply").mark = NoMark
          /\ ApplyProbe(rec, "mac-table", "reply").state = "active"
          /\ ApplyProbe(rec, "mac-table", "reply").misses = 0
          /\ ApplyProbe(rec, "mac-table", "reply").proven # {}
          BY <2>1, <2>2, ApplySound
    <3>3. Sound(new) /\ new.reply = "table"
          BY <3>1, <3>2, MarkTypes DEF Sound, Records
    <3> QED
        BY <3>3 DEF Misses
  <2>4. CASE n \notin r.tables[graph.link[n].device]
    <3>1. new = ApplyProbe(rec, "mac-table", "silent")
          BY <1>2, <2>4 DEF InTable
    <3>2. Sound(new) /\ Misses(new, OneMore(quiet[n]))
          BY <2>1, <2>2, <3>1, ApplySound
    <3>3. QuietAfter(r, n) = OneMore(quiet[n])
          BY <2>1 DEF QuietAfter, SaidGone, Listed
    <3> QED
        BY <3>2, <3>3
  <2> QED
      BY <2>3, <2>4
<1> QED
    BY <1>1, <1>2

LEMMA RecoveredSound ==
  ASSUME NEW r, NEW n, NEW rec, Sound(rec), NEW q, Misses(rec, q), q \in 0 .. Threshold
  PROVE  LET new == Recovered(r, n, rec) IN
         /\ Sound(new) /\ Misses(new, q)
         /\ new.mark # NoMark => new.mark.link = graph.link[n]
<1> DEFINE new == Recovered(r, n, rec)
<1>1. CASE ~(rec.mark # NoMark /\ (rec.mark.link # graph.link[n] \/ LinkState(r, n) = "up"))
      BY <1>1 DEF Recovered
<1>2. CASE rec.mark # NoMark /\ (rec.mark.link # graph.link[n] \/ LinkState(r, n) = "up")
  <2>1. new = [rec EXCEPT !.state = rec.mark.previous, !.misses = 0, !.mark = NoMark]
        BY <1>2 DEF Recovered
  <2>2. rec \in Records /\ rec.mark \in Marks /\ rec.mark.previous \in States /\ 0 \in 0 .. Threshold
        BY MonitorConstants DEF Sound, Records, Marks
  <2>3. /\ new \in Records /\ new.state = rec.mark.previous /\ new.misses = 0
        /\ new.mark = NoMark /\ new.proven = rec.proven /\ new.reply = rec.reply
        BY <2>1, <2>2, MarkTypes DEF Records
  <2>4. rec.reply = "none" /\ rec.state = "inactive"
        BY <1>2 DEF Sound, Records
  <2>5. Sound(new)
        BY <2>3, <2>4, MarkTypes DEF Sound
  <2>6. Misses(new, q)
        BY <1>2, <2>3, <2>4 DEF Misses
  <2> QED
      BY <2>3, <2>5, <2>6
<1> QED
    BY <1>1, <1>2

(* A record as a pass leaves it.                                           *)
Settled(n, rec) ==
  /\ rec \in Records
  /\ rec.mark # NoMark => rec.state = "inactive" /\ rec.mark.link = graph.link[n]
  /\ "active" \in {rec.state, rec.mark.previous} => rec.proven # {}
  /\ rec.reply = "live" => rec.state = "active" /\ rec.mark = NoMark
  /\ Replied(rec)

LEMMA MarkedDownSound ==
  ASSUME NEW r, NEW n, NEW rec, Sound(rec), NEW q, Misses(rec, q),
         rec.mark # NoMark => rec.mark.link = graph.link[n],
         graph.link[n] \in Links \cup {None}
  PROVE  LET new == MarkedDown(r, n, rec) IN Settled(n, new) /\ Misses(new, q)
<1> DEFINE new == MarkedDown(r, n, rec)
<1>1. CASE LinkState(r, n) # "down" \/ rec.reply = "live"
  <2>1. new = rec
        BY <1>1 DEF MarkedDown
  <2> QED
      BY <2>1 DEF Sound, Settled, Replied
<1>2. CASE ~(LinkState(r, n) # "down" \/ rec.reply = "live")
  <2>1. graph.link[n] # None
        BY <1>2 DEF LinkState
  <2> DEFINE mark == IF rec.mark.link = graph.link[n] THEN rec.mark
                     ELSE MarkOf(graph.link[n], rec.state, 0)
  <2>2. new = [rec EXCEPT !.state = "inactive", !.mark = mark]
        BY <1>2 DEF MarkedDown
  <2>3. rec \in Records /\ rec.mark \in Marks /\ rec.state \in States
        BY DEF Sound, Records
  <2>4. /\ mark \in Marks /\ mark.link = graph.link[n]
        /\ mark = rec.mark \/ (rec.mark = NoMark /\ mark.previous = rec.state)
        BY <2>1, <2>3, MarkTypes, MonitorConstants
  <2>5. mark # NoMark
        BY <2>1, <2>4, MarkTypes
  <2> HIDE DEF mark
  <2>6. /\ new \in Records /\ new.state = "inactive" /\ new.mark = mark
        /\ new.proven = rec.proven /\ new.reply = rec.reply /\ new.misses = rec.misses
        BY <2>2, <2>3, <2>4 DEF Records, States
  <2> HIDE DEF new
  <2>7. Settled(n, new)
        BY <1>2, <2>4, <2>5, <2>6 DEF Settled, Sound, Replied
  <2>8. Misses(new, q)
        BY <2>4, <2>5, <2>6 DEF Misses, Sound
  <2> QED
      BY <2>7, <2>8 DEF new
<1> QED
    BY <1>1, <1>2

(* One node through a whole pass.                                          *)
LEMMA CheckedSettled ==
  ASSUME MonitorInv, NEW probe \in [ToProbe -> {"reply", "silent", "failed"}],
         NEW r \in Readings(probe), NEW n \in graph.nodes
  PROVE  Settled(n, Checked(r, n)) /\ Misses(Checked(r, n), QuietAfter(r, n))
<1> DEFINE q == quiet[n]
           a == Carried(n)
           b == Planned(n, a)
           c == Probed(r, n, b)
           d == CheckedIn(r, n, c)
           e == SeenOnWifi(r, n, d)
           f == InTable(r, n, e)
           g == Recovered(r, n, f)
<1>1. q \in 0 .. Threshold /\ graph.link[n] \in Links \cup {None}
      BY LinkTypes DEF MonitorInv, TypeOK
<1>2. QuietAfter(r, n) \in 0 .. Threshold
      BY <1>1, Misses1, MonitorConstants DEF QuietAfter
<1>3. n \in ToProbe => r.probe[n] \in {"reply", "silent", "failed"}
      BY DEF Readings
<1>4. /\ Sound(a) /\ a.reply = "none" /\ Misses(a, q)
      /\ a.mark = NoMark <=> records[n].mark = NoMark
      BY CarriedSound
<1> HIDE DEF a
<1>5. Sound(b) /\ b.reply = "none" /\ Misses(b, q) /\ b.mark = a.mark
      BY <1>4, PlannedSound
<1> HIDE DEF b
<1>6. /\ Sound(c) /\ Misses(c, OneMore(q)) /\ (n \notin ToProbe => c = b)
      /\ c.reply = "none" /\ c.proven \cap Fast = {} => Misses(c, q)
      BY <1>1, <1>3, <1>5, ProbedSound
<1> HIDE DEF c
<1>7. n \in ByAgent => n \notin ToProbe
      BY DEF ToProbe
<1>8. Evidenced(r, n, d)
      BY <1>1, <1>4, <1>5, <1>6, <1>7, CheckedInSound
<1> HIDE DEF d
<1>9. Evidenced(r, n, e)
      BY <1>1, <1>8, SeenOnWifiSound
<1> HIDE DEF e
<1>10. Sound(f) /\ Misses(f, QuietAfter(r, n))
      BY <1>1, <1>9, InTableSound
<1> HIDE DEF f
<1>11. /\ Sound(g) /\ Misses(g, QuietAfter(r, n))
       /\ g.mark # NoMark => g.mark.link = graph.link[n]
      BY <1>2, <1>10, RecoveredSound
<1> HIDE DEF g
<1>12. Settled(n, MarkedDown(r, n, g)) /\ Misses(MarkedDown(r, n, g), QuietAfter(r, n))
      BY <1>1, <1>11, MarkedDownSound
<1> QED
    BY <1>12 DEF Checked, Evidence, a, b, c, d, e, f, g

-----------------------------------------------------------------------------
(* The reasons for a rescan, and the remembered ports.                     *)
LEMMA ReasonsFinite == IsFiniteSet(AllReasons)
<1> DEFINE kinds == {"port", "client", "agent"}
           places == Nodes \cup {None}
           things == (Ports \cup StrangeAgents) \cup StrangeClients
<1>1. IsFiniteSet({"port"}) /\ IsFiniteSet({"client"}) /\ IsFiniteSet({"agent"}) /\ IsFiniteSet({None})
      BY FS_Singleton
<1>2. IsFiniteSet({"port"} \cup {"client"})
      BY <1>1, FS_Union
<1>3. IsFiniteSet(({"port"} \cup {"client"}) \cup {"agent"})
      BY <1>1, <1>2, FS_Union
<1>4. kinds = ({"port"} \cup {"client"}) \cup {"agent"}
      OBVIOUS
<1>5. IsFiniteSet(kinds) /\ IsFiniteSet(places)
      BY <1>1, <1>3, <1>4, FS_Union, MonitorConstants
<1>6. IsFiniteSet(Ports \cup StrangeAgents)
      BY FS_Union, MonitorConstants
<1>7. IsFiniteSet(things)
      BY <1>6, FS_Union, MonitorConstants
<1> HIDE DEF kinds, places, things
<1>8. IsFiniteSet(places \X things)
      BY <1>5, <1>7, FS_Product
<1>9. IsFiniteSet(kinds \X (places \X things))
      BY <1>5, <1>8, FS_Product
<1> QED
    BY <1>9 DEF AllReasons, kinds, places, things

LEMMA ReadingTypes ==
  ASSUME TypeOK, NEW probe, NEW r \in Readings(probe)
  PROVE  /\ DOMAIN r.ports \subseteq Nodes
         /\ \A d \in ReadDevices(r) : d \in Nodes /\ r.ports[d] \in PortStates
         /\ DOMAIN r.clients \subseteq Nodes
         /\ r.agents # None => r.agents.strange \subseteq StrangeAgents
<1>1. BySnmp \subseteq Nodes
      BY MonitorConstants DEF BySnmp, ToProbe, TypeOK, GraphsOK
<1>2. Answered(probe) \subseteq Nodes
      BY <1>1 DEF Answered
<1>3. r.ports \in [Answered(probe) -> PortStates \cup {None}]
      BY DEF Readings
<1>4. DOMAIN r.clients = Answered(probe) \cap AccessPoints
      BY DEF Readings
<1>5. r.agents # None => r.agents.strange \subseteq StrangeAgents
      BY DEF Readings
<1> QED
    BY <1>2, <1>3, <1>4, <1>5 DEF ReadDevices

LEMMA NewReasons ==
  ASSUME TypeOK, NEW probe, NEW r \in Readings(probe)
  PROVE  CameUp(r) \cup NewClients(r) \cup NewAgents(r) \subseteq AllReasons
<1>1. CameUp(r) \subseteq AllReasons
  <2> SUFFICES ASSUME NEW x \in CameUp(r) PROVE x \in AllReasons
      OBVIOUS
  <2>1. \E d \in ReadDevices(r), p \in Ports : x = Reason("port", d, p)
        BY DEF CameUp
  <2>2. PICK d \in ReadDevices(r), p \in Ports : x = Reason("port", d, p)
        BY <2>1
  <2>3. d \in Nodes
        BY ReadingTypes
  <2> QED
      BY <2>2, <2>3 DEF Reason, AllReasons
<1>2. NewClients(r) \subseteq AllReasons
      BY ReadingTypes DEF NewClients, Reason, AllReasons
<1>3. NewAgents(r) \subseteq AllReasons
      BY ReadingTypes DEF NewAgents, Reason, AllReasons
<1> QED
    BY <1>1, <1>2, <1>3

(* A listing keeps what stands and fits the bound.                         *)
LEMMA ListingFits ==
  ASSUME TypeOK, NEW new \in SUBSET AllReasons, NEW L \in Listing(new)
  PROVE  /\ L \subseteq AllReasons /\ Cardinality(L) <= MaxReasons /\ Standing \subseteq L
<1> DEFINE room == MaxReasons - Cardinality(Standing)
           added == new \ Standing
<1>1. Standing \subseteq AllReasons /\ IsFiniteSet(Standing) /\ Cardinality(Standing) <= MaxReasons
      BY ReasonsFinite, FS_Subset, FS_EmptySet, MonitorConstants DEF TypeOK, Standing
<1>2. Cardinality(Standing) \in Nat
      BY <1>1, FS_CardinalityType
<1>3. PICK S \in SUBSET added : L = Standing \cup S /\ Cardinality(S) <= room
  <2>1. CASE Cardinality(added) <= room
        BY <2>1 DEF Listing
  <2>2. CASE ~(Cardinality(added) <= room)
    <3>1. PICK S \in SUBSET added : L = Standing \cup S /\ Cardinality(S) = room
          BY <2>2 DEF Listing
    <3> QED
        BY <1>2, <3>1, MonitorConstants
  <2> QED
      BY <2>1, <2>2
<1>4. S \subseteq AllReasons /\ IsFiniteSet(S)
      BY <1>3, ReasonsFinite, FS_Subset
<1>5. Cardinality(S) \in Nat /\ Cardinality(Standing \cap S) \in Nat
      BY <1>1, <1>4, FS_CardinalityType, FS_Intersection
<1>6. Cardinality(Standing \cup S) = Cardinality(Standing) + Cardinality(S) - Cardinality(Standing \cap S)
      BY <1>1, <1>4, FS_Union
<1>7. Cardinality(L) <= MaxReasons
      BY <1>2, <1>3, <1>5, <1>6, MonitorConstants
<1> QED
    BY <1>1, <1>3, <1>4, <1>7

-----------------------------------------------------------------------------
LEMMA InitHolds == Init => MonitorInv
<1> SUFFICES ASSUME Init PROVE MonitorInv
    OBVIOUS
<1> USE DEF Init
<1>1. \A n \in Nodes : records[n] = NewRecord /\ Sound(NewRecord)
      BY NewRecordType
<1>2. /\ NewRecord.mark = NoMark /\ NewRecord.state = "unknown" /\ NewRecord.reply = "none"
      /\ NewRecord.misses = 0
      BY DEF NewRecord
<1>3. Cardinality(reasons) <= MaxReasons /\ reasons \subseteq AllReasons
      BY FS_EmptySet, MonitorConstants
<1>4. Unread \in PortStates
      BY DEF Unread, PortStates
<1>5. TypeOK
  <2>1. records \in [Nodes -> Records] /\ ports \in [Nodes -> PortStates]
        BY <1>4, NewRecordType
  <2>2. quiet \in [Nodes -> 0 .. Threshold]
        BY MonitorConstants
  <2> QED
      BY <1>3, <2>1, <2>2 DEF TypeOK
<1>6. MarkedIsInactive /\ MarksFollowTheGraph /\ LiveReplyWins
      BY <1>1, <1>2 DEF MarkedIsInactive, MarksFollowTheGraph, LiveReplyWins, Marked
<1>7. ActiveHasReplied
      BY <1>1 DEF ActiveHasReplied, Sound
<1>8. QuietInv
      BY <1>1, <1>2, MonitorConstants DEF QuietInv, Misses, Replied
<1> QED
    BY <1>5, <1>6, <1>7, <1>8 DEF MonitorInv

LEMMA NewGraphKeeps == MonitorInv /\ NewGraph => MonitorInv'
BY DEF MonitorInv, NewGraph, TypeOK, MarkedIsInactive, MarksFollowTheGraph, ActiveHasReplied,
       LiveReplyWins, QuietInv, Marked, Misses, Replied

LEMMA PassKeeps == MonitorInv /\ Pass => MonitorInv'
<1> SUFFICES ASSUME MonitorInv, Pass PROVE MonitorInv'
    OBVIOUS
<1>1. PICK probe \in [ToProbe -> {"reply", "silent", "failed"}] : \E r \in Readings(probe) :
        /\ records' = [n \in Nodes |-> IF n \in graph.nodes THEN Checked(r, n) ELSE NewRecord]
        /\ ports' = Remembered(r)
        /\ reasons' \in Listing(CameUp(r) \cup NewClients(r) \cup NewAgents(r))
        /\ quiet' = [n \in Nodes |-> CASE n \notin graph.nodes \/ records'[n].reply # "none" -> 0
                                      [] n \in graph.nodes /\ records'[n].reply = "none" /\ SaidGone(r, n)
                                           -> Threshold
                                      [] OTHER -> OneMore(quiet[n])]
        /\ current' = TRUE /\ graph' = graph
      BY Zenon DEF Pass
<1>2. PICK r \in Readings(probe) :
        /\ records' = [n \in Nodes |-> IF n \in graph.nodes THEN Checked(r, n) ELSE NewRecord]
        /\ ports' = Remembered(r)
        /\ reasons' \in Listing(CameUp(r) \cup NewClients(r) \cup NewAgents(r))
        /\ quiet' = [n \in Nodes |-> CASE n \notin graph.nodes \/ records'[n].reply # "none" -> 0
                                      [] n \in graph.nodes /\ records'[n].reply = "none" /\ SaidGone(r, n)
                                           -> Threshold
                                      [] OTHER -> OneMore(quiet[n])]
        /\ current' = TRUE /\ graph' = graph
      BY <1>1
<1>3. TypeOK /\ \A n \in Nodes : quiet[n] \in 0 .. Threshold
      BY DEF MonitorInv, TypeOK
<1>4. \A n \in graph.nodes : n \in Nodes /\ records'[n] = Checked(r, n)
      BY <1>2, <1>3, LinkTypes
<1>5. \A n \in graph.nodes : Settled(n, records'[n]) /\ Misses(records'[n], QuietAfter(r, n))
      BY <1>4, CheckedSettled
<1>6. \A n \in Nodes \ graph.nodes : records'[n] = NewRecord /\ quiet'[n] = 0
      BY <1>2
<1>7. \A n \in graph.nodes :
        quiet'[n] = IF records'[n].reply # "none" THEN 0 ELSE QuietAfter(r, n)
      BY <1>2, <1>4 DEF QuietAfter
<1>8. \A n \in Nodes : quiet'[n] \in 0 .. Threshold
      BY <1>2, <1>3, Misses1, MonitorConstants
<1>9. /\ Sound(NewRecord) /\ NewRecord.mark = NoMark /\ NewRecord.state = "unknown"
      /\ NewRecord.reply = "none" /\ NewRecord.misses = 0
      BY NewRecordType DEF NewRecord
<1>10. TypeOK'
  <2>1. records' \in [Nodes -> Records]
        BY <1>2, <1>4, <1>5, <1>6, <1>9 DEF Settled, Sound
  <2>2. Unread \in PortStates
        BY DEF Unread, PortStates
  <2>3. ports' \in [Nodes -> PortStates]
        BY <1>2, <1>3, <2>2, ReadingTypes DEF Remembered, TypeOK
  <2>4. reasons' \subseteq AllReasons /\ Cardinality(reasons') <= MaxReasons
        BY <1>2, <1>3, NewReasons, ListingFits
  <2>5. quiet' \in [Nodes -> 0 .. Threshold]
        BY <1>2, <1>8
  <2> QED
      BY <1>2, <1>3, <2>1, <2>3, <2>4, <2>5 DEF TypeOK
<1>11. MarkedIsInactive' /\ MarksFollowTheGraph' /\ LiveReplyWins'
  <2>1. \A n \in Nodes : records'[n].mark # NoMark =>
          records'[n].state = "inactive" /\ records'[n].mark.link = graph.link[n]
        BY <1>5, <1>6, <1>9 DEF Settled
  <2>2. \A n \in Nodes : records'[n].reply = "live" =>
          records'[n].state = "active" /\ records'[n].mark = NoMark
        BY <1>5, <1>6, <1>9 DEF Settled
  <2> QED
      BY <1>2, <2>1, <2>2 DEF MarkedIsInactive, MarksFollowTheGraph, LiveReplyWins, Marked
<1>12. ActiveHasReplied'
      BY <1>5, <1>6, <1>9 DEF ActiveHasReplied, Settled, Sound
<1>13. QuietInv'
  <2>1. \A n \in graph.nodes : Misses(records'[n], quiet'[n]) /\ Replied(records'[n])
        BY <1>5, <1>7 DEF Misses, Settled
  <2>2. \A n \in Nodes \ graph.nodes : Misses(records'[n], quiet'[n]) /\ Replied(records'[n])
        BY <1>6, <1>9, MonitorConstants DEF Misses, Replied
  <2> QED
      BY <2>1, <2>2 DEF QuietInv, Misses, Replied
<1> QED
    BY <1>10, <1>11, <1>12, <1>13 DEF MonitorInv

-----------------------------------------------------------------------------
(* The invariant of every chain of passes and scans.                       *)
THEOREM MonitorAlways == Spec => []MonitorInv
<1>1. MonitorInv /\ [Next]_vars => MonitorInv'
  <2>1. MonitorInv /\ UNCHANGED vars => MonitorInv'
        BY DEF MonitorInv, vars, TypeOK, MarkedIsInactive, MarksFollowTheGraph, ActiveHasReplied,
               LiveReplyWins, QuietInv, Marked, Misses, Replied
  <2> QED
      BY <2>1, PassKeeps, NewGraphKeeps DEF Next
<1> QED
    BY <1>1, InitHolds, PTL DEF Spec

(* Types; in particular the reasons never outgrow their bound.             *)
THEOREM TypeCorrect == Spec => []TypeOK
<1>1. MonitorInv => TypeOK
      BY DEF MonitorInv
<1> QED
    BY <1>1, MonitorAlways, PTL

(* A node is kept inactive by its link, and by the link it has now.        *)
THEOREM MarksAreTrue == Spec => [](MarkedIsInactive /\ MarksFollowTheGraph)
<1>1. MonitorInv => MarkedIsInactive /\ MarksFollowTheGraph
      BY DEF MonitorInv
<1> QED
    BY <1>1, MonitorAlways, PTL

(* No silence below the threshold makes a node inactive.                   *)
THEOREM NeverInactiveTooSoon == Spec => []InactiveForAReason
<1>1. MonitorInv => InactiveForAReason
  <2> SUFFICES ASSUME MonitorInv, NEW n \in Nodes, records[n].state = "inactive",
                      Marked(n) => records[n].mark.previous = "inactive"
               PROVE  quiet[n] = Threshold
      BY DEF InactiveForAReason
  <2>1. Misses(records[n], quiet[n]) /\ Replied(records[n])
        BY DEF MonitorInv, QuietInv
  <2> QED
      BY <2>1 DEF Misses, Replied, Marked
<1> QED
    BY <1>1, MonitorAlways, PTL

(* An up port makes nothing active, and a down one does not overrule a     *)
(* reply.                                                                  *)
THEOREM ActiveOnReplies == Spec => [](ActiveHasReplied /\ LiveReplyWins)
<1>1. MonitorInv => ActiveHasReplied /\ LiveReplyWins
      BY DEF MonitorInv
<1> QED
    BY <1>1, MonitorAlways, PTL

(* No reason is dropped while the graph it speaks of stands.               *)
THEOREM ReasonsStand == Spec => SuggestionsStand
<1>1. MonitorInv /\ [Next]_vars => [current /\ current' => reasons \subseteq reasons']_vars
  <2> SUFFICES ASSUME MonitorInv, Next, current, current' PROVE reasons \subseteq reasons'
      BY DEF vars
  <2>1. CASE Pass
    <3>1. PICK probe \in [ToProbe -> {"reply", "silent", "failed"}] : \E r \in Readings(probe) :
            reasons' \in Listing(CameUp(r) \cup NewClients(r) \cup NewAgents(r))
          BY <2>1, Zenon DEF Pass
    <3>2. PICK r \in Readings(probe) :
            reasons' \in Listing(CameUp(r) \cup NewClients(r) \cup NewAgents(r))
          BY <3>1
    <3>3. TypeOK
          BY DEF MonitorInv
    <3>4. Standing \subseteq reasons'
          BY <3>2, <3>3, NewReasons, ListingFits
    <3> QED
        BY <3>4 DEF Standing
  <2>2. CASE NewGraph
        BY <2>2 DEF NewGraph
  <2> QED
      BY <2>1, <2>2 DEF Next
<1> QED
    BY <1>1, MonitorAlways, PTL DEF Spec, SuggestionsStand
=============================================================================
