---------------------------- MODULE CrawlProofs ----------------------------
(***************************************************************************)
(* Proofs about the crawl, for any network, number of workers and cap.     *)
(***************************************************************************)
EXTENDS CrawlProperties, SequenceTheorems, FiniteSetTheorems, TLAPS

-----------------------------------------------------------------------------
(* Constants and helpers.                                                  *)
LEMMA IdFacts ==
  /\ Cids \subseteq Ids /\ Unknown \in Ids
  /\ \A n \in Names : <<"name", n>> \in Ids
  /\ \A i \in Ips : <<"ip", i>> \in Ids
  /\ \A d \in Cids : <<"mac", d>> \in Ids
  /\ \A x \in Names \cup Ips \cup {None} : <<"cdp", x>> \in Ids
  /\ None \notin Ids /\ None \notin Ips /\ None \notin Names /\ None \notin Cids
BY CrawlConstants DEF Ids, MadeUpIds

LEMMA NetworkFacts ==
  ASSUME network \in Networks
  PROVE  /\ network.host \in [Ips -> Cids \cup {None}]
         /\ network.gives \in [Cids -> {"chassis", "mac", "nothing"}]
         /\ network.name \in [Cids -> Names \cup {None}]
         /\ \A d \in Cids : network.lldp[d] \subseteq LldpEntry
         /\ \A d \in Cids : network.cdp[d] \subseteq CdpEntry
         /\ network.seeds \in Seq(Ips)
         /\ \A k \in network.known : k.id \in Cids /\ k.ip \in Ips \cup {None}
BY CrawlConstants

LEMMA EntryFacts ==
  /\ \A nb \in LldpEntry : /\ LldpTarget(nb) \in Ids
                           /\ nb.ip \in Ips \cup {None}
  /\ \A c \in CdpEntry : c.ip \in Ips \cup {None} /\ c.name \in Names \cup {None}
<1>1. ASSUME NEW nb \in LldpEntry
      PROVE  LldpTarget(nb) \in Ids /\ nb.ip \in Ips \cup {None}
  BY IdFacts DEF LldpEntry, LldpTarget
<1>2. \A c \in CdpEntry : c.ip \in Ips \cup {None} /\ c.name \in Names \cup {None}
  BY DEF CdpEntry
<1> QED BY <1>1, <1>2

LEMMA CdpTargetType ==
  ASSUME cidByIp \in [Ips -> Ids \cup {None}], cidByName \in [Names -> Ids \cup {None}],
         NEW c \in CdpEntry
  PROVE  CdpTarget(c) \in Ids \cup {None} /\ ResolvedTarget(c) \in Ids
<1>1. CdpTarget(c) \in Ids \cup {None}
  BY EntryFacts DEF CdpTarget
<1>2. ResolvedTarget(c) \in Ids
  BY <1>1, EntryFacts, IdFacts DEF ResolvedTarget
<1> QED BY <1>1, <1>2

LEMMA AnswerTypes ==
  ASSUME network \in Networks, NEW ip \in Ips, NEW expected \in Ids \cup {None}
  PROVE  /\ Host(ip) \in Cids \cup {None}
         /\ Untried(ip, expected) \in Ids
         /\ Host(ip) # None => ChassisId(ip, expected) \in Ids
<1>1. Host(ip) \in Cids \cup {None}
  BY NetworkFacts DEF Host
<1>2. Untried(ip, expected) \in Ids
  BY IdFacts DEF Untried
<1>3. ASSUME Host(ip) # None PROVE ChassisId(ip, expected) \in Ids
  BY <1>1, <1>3, NetworkFacts, IdFacts DEF ChassisId
<1> QED BY <1>1, <1>2, <1>3

(* What a worker holds after each kind of step.                            *)
LEMMA AtType ==
  ASSUME NEW step \in Steps, NEW ip \in Ips \cup {None}, NEW expected \in Ids \cup {None}
  PROVE  /\ At(step, ip, expected) \in WorkerStates
         /\ At(step, ip, expected).step = step
         /\ At(step, ip, expected).ip = ip
         /\ At(step, ip, expected).lldp = {} /\ At(step, ip, expected).cdp = {}
BY DEF At, WorkerStates

LEMMA IdleType ==
  Idle \in WorkerStates /\ Idle.step = "idle" /\ Idle.ip = None
BY AtType DEF Idle, Steps

LEMMA WorkerFields ==
  ASSUME worker \in [Workers -> WorkerStates], NEW w \in Workers
  PROVE  /\ worker[w].step \in Steps /\ worker[w].ip \in Ips \cup {None}
         /\ worker[w].expected \in Ids \cup {None} /\ worker[w].id \in Ids \cup {None}
         /\ worker[w].lldp \subseteq LldpEntry /\ worker[w].cdp \subseteq CdpEntry
<1>1. worker[w] \in WorkerStates
  OBVIOUS
<1> QED BY <1>1 DEF WorkerStates

LEMMA WorkerMoves ==
  ASSUME worker \in [Workers -> WorkerStates], NEW w \in Workers
  PROVE  /\ \A step \in Steps : /\ Moved(w, step) \in WorkerStates
                                /\ Moved(w, step).step = step
                                /\ Moved(w, step).ip = worker[w].ip
                                /\ Moved(w, step).id = worker[w].id
                                /\ Moved(w, step).lldp = worker[w].lldp
                                /\ Moved(w, step).cdp = worker[w].cdp
         /\ \A id \in Ids : /\ Identified(w, id) \in WorkerStates
                            /\ Identified(w, id).step = "read"
                            /\ Identified(w, id).ip = worker[w].ip
                            /\ Identified(w, id).id = id
                            /\ Identified(w, id).lldp = worker[w].lldp
                            /\ Identified(w, id).cdp = worker[w].cdp
         /\ \A nb : /\ WithoutLldp(w, nb) \in WorkerStates
                    /\ WithoutLldp(w, nb).step = worker[w].step
                    /\ WithoutLldp(w, nb).ip = worker[w].ip
                    /\ WithoutLldp(w, nb).id = worker[w].id
                    /\ WithoutLldp(w, nb).lldp \subseteq worker[w].lldp
                    /\ WithoutLldp(w, nb).cdp = worker[w].cdp
         /\ \A c : /\ WithoutCdp(w, c) \in WorkerStates
                   /\ WithoutCdp(w, c).step = worker[w].step
                   /\ WithoutCdp(w, c).ip = worker[w].ip
                   /\ WithoutCdp(w, c).id = worker[w].id
                   /\ WithoutCdp(w, c).lldp = worker[w].lldp
                   /\ WithoutCdp(w, c).cdp \subseteq worker[w].cdp
<1>1. worker[w] \in WorkerStates
  OBVIOUS
<1>2. "read" \in Steps
  BY DEF Steps
<1> QED BY <1>1, <1>2 DEF WorkerStates, Moved, Identified, WithoutLldp, WithoutCdp

LEMMA TablesReadMove ==
  ASSUME network \in Networks, worker \in [Workers -> WorkerStates], NEW w \in Workers,
         Host(worker[w].ip) \in Cids
  PROVE  /\ TablesRead(w) \in WorkerStates
         /\ TablesRead(w).step = "check"
         /\ TablesRead(w).ip = worker[w].ip
         /\ TablesRead(w).id = worker[w].id
         /\ TablesRead(w).lldp = network.lldp[Host(worker[w].ip)]
         /\ TablesRead(w).cdp \subseteq network.cdp[Host(worker[w].ip)]
<1>1. worker[w] \in WorkerStates
  OBVIOUS
<1>2. /\ network.lldp[Host(worker[w].ip)] \subseteq LldpEntry
      /\ network.cdp[Host(worker[w].ip)] \subseteq CdpEntry
  BY NetworkFacts
<1>3. "check" \in Steps
  BY DEF Steps
<1>4. (\/ Host(worker[w].ip) \in network.wireless
       \/ platformByIp[worker[w].ip] = "access point") \in BOOLEAN
  OBVIOUS
<1> QED BY <1>1, <1>2, <1>3, <1>4 DEF WorkerStates, TablesRead

(* Queueing an address adds one item at the end, for an address that was   *)
(* not queued before, and reserves one node; or changes nothing.           *)
LEMMA EnqueueEffect ==
  ASSUME queue \in Seq(Items \cup {Stop}), enqueuedIps \subseteq Ips, seen \subseteq Ids,
         reserved \in 0 .. MaxNodes,
         NEW ip \in Ips, NEW cid \in Ids \cup {None}, Enqueue(ip, cid)
  PROVE  /\ queue' \in Seq(Items \cup {Stop}) /\ enqueuedIps' \subseteq Ips
         /\ reserved' \in 0 .. MaxNodes /\ seen' \subseteq Ids
         /\ \/ UNCHANGED <<queue, enqueuedIps, reserved>>
            \/ /\ ip \notin enqueuedIps /\ enqueuedIps' = enqueuedIps \cup {ip}
               /\ reserved' = reserved + 1
               /\ Len(queue') = Len(queue) + 1
               /\ \A i \in 1 .. Len(queue) : queue'[i] = queue[i]
               /\ queue'[Len(queue) + 1] = Item(ip, cid)
               /\ Item(ip, cid) \in Items /\ Item(ip, cid).ip = ip /\ Item(ip, cid) # Stop
<1>1. Item(ip, cid) \in Items /\ Item(ip, cid).ip = ip
  BY DEF Item, Items
<1>2. Item(ip, cid) # Stop
  BY <1>1, CrawlConstants
<1>3. CASE ~Enqueues(ip, cid)
  BY <1>3 DEF Enqueue, queueVars
<1>4. CASE Enqueues(ip, cid)
  <2>1. /\ queue' = Append(queue, Item(ip, cid)) /\ enqueuedIps' = enqueuedIps \cup {ip}
        /\ reserved' = reserved + 1 /\ seen' = seen \cup ({cid} \ {None})
        /\ ip \notin enqueuedIps /\ reserved < MaxNodes
    BY <1>4 DEF Enqueue, Enqueues
  <2>2. reserved' \in 0 .. MaxNodes
    BY <2>1, CrawlConstants
  <2>3. /\ queue' \in Seq(Items \cup {Stop}) /\ Len(queue') = Len(queue) + 1
        /\ \A i \in 1 .. Len(queue) : queue'[i] = queue[i]
        /\ queue'[Len(queue) + 1] = Item(ip, cid)
    BY <1>1, <2>1
  <2> QED BY <1>1, <1>2, <2>1, <2>2, <2>3
<1> QED BY <1>3, <1>4

-----------------------------------------------------------------------------
(* What a worker holds is true of the network, and a queued address has    *)
(* been reserved: with TypeOK, an inductive invariant.                     *)
PollOK(w) ==
  /\ worker[w].ip \in enqueuedIps /\ Host(worker[w].ip) # None
  /\ worker[w].id \in Ids /\ status[worker[w].id] = "online"
  /\ worker[w].lldp \subseteq network.lldp[Host(worker[w].ip)]
  /\ worker[w].cdp \subseteq network.cdp[Host(worker[w].ip)]
WorkerOK(w) ==
  /\ worker[w].step \in {"idle", "stopped"} => worker[w].ip = None
  /\ worker[w].step = "identify" =>
       worker[w].ip \in enqueuedIps /\ worker[w].lldp = {} /\ worker[w].cdp = {}
  /\ Polling(w) => PollOK(w)
WorkersOK == \A w \in Workers : WorkerOK(w)
QueuedOK == \A i \in DOMAIN queue : queue[i] # Stop => queue[i].ip \in enqueuedIps

HoldsTrue == TypeOK /\ WorkersOK /\ QueuedOK

(* A worker that does not move keeps what it knows while addresses are     *)
(* only added and polled devices stay polled.                              *)
Grows ==
  /\ network' = network /\ enqueuedIps \subseteq enqueuedIps'
  /\ \A i \in Ids : status[i] = "online" => status'[i] = "online"

LEMMA WorkerFrame ==
  ASSUME Grows, NEW w \in Workers, worker'[w] = worker[w], WorkerOK(w)
  PROVE  WorkerOK(w)'
BY DEF Grows, WorkerOK, PollOK, Polling, Host

LEMMA OthersOK ==
  ASSUME WorkersOK, Grows, worker \in [Workers -> WorkerStates],
         NEW w \in Workers, NEW state, worker' = [worker EXCEPT ![w] = state], WorkerOK(w)'
  PROVE  WorkersOK'
<1> SUFFICES ASSUME NEW v \in Workers PROVE WorkerOK(v)'
  BY DEF WorkersOK
<1>1. CASE v = w
  BY <1>1
<1>2. CASE v # w
  <2>1. worker'[v] = worker[v]
    BY <1>2
  <2> QED BY <2>1, WorkerFrame DEF WorkersOK
<1> QED BY <1>1, <1>2

LEMMA EnqueueKeepsQueued ==
  ASSUME TypeOK, QueuedOK, NEW ip \in Ips, NEW cid \in Ids \cup {None}, Enqueue(ip, cid)
  PROVE  QueuedOK' /\ enqueuedIps \subseteq enqueuedIps'
<1>1. CASE UNCHANGED <<queue, enqueuedIps, reserved>>
  BY <1>1 DEF QueuedOK
<1>2. CASE ~UNCHANGED <<queue, enqueuedIps, reserved>>
  <2>1. /\ enqueuedIps' = enqueuedIps \cup {ip}
        /\ queue' \in Seq(Items \cup {Stop}) /\ Len(queue') = Len(queue) + 1
        /\ \A i \in 1 .. Len(queue) : queue'[i] = queue[i]
        /\ queue'[Len(queue) + 1] = Item(ip, cid)
        /\ Item(ip, cid).ip = ip
    BY <1>2, EnqueueEffect DEF TypeOK
  <2>2. DOMAIN queue = 1 .. Len(queue) /\ DOMAIN queue' = 1 .. Len(queue') /\ Len(queue) \in Nat
    BY <2>1, LenProperties DEF TypeOK
  <2> QED BY <2>1, <2>2 DEF QueuedOK
<1> QED BY <1>1, <1>2

LEMMA TailKeepsQueued ==
  ASSUME TypeOK, queue # <<>>, queue' = Tail(queue), enqueuedIps' = enqueuedIps, QueuedOK
  PROVE  /\ QueuedOK' /\ queue' \in Seq(Items \cup {Stop})
         /\ Head(queue) \in Items \cup {Stop}
         /\ Head(queue) # Stop => Head(queue).ip \in enqueuedIps
<1>1. /\ Head(queue) \in Items \cup {Stop} /\ queue' \in Seq(Items \cup {Stop})
      /\ Len(queue') = Len(queue) - 1
      /\ \A i \in 1 .. Len(queue') : queue'[i] = queue[i + 1]
  BY HeadTailProperties DEF TypeOK
<1>2. /\ DOMAIN queue = 1 .. Len(queue) /\ DOMAIN queue' = 1 .. Len(queue')
      /\ Len(queue) \in Nat \ {0}
  BY <1>1, LenProperties, EmptySeq DEF TypeOK
<1>3. Head(queue) = queue[1]
  BY <1>2 DEF TypeOK
<1> QED BY <1>1, <1>2, <1>3 DEF QueuedOK

LEMMA HoldsTrueInit == Init => HoldsTrue
<1> SUFFICES ASSUME Init PROVE HoldsTrue
  OBVIOUS
<1>1. network \in Networks
  BY DEF Init
<1>2. worker \in [Workers -> WorkerStates]
  BY IdleType DEF Init
<1>3. queue \in Seq(Items \cup {Stop}) /\ seeds \in Seq(Ips)
  BY <1>1, NetworkFacts DEF Init
<1>4. \A nodes \in SUBSET network.known : IdOfFirst(nodes) \in Ids \cup {None}
  BY <1>1, NetworkFacts, IdFacts DEF IdOfFirst
<1>5. /\ cidByIp \in [Ips -> Ids \cup {None}] /\ cidByName \in [Names -> Ids \cup {None}]
  BY <1>4 DEF Init
<1>6. seen \subseteq Ids /\ enqueuedIps \subseteq Ips
  BY <1>1, NetworkFacts, IdFacts DEF Init
<1>7. reserved \in 0 .. MaxNodes
  BY CrawlConstants DEF Init
<1>8. TypeOK
  BY <1>1, <1>2, <1>3, <1>5, <1>6, <1>7 DEF Init, TypeOK, Mains, Statuses
<1>9. WorkersOK
  BY IdleType DEF Init, WorkersOK, WorkerOK, Polling
<1>10. QueuedOK
  BY DEF Init, QueuedOK
<1> QED BY <1>8, <1>9, <1>10 DEF HoldsTrue

-----------------------------------------------------------------------------
(* A worker whose item is done holds nothing.                              *)
LEMMA TaskDoneOK ==
  ASSUME TypeOK, WorkersOK, Grows, NEW w \in Workers, TaskDone(w)
  PROVE  WorkersOK' /\ worker' \in [Workers -> WorkerStates]
<1>1. worker \in [Workers -> WorkerStates]
  BY DEF TypeOK
<1>2. worker' = [worker EXCEPT ![w] = Idle]
  BY DEF TaskDone
<1>3. worker'[w] = Idle
  BY <1>1, <1>2
<1>4. WorkerOK(w)'
  BY <1>3, IdleType DEF WorkerOK, Polling
<1>5. WorkersOK'
  BY <1>1, <1>2, <1>4, OthersOK
<1>6. worker' \in [Workers -> WorkerStates]
  BY <1>1, <1>2, IdleType
<1> QED BY <1>5, <1>6

(* The actions, one after another.                                         *)
LEMMA SeedStep == HoldsTrue /\ Seed => HoldsTrue'
<1> SUFFICES ASSUME HoldsTrue, Seed PROVE HoldsTrue'
  OBVIOUS
<1>1. TypeOK /\ WorkersOK /\ QueuedOK
  BY DEF HoldsTrue
<1>2. /\ Enqueue(Head(seeds), None) /\ seeds' = Tail(seeds) /\ seeds # <<>> /\ seeds \in Seq(Ips)
      /\ UNCHANGED <<network, main, worker, recordVars, links, lookupVars, cdpLinks, platformByIp,
                     failures>>
  BY <1>1 DEF Seed, TypeOK
<1>3. Head(seeds) \in Ips /\ seeds' \in Seq(Ips)
  BY <1>2, HeadTailProperties
<1>4. /\ queue' \in Seq(Items \cup {Stop}) /\ enqueuedIps' \subseteq Ips
      /\ reserved' \in 0 .. MaxNodes /\ seen' \subseteq Ids
  BY <1>1, <1>2, <1>3, EnqueueEffect DEF TypeOK
<1>5. TypeOK'
  BY <1>1, <1>2, <1>3, <1>4 DEF TypeOK, recordVars, lookupVars
<1>6. QueuedOK' /\ enqueuedIps \subseteq enqueuedIps'
  BY <1>1, <1>2, <1>3, EnqueueKeepsQueued
<1>7. Grows
  BY <1>2, <1>6 DEF Grows, recordVars
<1>8. WorkersOK'
  BY <1>1, <1>2, <1>7, WorkerFrame DEF WorkersOK
<1> QED BY <1>5, <1>6, <1>8 DEF HoldsTrue

LEMMA StartStep == HoldsTrue /\ Start => HoldsTrue'
<1> SUFFICES ASSUME HoldsTrue, Start PROVE HoldsTrue'
  OBVIOUS
<1>1. TypeOK /\ WorkersOK /\ QueuedOK
  BY DEF HoldsTrue
<1>2. /\ main' = "joining"
      /\ UNCHANGED <<network, seeds, queueVars, worker, recordVars, links, seen, lookupVars,
                     cdpLinks, platformByIp, failures>>
  BY DEF Start
<1>3. TypeOK'
  BY <1>1, <1>2 DEF TypeOK, recordVars, lookupVars, queueVars, Mains
<1>4. QueuedOK' /\ Grows
  BY <1>1, <1>2 DEF QueuedOK, Grows, queueVars, recordVars
<1>5. WorkersOK'
  BY <1>1, <1>2, <1>4, WorkerFrame DEF WorkersOK
<1> QED BY <1>3, <1>4, <1>5 DEF HoldsTrue

LEMMA TakeStep == ASSUME NEW w \in Workers PROVE HoldsTrue /\ Take(w) => HoldsTrue'
<1> SUFFICES ASSUME HoldsTrue, Take(w) PROVE HoldsTrue'
  OBVIOUS
<1> DEFINE next == IF Head(queue) = Stop THEN At("stopped", None, None)
                   ELSE At("identify", Head(queue).ip, Head(queue).expected)
<1>1. TypeOK /\ WorkersOK /\ QueuedOK
  BY DEF HoldsTrue
<1>2. /\ queue # <<>> /\ queue' = Tail(queue) /\ worker' = [worker EXCEPT ![w] = next]
      /\ UNCHANGED <<network, main, seeds, enqueuedIps, reserved, recordVars, links, seen,
                     lookupVars, cdpLinks, platformByIp, failures>>
  BY DEF Take
<1>3. /\ QueuedOK' /\ queue' \in Seq(Items \cup {Stop})
      /\ Head(queue) \in Items \cup {Stop}
      /\ Head(queue) # Stop => Head(queue).ip \in enqueuedIps
  BY <1>1, <1>2, TailKeepsQueued
<1>4. worker \in [Workers -> WorkerStates] /\ enqueuedIps \subseteq Ips
  BY <1>1 DEF TypeOK
<1>5. Head(queue) # Stop => Head(queue).ip \in Ips /\ Head(queue).expected \in Ids \cup {None}
  BY <1>3 DEF Items
<1>6. /\ next \in WorkerStates
      /\ \/ next.step = "stopped" /\ next.ip = None
         \/ next.step = "identify" /\ next.ip \in enqueuedIps
      /\ next.lldp = {} /\ next.cdp = {}
  BY <1>3, <1>5, AtType DEF Steps
<1> HIDE DEF next
<1>7. worker'[w] = next /\ worker' \in [Workers -> WorkerStates]
  BY <1>2, <1>4, <1>6
<1>8. WorkerOK(w)' /\ Grows
  BY <1>2, <1>6, <1>7 DEF WorkerOK, Polling, Grows, recordVars
<1>9. WorkersOK'
  BY <1>1, <1>2, <1>4, <1>8, OthersOK
<1>10. TypeOK'
  BY <1>1, <1>2, <1>3, <1>7 DEF TypeOK, recordVars, lookupVars
<1> QED BY <1>3, <1>9, <1>10 DEF HoldsTrue

LEMMA SetDefaultType ==
  ASSUME NEW K, NEW S, NEW f \in [K -> S \cup {None}], NEW key \in K \cup {None},
         NEW value \in S \cup {None}
  PROVE  SetDefault(f, key, value) \in [K -> S \cup {None}]
BY DEF SetDefault

LEMMA IdentifyingAt ==
  ASSUME TypeOK, WorkersOK, NEW w \in Workers, worker[w].step = "identify"
  PROVE  worker[w].ip \in enqueuedIps /\ worker[w].ip \in Ips
         /\ worker[w].expected \in Ids \cup {None}
<1>1. worker[w].ip \in enqueuedIps
  BY DEF WorkersOK, WorkerOK
<1>2. enqueuedIps \subseteq Ips
  BY DEF TypeOK
<1>3. worker[w].expected \in Ids \cup {None}
  BY WorkerFields DEF TypeOK
<1> QED BY <1>1, <1>2, <1>3

LEMMA UnpollableStep == ASSUME NEW w \in Workers PROVE HoldsTrue /\ Unpollable(w) => HoldsTrue'
<1> SUFFICES ASSUME HoldsTrue, Unpollable(w) PROVE HoldsTrue'
  OBVIOUS
<1> DEFINE ip == worker[w].ip
           id == Untried(ip, worker[w].expected)
<1>1. TypeOK /\ WorkersOK /\ QueuedOK
  BY DEF HoldsTrue
<1>2. /\ worker[w].step = "identify" /\ seen' = seen \cup {id}
      /\ cidByIp' = SetDefault(cidByIp, ip, id) /\ status' = Unreachable(id) /\ TaskDone(w)
      /\ UNCHANGED <<workerUnchanged, queueVars, accessPoints, links, cidByName, cdpLinks,
                     platformByIp>>
  BY DEF Unpollable
<1>3. ip \in Ips /\ id \in Ids
  BY <1>1, <1>2, IdentifyingAt, AnswerTypes DEF TypeOK
<1> HIDE DEF ip, id
<1>4. /\ status' \in [Ids -> Statuses]
      /\ \A i \in Ids : status[i] = "online" => status'[i] = "online"
  BY <1>1, <1>2, <1>3 DEF TypeOK, Unreachable, Statuses
<1>5. Grows /\ QueuedOK'
  BY <1>1, <1>2, <1>4 DEF Grows, QueuedOK, workerUnchanged, queueVars
<1>6. WorkersOK' /\ worker' \in [Workers -> WorkerStates]
  BY <1>1, <1>2, <1>5, TaskDoneOK
<1>7. cidByIp' \in [Ips -> Ids \cup {None}] /\ seen' \subseteq Ids
  BY <1>1, <1>2, <1>3, SetDefaultType DEF TypeOK
<1>8. TypeOK'
  BY <1>1, <1>2, <1>4, <1>6, <1>7 DEF TypeOK, workerUnchanged, queueVars
<1> QED BY <1>5, <1>6, <1>8 DEF HoldsTrue

LEMMA IdentifyStep == ASSUME NEW w \in Workers PROVE HoldsTrue /\ Identify(w) => HoldsTrue'
<1> SUFFICES ASSUME HoldsTrue, Identify(w) PROVE HoldsTrue'
  OBVIOUS
<1> DEFINE ip == worker[w].ip
           id == ChassisId(ip, worker[w].expected)
<1>1. TypeOK /\ WorkersOK /\ QueuedOK
  BY DEF HoldsTrue
<1>2. /\ worker[w].step = "identify" /\ Host(ip) # None /\ seen' = seen \cup {id}
      /\ cidByIp' = SetDefault(cidByIp, ip, id)
      /\ \/ TaskDone(w) /\ UNCHANGED <<status, cidByName>>
         \/ /\ cidByName' = SetDefault(cidByName, network.name[Host(ip)], id)
            /\ status' = [status EXCEPT ![id] = "online"]
            /\ worker' = [worker EXCEPT ![w] = Identified(w, id)]
      /\ UNCHANGED <<workerUnchanged, queueVars, accessPoints, links, cdpLinks, platformByIp>>
  BY DEF Identify
<1>3. ip \in Ips /\ ip \in enqueuedIps /\ id \in Ids /\ Host(ip) \in Cids
  BY <1>1, <1>2, IdentifyingAt, AnswerTypes DEF TypeOK
<1>4. network.name[Host(ip)] \in Names \cup {None}
  BY <1>1, <1>3, NetworkFacts DEF TypeOK
<1> HIDE DEF id
<1>6. /\ status' \in [Ids -> Statuses]
      /\ \A i \in Ids : status[i] = "online" => status'[i] = "online"
  BY <1>1, <1>2, <1>3 DEF TypeOK, Statuses
<1>7. Grows /\ QueuedOK'
  BY <1>1, <1>2, <1>6 DEF Grows, QueuedOK, workerUnchanged, queueVars
<1>8. cidByName' \in [Names -> Ids \cup {None}]
  <2>1. cidByName \in [Names -> Ids \cup {None}]
    BY <1>1 DEF TypeOK
  <2>2. SetDefault(cidByName, network.name[Host(ip)], id) \in [Names -> Ids \cup {None}]
    BY <1>3, <1>4, <2>1, SetDefaultType
  <2> QED BY <1>2, <2>1, <2>2
<1>9. cidByIp' \in [Ips -> Ids \cup {None}] /\ seen' \subseteq Ids
  BY <1>1, <1>2, <1>3, SetDefaultType DEF TypeOK
<1>10. WorkersOK' /\ worker' \in [Workers -> WorkerStates]
  <2>1. CASE TaskDone(w)
    BY <1>1, <1>7, <2>1, TaskDoneOK
  <2>2. CASE /\ status' = [status EXCEPT ![id] = "online"]
             /\ worker' = [worker EXCEPT ![w] = Identified(w, id)]
    <3>1. worker \in [Workers -> WorkerStates] /\ status \in [Ids -> Statuses]
      BY <1>1 DEF TypeOK
    <3>2. /\ Identified(w, id) \in WorkerStates /\ Identified(w, id).step = "read"
          /\ Identified(w, id).ip = ip /\ Identified(w, id).id = id
          /\ Identified(w, id).lldp = worker[w].lldp /\ Identified(w, id).cdp = worker[w].cdp
      BY <1>3, <3>1, WorkerMoves
    <3>3. worker'[w] = Identified(w, id) /\ worker' \in [Workers -> WorkerStates]
      BY <2>2, <3>1, <3>2
    <3>4. WorkerOK(w)'
      BY <1>1, <1>2, <1>3, <2>2, <3>1, <3>2, <3>3
         DEF WorkersOK, WorkerOK, PollOK, Polling, Host, workerUnchanged, queueVars
    <3>5. WorkersOK'
      BY <1>1, <1>7, <2>2, <3>1, <3>4, OthersOK
    <3> QED BY <3>3, <3>5
  <2> QED BY <1>2, <2>1, <2>2
<1>11. TypeOK'
  BY <1>1, <1>2, <1>6, <1>8, <1>9, <1>10 DEF TypeOK, workerUnchanged, queueVars
<1> QED BY <1>7, <1>10, <1>11 DEF HoldsTrue

(* A worker that polls a device holds entries of that device's tables.     *)
LEMMA PollingFacts ==
  ASSUME TypeOK, WorkersOK, NEW w \in Workers, Polling(w)
  PROVE  /\ PollOK(w) /\ worker[w].ip \in Ips /\ Host(worker[w].ip) \in Cids
         /\ worker[w].id \in Ids
         /\ worker[w].lldp \subseteq LldpEntry /\ worker[w].cdp \subseteq CdpEntry
<1>1. PollOK(w)
  BY DEF WorkersOK, WorkerOK
<1>2. worker[w].ip \in Ips
  BY <1>1 DEF TypeOK, PollOK
<1>3. Host(worker[w].ip) \in Cids
  BY <1>1, <1>2, NetworkFacts DEF TypeOK, PollOK, Host
<1>4. worker[w].lldp \subseteq LldpEntry /\ worker[w].cdp \subseteq CdpEntry
  BY WorkerFields DEF TypeOK
<1> QED BY <1>1, <1>2, <1>3, <1>4 DEF PollOK

LEMMA ReadNeighborsStep ==
  ASSUME NEW w \in Workers PROVE HoldsTrue /\ ReadNeighbors(w) => HoldsTrue'
<1> SUFFICES ASSUME HoldsTrue, ReadNeighbors(w) PROVE HoldsTrue'
  OBVIOUS
<1>1. TypeOK /\ WorkersOK /\ QueuedOK
  BY DEF HoldsTrue
<1>2. /\ worker[w].step = "read" /\ worker' = [worker EXCEPT ![w] = TablesRead(w)]
      /\ UNCHANGED <<workerUnchanged, queueVars, recordVars, links, seen, lookupVars, cdpLinks,
                     platformByIp>>
  BY DEF ReadNeighbors
<1>3. PollOK(w) /\ Host(worker[w].ip) \in Cids
  BY <1>1, <1>2, PollingFacts DEF Polling
<1>4. worker \in [Workers -> WorkerStates]
  BY <1>1 DEF TypeOK
<1>5. /\ TablesRead(w) \in WorkerStates /\ TablesRead(w).step = "check"
      /\ TablesRead(w).ip = worker[w].ip /\ TablesRead(w).id = worker[w].id
      /\ TablesRead(w).lldp = network.lldp[Host(worker[w].ip)]
      /\ TablesRead(w).cdp \subseteq network.cdp[Host(worker[w].ip)]
  BY <1>1, <1>3, <1>4, TablesReadMove DEF TypeOK
<1>6. worker'[w] = TablesRead(w) /\ worker' \in [Workers -> WorkerStates]
  BY <1>2, <1>4, <1>5
<1>7. Grows /\ QueuedOK'
  BY <1>1, <1>2 DEF Grows, QueuedOK, workerUnchanged, queueVars, recordVars
<1>8. WorkerOK(w)'
  BY <1>2, <1>3, <1>5, <1>6 DEF WorkerOK, PollOK, Polling, Host, workerUnchanged, queueVars,
                                recordVars
<1>9. WorkersOK'
  BY <1>1, <1>2, <1>4, <1>7, <1>8, OthersOK
<1>10. TypeOK'
  BY <1>1, <1>2, <1>6 DEF TypeOK, workerUnchanged, queueVars, recordVars, lookupVars
<1> QED BY <1>7, <1>9, <1>10 DEF HoldsTrue

LEMMA MarkAccessPointStep ==
  ASSUME NEW w \in Workers PROVE HoldsTrue /\ MarkAccessPoint(w) => HoldsTrue'
<1> SUFFICES ASSUME HoldsTrue, MarkAccessPoint(w) PROVE HoldsTrue'
  OBVIOUS
<1>1. TypeOK /\ WorkersOK /\ QueuedOK
  BY DEF HoldsTrue
<1>2. /\ worker[w].step = "check" /\ worker' = [worker EXCEPT ![w] = Moved(w, "neighbors")]
      /\ accessPoints' = accessPoints \cup (IF worker[w].accessPoint THEN {worker[w].id} ELSE {})
      /\ UNCHANGED <<workerUnchanged, queueVars, status, links, seen, lookupVars, cdpLinks,
                     platformByIp>>
  BY DEF MarkAccessPoint
<1>3. PollOK(w) /\ worker[w].id \in Ids
  BY <1>1, <1>2, PollingFacts DEF Polling
<1>4. worker \in [Workers -> WorkerStates] /\ "neighbors" \in Steps
  BY <1>1 DEF TypeOK, Steps
<1>5. /\ Moved(w, "neighbors") \in WorkerStates /\ Moved(w, "neighbors").step = "neighbors"
      /\ Moved(w, "neighbors").ip = worker[w].ip /\ Moved(w, "neighbors").id = worker[w].id
      /\ Moved(w, "neighbors").lldp = worker[w].lldp /\ Moved(w, "neighbors").cdp = worker[w].cdp
  BY <1>4, WorkerMoves
<1>6. worker'[w] = Moved(w, "neighbors") /\ worker' \in [Workers -> WorkerStates]
  BY <1>2, <1>4, <1>5
<1>7. Grows /\ QueuedOK'
  BY <1>1, <1>2 DEF Grows, QueuedOK, workerUnchanged, queueVars
<1>8. WorkerOK(w)'
  BY <1>2, <1>3, <1>5, <1>6 DEF WorkerOK, PollOK, Polling, Host, workerUnchanged, queueVars
<1>9. WorkersOK'
  BY <1>1, <1>2, <1>4, <1>7, <1>8, OthersOK
<1>10. TypeOK'
  BY <1>1, <1>2, <1>3, <1>6 DEF TypeOK, workerUnchanged, queueVars, lookupVars
<1> QED BY <1>7, <1>9, <1>10 DEF HoldsTrue

LEMMA HandleNeighborStep ==
  ASSUME NEW w \in Workers PROVE HoldsTrue /\ HandleNeighbor(w) => HoldsTrue'
<1> SUFFICES ASSUME HoldsTrue, HandleNeighbor(w) PROVE HoldsTrue'
  OBVIOUS
<1>1. TypeOK /\ WorkersOK /\ QueuedOK
  BY DEF HoldsTrue
<1>2. PICK nb \in worker[w].lldp :
        /\ worker' = [worker EXCEPT ![w] = WithoutLldp(w, nb)]
        /\ links' = links \cup {Link(worker[w].id, LldpTarget(nb), "lldp")}
        /\ \/ Followed(nb) /\ Enqueue(nb.ip, LldpTarget(nb)) /\ UNCHANGED status
           \/ /\ ~Followed(nb) /\ status[LldpTarget(nb)] = "none"
              /\ status' = [status EXCEPT ![LldpTarget(nb)] = "discovered"]
              /\ seen' = seen \cup {LldpTarget(nb)}
              /\ UNCHANGED queueVars
           \/ /\ ~Followed(nb) /\ status[LldpTarget(nb)] # "none"
              /\ UNCHANGED <<queueVars, seen, status>>
  BY DEF HandleNeighbor
<1>3. worker[w].step = "neighbors"
      /\ UNCHANGED <<workerUnchanged, accessPoints, lookupVars, cdpLinks, platformByIp>>
  BY DEF HandleNeighbor
<1>4. PollOK(w) /\ worker[w].id \in Ids /\ worker[w].lldp \subseteq LldpEntry
  BY <1>1, <1>3, PollingFacts DEF Polling
<1>5. worker \in [Workers -> WorkerStates]
  BY <1>1 DEF TypeOK
<1>6. LldpTarget(nb) \in Ids /\ nb.ip \in Ips \cup {None}
  BY <1>2, <1>4, EntryFacts
<1>7. links' \subseteq Links
  BY <1>1, <1>2, <1>4, <1>6 DEF TypeOK, Links, Link
<1>8. /\ status' \in [Ids -> Statuses]
      /\ \A i \in Ids : status[i] = "online" => status'[i] = "online"
  BY <1>1, <1>2, <1>6 DEF TypeOK, Statuses
<1>9. /\ queue' \in Seq(Items \cup {Stop}) /\ enqueuedIps' \subseteq Ips
      /\ reserved' \in 0 .. MaxNodes /\ seen' \subseteq Ids
      /\ QueuedOK' /\ enqueuedIps \subseteq enqueuedIps'
  <2>1. CASE Followed(nb) /\ Enqueue(nb.ip, LldpTarget(nb))
    <3>1. nb.ip \in Ips
      BY <1>6, <2>1 DEF Followed
    <3> QED BY <1>1, <1>6, <2>1, <3>1, EnqueueEffect, EnqueueKeepsQueued DEF TypeOK
  <2>2. CASE UNCHANGED queueVars /\ seen' \in {seen, seen \cup {LldpTarget(nb)}}
    BY <1>1, <1>6, <2>2 DEF TypeOK, queueVars, QueuedOK
  <2> QED BY <1>2, <2>1, <2>2
<1>10. Grows
  BY <1>3, <1>8, <1>9 DEF Grows, workerUnchanged
<1>11. /\ WithoutLldp(w, nb) \in WorkerStates /\ WithoutLldp(w, nb).step = "neighbors"
       /\ WithoutLldp(w, nb).ip = worker[w].ip /\ WithoutLldp(w, nb).id = worker[w].id
       /\ WithoutLldp(w, nb).lldp \subseteq worker[w].lldp
       /\ WithoutLldp(w, nb).cdp = worker[w].cdp
  BY <1>3, <1>5, WorkerMoves
<1>12. worker'[w] = WithoutLldp(w, nb) /\ worker' \in [Workers -> WorkerStates]
  BY <1>2, <1>5, <1>11
<1>13. WorkerOK(w)'
  BY <1>3, <1>4, <1>8, <1>9, <1>11, <1>12
     DEF WorkerOK, PollOK, Polling, Host, workerUnchanged
<1>14. WorkersOK'
  BY <1>1, <1>2, <1>5, <1>10, <1>13, OthersOK
<1>15. TypeOK'
  BY <1>1, <1>3, <1>7, <1>8, <1>9, <1>12 DEF TypeOK, workerUnchanged, lookupVars
<1> QED BY <1>9, <1>14, <1>15 DEF HoldsTrue

LEMMA HandleCdpNeighborStep ==
  ASSUME NEW w \in Workers PROVE HoldsTrue /\ HandleCdpNeighbor(w) => HoldsTrue'
<1> SUFFICES ASSUME HoldsTrue, HandleCdpNeighbor(w) PROVE HoldsTrue'
  OBVIOUS
<1>1. TypeOK /\ WorkersOK /\ QueuedOK
  BY DEF HoldsTrue
<1>2. PICK c \in worker[w].cdp :
        /\ worker' = [worker EXCEPT ![w] = WithoutCdp(w, c)]
        /\ cdpLinks' = cdpLinks \cup {[source |-> worker[w].id, entry |-> c]}
        /\ platformByIp' = SetDefault(platformByIp, c.ip, c.platform)
        /\ IF CdpTarget(c) = None /\ c.ip # None THEN Enqueue(c.ip, None)
           ELSE UNCHANGED <<queueVars, seen>>
  BY DEF HandleCdpNeighbor
<1>3. worker[w].step = "neighbors" /\ UNCHANGED <<workerUnchanged, recordVars, links, lookupVars>>
  BY DEF HandleCdpNeighbor
<1>4. PollOK(w) /\ worker[w].id \in Ids /\ worker[w].cdp \subseteq CdpEntry
  BY <1>1, <1>3, PollingFacts DEF Polling
<1>5. worker \in [Workers -> WorkerStates]
  BY <1>1 DEF TypeOK
<1>6. c \in CdpEntry /\ c.ip \in Ips \cup {None}
  BY <1>2, <1>4, EntryFacts
<1>7. /\ cdpLinks' \subseteq [source : Ids, entry : CdpEntry]
      /\ platformByIp' \in [Ips -> Platforms \cup {None}]
  <2>1. c.platform \in Platforms \cup {None}
    BY <1>6 DEF CdpEntry
  <2>2. platformByIp' \in [Ips -> Platforms \cup {None}]
    BY <1>1, <1>2, <1>6, <2>1, SetDefaultType DEF TypeOK
  <2> QED BY <1>1, <1>2, <1>4, <1>6, <2>2 DEF TypeOK
<1>8. /\ queue' \in Seq(Items \cup {Stop}) /\ enqueuedIps' \subseteq Ips
      /\ reserved' \in 0 .. MaxNodes /\ seen' \subseteq Ids
      /\ QueuedOK' /\ enqueuedIps \subseteq enqueuedIps'
  <2>1. CASE c.ip # None /\ Enqueue(c.ip, None)
    <3>1. c.ip \in Ips
      BY <1>6, <2>1
    <3> QED BY <1>1, <2>1, <3>1, EnqueueEffect, EnqueueKeepsQueued DEF TypeOK
  <2>2. CASE UNCHANGED <<queueVars, seen>>
    BY <1>1, <2>2 DEF TypeOK, queueVars, QueuedOK
  <2> QED BY <1>2, <2>1, <2>2
<1>9. Grows
  BY <1>3, <1>8 DEF Grows, workerUnchanged, recordVars
<1>10. /\ WithoutCdp(w, c) \in WorkerStates /\ WithoutCdp(w, c).step = "neighbors"
       /\ WithoutCdp(w, c).ip = worker[w].ip /\ WithoutCdp(w, c).id = worker[w].id
       /\ WithoutCdp(w, c).lldp = worker[w].lldp
       /\ WithoutCdp(w, c).cdp \subseteq worker[w].cdp
  BY <1>3, <1>5, WorkerMoves
<1>11. worker'[w] = WithoutCdp(w, c) /\ worker' \in [Workers -> WorkerStates]
  BY <1>2, <1>5, <1>10
<1>12. WorkerOK(w)'
  BY <1>3, <1>4, <1>8, <1>10, <1>11
     DEF WorkerOK, PollOK, Polling, Host, workerUnchanged, recordVars
<1>13. WorkersOK'
  BY <1>1, <1>2, <1>5, <1>9, <1>12, OthersOK
<1>14. TypeOK'
  BY <1>1, <1>3, <1>7, <1>8, <1>11 DEF TypeOK, workerUnchanged, recordVars, lookupVars
<1> QED BY <1>8, <1>13, <1>14 DEF HoldsTrue

LEMMA ReadTablesStep == ASSUME NEW w \in Workers PROVE HoldsTrue /\ ReadTables(w) => HoldsTrue'
<1> SUFFICES ASSUME HoldsTrue, ReadTables(w) PROVE HoldsTrue'
  OBVIOUS
<1>1. TypeOK /\ WorkersOK /\ QueuedOK
  BY DEF HoldsTrue
<1>2. /\ TaskDone(w)
      /\ UNCHANGED <<workerUnchanged, queueVars, recordVars, links, seen, lookupVars, cdpLinks,
                     platformByIp>>
  BY DEF ReadTables
<1>3. Grows /\ QueuedOK'
  BY <1>1, <1>2 DEF Grows, QueuedOK, workerUnchanged, queueVars, recordVars
<1>4. WorkersOK' /\ worker' \in [Workers -> WorkerStates]
  BY <1>1, <1>2, <1>3, TaskDoneOK
<1>5. TypeOK'
  BY <1>1, <1>2, <1>4 DEF TypeOK, workerUnchanged, queueVars, recordVars, lookupVars
<1> QED BY <1>3, <1>4, <1>5 DEF HoldsTrue

LEMMA FailsStep == ASSUME NEW w \in Workers PROVE HoldsTrue /\ Fails(w) => HoldsTrue'
<1> SUFFICES ASSUME HoldsTrue, Fails(w) PROVE HoldsTrue'
  OBVIOUS
<1>1. TypeOK /\ WorkersOK /\ QueuedOK
  BY DEF HoldsTrue
<1>2. /\ worker[w].step \in {"identify", "read", "check"}
      /\ failures' = failures \cup {worker[w].ip} /\ TaskDone(w)
      /\ UNCHANGED <<network, main, seeds, queueVars, recordVars, links, seen, lookupVars,
                     cdpLinks, platformByIp>>
  BY DEF Fails
<1>3. worker[w].ip \in Ips
  BY <1>1, <1>2, IdentifyingAt, PollingFacts DEF Polling
<1>4. Grows /\ QueuedOK'
  BY <1>1, <1>2 DEF Grows, QueuedOK, queueVars, recordVars
<1>5. WorkersOK' /\ worker' \in [Workers -> WorkerStates]
  BY <1>1, <1>2, <1>4, TaskDoneOK
<1>6. TypeOK'
  BY <1>1, <1>2, <1>3, <1>5 DEF TypeOK, queueVars, recordVars, lookupVars
<1> QED BY <1>4, <1>5, <1>6 DEF HoldsTrue

(* The stops alone are in the queue once run() has put them there.         *)
LEMMA StopsType ==
  /\ Stops \in Seq(Items \cup {Stop}) /\ Len(Stops) = Cardinality(Workers)
  /\ \A i \in DOMAIN Stops : Stops[i] = Stop
<1>1. Cardinality(Workers) \in Nat
  BY CrawlConstants, FS_CardinalityType
<1> QED BY <1>1 DEF Stops

LEMMA StopWorkersStep == HoldsTrue /\ StopWorkers => HoldsTrue'
<1> SUFFICES ASSUME HoldsTrue, StopWorkers PROVE HoldsTrue'
  OBVIOUS
<1>1. TypeOK /\ WorkersOK /\ QueuedOK
  BY DEF HoldsTrue
<1>2. /\ \/ queue' = Stops /\ main' = "stopping"
         \/ main' = "failed" /\ UNCHANGED queue
      /\ UNCHANGED <<network, seeds, enqueuedIps, reserved, worker, recordVars, links, seen,
                     lookupVars, cdpLinks, platformByIp, failures>>
  BY DEF StopWorkers
<1>3. queue' \in Seq(Items \cup {Stop}) /\ QueuedOK' /\ main' \in Mains
  BY <1>1, <1>2, StopsType DEF TypeOK, QueuedOK, Mains
<1>4. Grows
  BY <1>2 DEF Grows, recordVars
<1>5. WorkersOK'
  BY <1>1, <1>2, <1>4, WorkerFrame DEF WorkersOK
<1>6. TypeOK'
  BY <1>1, <1>2, <1>3 DEF TypeOK, recordVars, lookupVars
<1> QED BY <1>3, <1>5, <1>6 DEF HoldsTrue

LEMMA ResolveCdpLinksStep == HoldsTrue /\ ResolveCdpLinks => HoldsTrue'
<1> SUFFICES ASSUME HoldsTrue, ResolveCdpLinks PROVE HoldsTrue'
  OBVIOUS
<1> DEFINE targets == {ResolvedTarget(k.entry) : k \in cdpLinks}
           named == {ResolvedTarget(k.entry) : k \in {l \in cdpLinks : l.entry.platform = "access point"}}
           kept == {l \in cdpLinks : /\ ResolvedTarget(l.entry) # l.source
                                     /\ ~LldpLinked(l.source, ResolvedTarget(l.entry))}
           new == {Link(k.source, ResolvedTarget(k.entry), "cdp") : k \in kept}
<1>1. TypeOK /\ WorkersOK /\ QueuedOK
  BY DEF HoldsTrue
<1>2. /\ main' = "done" /\ status' = WithPlaceholders(targets)
      /\ seen' = seen \cup {i \in targets : status[i] = "none"}
      /\ accessPoints' = accessPoints \cup {i \in named : status[i] # "online"}
      /\ links' = links \cup new
      /\ UNCHANGED <<network, seeds, queueVars, worker, lookupVars, cdpLinks, platformByIp,
                     failures>>
  BY DEF ResolveCdpLinks
<1>3. ASSUME NEW k \in cdpLinks
      PROVE  k.source \in Ids /\ ResolvedTarget(k.entry) \in Ids
  <2>1. k.source \in Ids /\ k.entry \in CdpEntry
    BY <1>1 DEF TypeOK
  <2>2. ResolvedTarget(k.entry) \in Ids
    BY <1>1, <2>1, CdpTargetType DEF TypeOK
  <2> QED BY <2>1, <2>2
<1>4. targets \subseteq Ids /\ named \subseteq Ids
  BY <1>3
<1>5. new \subseteq Links
  BY <1>3 DEF Links, Link
<1> HIDE DEF targets, named, new
<1>6. /\ status' \in [Ids -> Statuses]
      /\ \A i \in Ids : status[i] = "online" => status'[i] = "online"
  BY <1>1, <1>2 DEF TypeOK, WithPlaceholders, Statuses
<1>7. Grows /\ QueuedOK'
  BY <1>1, <1>2, <1>6 DEF Grows, QueuedOK, queueVars
<1>8. WorkersOK'
  BY <1>1, <1>2, <1>7, WorkerFrame DEF WorkersOK
<1>9. "done" \in Mains
  BY DEF Mains
<1>10. seen' \subseteq Ids /\ accessPoints' \subseteq Ids /\ links' \subseteq Links
  BY <1>1, <1>2, <1>4, <1>5 DEF TypeOK
<1>11. TypeOK'
  BY <1>1, <1>2, <1>6, <1>9, <1>10 DEF TypeOK, queueVars, lookupVars
<1> QED BY <1>7, <1>8, <1>11 DEF HoldsTrue

LEMMA StutterStep == HoldsTrue /\ UNCHANGED vars => HoldsTrue'
<1> SUFFICES ASSUME HoldsTrue, UNCHANGED vars PROVE HoldsTrue'
  OBVIOUS
<1>1. TypeOK /\ WorkersOK /\ QueuedOK
  BY DEF HoldsTrue
<1>2. TypeOK'
  BY <1>1 DEF vars, TypeOK, queueVars, recordVars, lookupVars
<1>3. Grows /\ QueuedOK'
  BY <1>1 DEF vars, Grows, QueuedOK, queueVars, recordVars
<1>4. WorkersOK'
  BY <1>1, <1>3, WorkerFrame DEF WorkersOK, vars
<1> QED BY <1>2, <1>3, <1>4 DEF HoldsTrue

LEMMA HoldsTrueNext == HoldsTrue /\ [Next]_vars => HoldsTrue'
<1>1. ASSUME HoldsTrue, MainNext PROVE HoldsTrue'
  BY <1>1, SeedStep, StartStep, StopWorkersStep, ResolveCdpLinksStep DEF MainNext
<1>2. ASSUME HoldsTrue, NEW w \in Workers, WorkerNext(w) \/ Fails(w) PROVE HoldsTrue'
  BY <1>2, TakeStep, UnpollableStep, IdentifyStep, ReadNeighborsStep, MarkAccessPointStep,
     HandleNeighborStep, HandleCdpNeighborStep, ReadTablesStep, FailsStep DEF WorkerNext
<1> QED BY <1>1, <1>2, StutterStep DEF Next

(* What the workers hold is true of the network in every state.            *)
THEOREM HoldsTrueAlways == Spec => []HoldsTrue
BY HoldsTrueInit, HoldsTrueNext, PTL DEF Spec

(* Type correctness, with the cap: whatever the network and however many   *)
(* workers reserve addresses, _enqueue never reserves more than MaxNodes.  *)
THEOREM TypeCorrect == Spec => []TypeOK
<1>1. HoldsTrue => TypeOK
  BY DEF HoldsTrue
<1> QED BY <1>1, HoldsTrueAlways, PTL

(* No step takes "online" from a device.                                   *)
StaysOnline == \A i \in Ids : status[i] = "online" => status'[i] = "online"

LEMMA StaysOnlineNext == HoldsTrue /\ [Next]_vars => StaysOnline
<1> SUFFICES ASSUME HoldsTrue, [Next]_vars, NEW i \in Ids, status[i] = "online"
             PROVE  status'[i] = "online"
  BY DEF StaysOnline
<1>1. status \in [Ids -> Statuses]
  BY DEF HoldsTrue, TypeOK
<1>2. CASE UNCHANGED status
  BY <1>2
<1>3. ASSUME NEW w \in Workers, Unpollable(w) PROVE status'[i] = "online"
  BY <1>1, <1>3 DEF Unpollable, Unreachable
<1>4. ASSUME NEW w \in Workers, Identify(w) PROVE status'[i] = "online"
  BY <1>1, <1>4 DEF Identify
<1>5. ASSUME NEW w \in Workers, HandleNeighbor(w) PROVE status'[i] = "online"
  BY <1>1, <1>5 DEF HandleNeighbor
<1>6. ASSUME ResolveCdpLinks PROVE status'[i] = "online"
  BY <1>1, <1>6 DEF ResolveCdpLinks, WithPlaceholders
<1>7. ASSUME MainNext PROVE status'[i] = "online"
  BY <1>2, <1>6, <1>7 DEF MainNext, Seed, Start, StopWorkers, recordVars
<1>8. ASSUME NEW w \in Workers, WorkerNext(w) \/ Fails(w) PROVE status'[i] = "online"
  BY <1>2, <1>3, <1>4, <1>5, <1>8
     DEF WorkerNext, Take, ReadNeighbors, MarkAccessPoint, HandleCdpNeighbor, ReadTables, Fails,
         recordVars
<1>9. UNCHANGED vars => UNCHANGED status
  BY DEF vars, recordVars
<1> QED BY <1>2, <1>7, <1>8, <1>9 DEF Next

(* _record_unpollable_ip and _record_polled_device: whatever its other     *)
(* addresses answer, a device once polled keeps its "online".              *)
THEOREM PolledForGood == Spec => PolledStaysPolled
<1>1. HoldsTrue /\ [Next]_vars => [StaysOnline]_vars
  BY StaysOnlineNext
<1>2. Spec => [][StaysOnline]_vars
  BY <1>1, HoldsTrueAlways, PTL DEF Spec
<1> QED BY <1>2 DEF PolledStaysPolled, StaysOnline

-----------------------------------------------------------------------------
(* Where each address is.  An address that was queued is in the queue, or  *)
(* at one worker that asks it who it is, or settled: it is in one of these *)
(* places only, and once the workers are stopped all are settled.          *)
Asking(w) == worker[w].step = "identify"

QueueDistinct ==
  \A i, j \in DOMAIN queue :
    i # j /\ queue[i] # Stop /\ queue[j] # Stop => queue[i].ip # queue[j].ip
QueuedNotSettled == \A ip \in Ips : Queued(ip) => ~Settled(ip)
AskedNotElsewhere ==
  /\ \A w \in Workers : Asking(w) => ~Queued(worker[w].ip) /\ ~Settled(worker[w].ip)
  /\ \A v, w \in Workers : v # w /\ Asking(v) /\ Asking(w) => worker[v].ip # worker[w].ip
PolledIsSettled == \A w \in Workers : Polling(w) => cidByIp[worker[w].ip] = worker[w].id
SettledWasQueued == \A ip \in Ips : Settled(ip) => ip \in enqueuedIps
Accounted ==
  \A ip \in enqueuedIps :
    Queued(ip) \/ Settled(ip) \/ \E w \in Workers : Asking(w) /\ worker[w].ip = ip
Crawling == main \in {"seeding", "joining"}
Ends ==
  IF Crawling THEN Len(queue) <= reserved
  ELSE /\ \A w \in Workers : ~Asking(w) /\ ~Polling(w)
       /\ \A i \in DOMAIN queue : queue[i] = Stop

Places == QueueDistinct /\ QueuedNotSettled /\ AskedNotElsewhere /\ PolledIsSettled
          /\ SettledWasQueued /\ Accounted
PoolInv == Places /\ Ends

(* What queueing and taking an item do to the queued addresses.            *)
LEMMA QueuedFacts ==
  ASSUME HoldsTrue
  PROVE  /\ Len(queue) \in Nat /\ DOMAIN queue = 1 .. Len(queue)
         /\ \A ip : Queued(ip) => ip \in enqueuedIps /\ ip \in Ips
BY LenProperties DEF HoldsTrue, TypeOK, QueuedOK, Queued

LEMMA EnqueuedEffect ==
  ASSUME HoldsTrue, QueueDistinct, NEW ip \in Ips, NEW cid \in Ids \cup {None}, Enqueue(ip, cid)
  PROVE  \/ UNCHANGED <<queue, enqueuedIps, reserved>>
         \/ /\ ip \notin enqueuedIps /\ enqueuedIps' = enqueuedIps \cup {ip}
            /\ QueueDistinct'
            /\ \A x : Queued(x)' <=> Queued(x) \/ x = ip
            /\ Len(queue') = Len(queue) + 1 /\ reserved' = reserved + 1
<1> SUFFICES ASSUME ~UNCHANGED <<queue, enqueuedIps, reserved>>
             PROVE  /\ ip \notin enqueuedIps /\ enqueuedIps' = enqueuedIps \cup {ip}
                    /\ QueueDistinct'
                    /\ \A x : Queued(x)' <=> Queued(x) \/ x = ip
                    /\ Len(queue') = Len(queue) + 1 /\ reserved' = reserved + 1
  OBVIOUS
<1>1. /\ ip \notin enqueuedIps /\ enqueuedIps' = enqueuedIps \cup {ip}
      /\ queue' \in Seq(Items \cup {Stop})
      /\ reserved' = reserved + 1 /\ Len(queue') = Len(queue) + 1
      /\ \A i \in 1 .. Len(queue) : queue'[i] = queue[i]
      /\ queue'[Len(queue) + 1] = Item(ip, cid)
      /\ Item(ip, cid).ip = ip /\ Item(ip, cid) # Stop
  BY EnqueueEffect DEF HoldsTrue, TypeOK
<1>2. /\ Len(queue) \in Nat /\ DOMAIN queue = 1 .. Len(queue)
      /\ ~Queued(ip)
  BY <1>1, QueuedFacts
<1>3. DOMAIN queue' = 1 .. Len(queue) + 1
  BY <1>1, LenProperties
<1>4. QueueDistinct'
  BY <1>1, <1>2, <1>3 DEF QueueDistinct, Queued
<1>5. \A x : Queued(x)' <=> Queued(x) \/ x = ip
  BY <1>1, <1>2, <1>3 DEF Queued
<1> QED BY <1>1, <1>4, <1>5

LEMMA TakenEffect ==
  ASSUME HoldsTrue, QueueDistinct, queue # <<>>, queue' = Tail(queue)
  PROVE  /\ QueueDistinct' /\ Len(queue') = Len(queue) - 1
         /\ \A x : Queued(x)' <=> Queued(x) /\ (Head(queue) = Stop \/ x # Head(queue).ip)
         /\ Head(queue) # Stop => Queued(Head(queue).ip)
         /\ (\A i \in DOMAIN queue : queue[i] = Stop) =>
              Head(queue) = Stop /\ \A i \in DOMAIN queue' : queue'[i] = Stop
<1>1. queue \in Seq(Items \cup {Stop})
  BY DEF HoldsTrue, TypeOK
<1>2. /\ queue' \in Seq(Items \cup {Stop}) /\ Len(queue') = Len(queue) - 1
      /\ \A i \in 1 .. Len(queue') : queue'[i] = queue[i + 1]
  BY <1>1, HeadTailProperties
<1>3. /\ DOMAIN queue = 1 .. Len(queue) /\ DOMAIN queue' = 1 .. Len(queue')
      /\ Len(queue) \in Nat \ {0}
  BY <1>1, <1>2, LenProperties, EmptySeq
<1>4. Head(queue) = queue[1]
  BY <1>1, <1>3
<1>5. QueueDistinct'
  BY <1>2, <1>3 DEF QueueDistinct
<1>6. Head(queue) # Stop => Queued(Head(queue).ip)
  BY <1>3, <1>4 DEF Queued
<1>7. ASSUME NEW x, Queued(x)'
      PROVE  Queued(x) /\ (Head(queue) = Stop \/ x # Head(queue).ip)
  BY <1>2, <1>3, <1>4, <1>7 DEF Queued, QueueDistinct
<1>8. ASSUME NEW x, Queued(x), Head(queue) = Stop \/ x # Head(queue).ip
      PROVE  Queued(x)'
  <2>1. PICK i \in DOMAIN queue : queue[i] # Stop /\ queue[i].ip = x
    BY <1>8 DEF Queued
  <2>2. i # 1
    BY <1>4, <1>8, <2>1
  <2>3. i - 1 \in DOMAIN queue' /\ queue'[i - 1] = queue[i]
    BY <1>2, <1>3, <2>1, <2>2
  <2> QED BY <2>1, <2>3 DEF Queued
<1>9. (\A i \in DOMAIN queue : queue[i] = Stop) =>
        Head(queue) = Stop /\ \A i \in DOMAIN queue' : queue'[i] = Stop
  BY <1>2, <1>3, <1>4
<1> QED BY <1>2, <1>5, <1>6, <1>7, <1>8, <1>9

(* A step in which no worker takes, identifies or finishes an address.     *)
SameStations ==
  \A w \in Workers : /\ Asking(w)' <=> Asking(w)
                     /\ Polling(w)' <=> Polling(w)
                     /\ worker'[w].ip = worker[w].ip
                     /\ Polling(w) => worker'[w].id = worker[w].id
SameAnswers == UNCHANGED <<cidByIp, failures>>

LEMMA StationsFrame ==
  ASSUME worker \in [Workers -> WorkerStates], NEW w \in Workers, NEW state,
         worker' = [worker EXCEPT ![w] = state],
         state.ip = worker[w].ip, state.id = worker[w].id, Polling(w),
         state.step \in {"read", "check", "neighbors"}
  PROVE  SameStations
<1> SUFFICES ASSUME NEW v \in Workers
             PROVE  /\ Asking(v)' <=> Asking(v)
                    /\ Polling(v)' <=> Polling(v)
                    /\ worker'[v].ip = worker[v].ip
                    /\ Polling(v) => worker'[v].id = worker[v].id
  BY DEF SameStations
<1>1. CASE v = w
  BY <1>1 DEF Asking, Polling
<1>2. CASE v # w
  BY <1>2 DEF Asking, Polling
<1> QED BY <1>1, <1>2

LEMMA KeepPlaces ==
  ASSUME Places, SameStations, SameAnswers, UNCHANGED <<queue, enqueuedIps>>
  PROVE  Places'
<1>1. \A x : (Queued(x)' <=> Queued(x)) /\ (Settled(x)' <=> Settled(x))
  BY DEF Queued, Settled, SameAnswers
<1>2. QueueDistinct' /\ QueuedNotSettled' /\ SettledWasQueued'
  BY <1>1 DEF Places, QueueDistinct, QueuedNotSettled, SettledWasQueued
<1>3. AskedNotElsewhere'
  BY <1>1 DEF Places, AskedNotElsewhere, SameStations
<1>4. PolledIsSettled'
  BY DEF Places, PolledIsSettled, SameStations, SameAnswers
<1>5. Accounted'
  BY <1>1 DEF Places, Accounted, SameStations
<1> QED BY <1>2, <1>3, <1>4, <1>5 DEF Places

LEMMA AddPlace ==
  ASSUME HoldsTrue, Places, SameStations, SameAnswers,
         NEW ip \in Ips, NEW cid \in Ids \cup {None}, Enqueue(ip, cid)
  PROVE  /\ Places'
         /\ Len(queue) <= reserved => Len(queue') <= reserved'
<1>1. CASE UNCHANGED <<queue, enqueuedIps, reserved>>
  BY <1>1, KeepPlaces
<1>2. CASE ~UNCHANGED <<queue, enqueuedIps, reserved>>
  <2>1. /\ ip \notin enqueuedIps /\ enqueuedIps' = enqueuedIps \cup {ip}
        /\ QueueDistinct' /\ \A x : Queued(x)' <=> Queued(x) \/ x = ip
        /\ Len(queue') = Len(queue) + 1 /\ reserved' = reserved + 1
    BY <1>2, EnqueuedEffect DEF Places
  <2>2. \A x : Settled(x)' <=> Settled(x)
    BY DEF Settled, SameAnswers
  <2>3. ~Settled(ip) /\ \A w \in Workers : Asking(w) => worker[w].ip # ip
    BY <2>1 DEF Places, SettledWasQueued, HoldsTrue, WorkersOK, WorkerOK, Asking
  <2>4. QueuedNotSettled' /\ SettledWasQueued'
    BY <2>1, <2>2, <2>3 DEF Places, QueuedNotSettled, SettledWasQueued
  <2>5. AskedNotElsewhere'
    BY <2>1, <2>2, <2>3 DEF Places, AskedNotElsewhere, SameStations
  <2>6. PolledIsSettled'
    BY DEF Places, PolledIsSettled, SameStations, SameAnswers
  <2>7. Accounted'
    BY <2>1, <2>2 DEF Places, Accounted, SameStations
  <2>8. Len(queue) <= reserved => Len(queue') <= reserved'
    BY <2>1, QueuedFacts DEF HoldsTrue, TypeOK
  <2> QED BY <2>1, <2>4, <2>5, <2>6, <2>7, <2>8 DEF Places
<1> QED BY <1>1, <1>2

(* A step in which worker w, and no other, is done asking for its address, *)
(* or done with the device there: the address is settled.                  *)
LEMMA SettlePlace ==
  ASSUME HoldsTrue, Places, NEW w \in Workers, NEW state, worker' = [worker EXCEPT ![w] = state],
         Asking(w) \/ Polling(w), UNCHANGED <<queue, enqueuedIps>>,
         \A x \in Ips : cidByIp[x] # None => cidByIp'[x] = cidByIp[x],
         \A x \in Ips : Settled(x)' <=> Settled(x) \/ x = worker[w].ip,
         state.step # "identify",
         state.step \in {"read", "check", "neighbors"} => cidByIp'[state.ip] = state.id
  PROVE  Places'
<1>1. worker \in [Workers -> WorkerStates] /\ enqueuedIps \subseteq Ips
  BY DEF HoldsTrue, TypeOK
<1>2. /\ worker'[w] = state /\ \A v \in Workers \ {w} : worker'[v] = worker[v]
  BY <1>1
<1>3. worker[w].ip \in enqueuedIps
  BY DEF HoldsTrue, WorkersOK, WorkerOK, PollOK, Asking
<1>4. \A v \in Workers : Asking(v) \/ Polling(v) => worker[v].ip \in Ips
  BY <1>1 DEF HoldsTrue, WorkersOK, WorkerOK, PollOK, Asking
<1>5. \A x : Queued(x)' <=> Queued(x)
  BY DEF Queued
<1>6. ~Queued(worker[w].ip)
  <2>1. CASE Asking(w)
    BY <2>1 DEF Places, AskedNotElsewhere
  <2>2. CASE Polling(w)
    <3>1. worker[w].id # None /\ worker[w].ip \in Ips
      BY <2>2, <1>4, IdFacts DEF HoldsTrue, WorkersOK, WorkerOK, PollOK
    <3>2. Settled(worker[w].ip)
      BY <2>2, <3>1 DEF Places, PolledIsSettled, Settled
    <3> QED BY <3>1, <3>2 DEF Places, QueuedNotSettled
  <2> QED BY <2>1, <2>2
<1>7. QueueDistinct'
  BY DEF Places, QueueDistinct
<1>8. QueuedNotSettled' /\ SettledWasQueued'
  BY <1>3, <1>5, <1>6 DEF Places, QueuedNotSettled, SettledWasQueued
<1>9. \A v \in Workers \ {w} : /\ Asking(v)' <=> Asking(v)
                               /\ Polling(v)' <=> Polling(v)
  BY <1>2 DEF Asking, Polling
<1>10. ~Asking(w)'
  BY <1>2 DEF Asking
<1>11. \A v \in Workers \ {w} : Asking(v) => worker[v].ip # worker[w].ip
  <2> SUFFICES ASSUME NEW v \in Workers \ {w}, Asking(v) PROVE worker[v].ip # worker[w].ip
    OBVIOUS
  <2>1. CASE Asking(w)
    BY <2>1 DEF Places, AskedNotElsewhere
  <2>2. CASE Polling(w)
    <3>1. worker[w].id # None
      BY <2>2, IdFacts DEF HoldsTrue, WorkersOK, WorkerOK, PollOK
    <3>2. Settled(worker[w].ip)
      BY <2>2, <3>1 DEF Places, PolledIsSettled, Settled
    <3> QED BY <3>2 DEF Places, AskedNotElsewhere
  <2> QED BY <2>1, <2>2
<1>12. AskedNotElsewhere'
  BY <1>2, <1>4, <1>5, <1>9, <1>10, <1>11 DEF Places, AskedNotElsewhere
<1>13. PolledIsSettled'
  <2> SUFFICES ASSUME NEW v \in Workers, Polling(v)'
               PROVE  cidByIp'[worker'[v].ip] = worker'[v].id
    BY DEF PolledIsSettled
  <2>1. CASE v = w
    BY <1>2, <2>1 DEF Polling
  <2>2. CASE v # w
    <3>1. Polling(v) /\ worker'[v] = worker[v] /\ worker[v].ip \in Ips
      BY <1>2, <1>4, <1>9, <2>2
    <3>2. cidByIp[worker[v].ip] = worker[v].id /\ worker[v].id # None
      BY <3>1, IdFacts DEF Places, PolledIsSettled, HoldsTrue, WorkersOK, WorkerOK, PollOK
    <3> QED BY <3>1, <3>2
  <2> QED BY <2>1, <2>2
<1>14. Accounted'
  <2> SUFFICES ASSUME NEW ip \in enqueuedIps
               PROVE  \/ Queued(ip)' \/ Settled(ip)'
                      \/ \E v \in Workers : Asking(v)' /\ worker'[v].ip = ip
    BY DEF Accounted
  <2>1. CASE \E v \in Workers : Asking(v) /\ worker[v].ip = ip
    BY <1>1, <1>2, <1>9, <2>1
  <2>2. CASE Queued(ip) \/ Settled(ip)
    BY <1>1, <1>5, <2>2
  <2> QED BY <2>1, <2>2 DEF Places, Accounted
<1> QED BY <1>7, <1>8, <1>12, <1>13, <1>14 DEF Places

(* A worker takes an address: it leaves the queue and is nowhere else.     *)
LEMMA TakePlace ==
  ASSUME HoldsTrue, Places, NEW w \in Workers, Take(w)
  PROVE  Places'
<1> DEFINE next == IF Head(queue) = Stop THEN At("stopped", None, None)
                   ELSE At("identify", Head(queue).ip, Head(queue).expected)
<1>1. worker \in [Workers -> WorkerStates] /\ enqueuedIps \subseteq Ips
  BY DEF HoldsTrue, TypeOK
<1>2. /\ queue # <<>> /\ queue' = Tail(queue) /\ worker[w].step = "idle"
      /\ worker' = [worker EXCEPT ![w] = next]
      /\ UNCHANGED <<enqueuedIps, cidByIp, failures>>
  BY DEF Take, lookupVars
<1>3. /\ QueueDistinct'
      /\ \A x : Queued(x)' <=> Queued(x) /\ (Head(queue) = Stop \/ x # Head(queue).ip)
      /\ Head(queue) # Stop => Queued(Head(queue).ip)
  BY <1>2, TakenEffect DEF Places
<1>4. /\ worker'[w] = next /\ \A v \in Workers \ {w} : worker'[v] = worker[v]
      /\ ~Polling(w)'
      /\ Asking(w)' => Head(queue) # Stop /\ worker'[w].ip = Head(queue).ip
      /\ Head(queue) # Stop => Asking(w)' /\ worker'[w].ip = Head(queue).ip
  BY <1>1, <1>2 DEF At, Asking, Polling
<1> HIDE DEF next
<1>5. \A v \in Workers \ {w} : /\ Asking(v)' <=> Asking(v)
                               /\ Polling(v)' <=> Polling(v)
  BY <1>4 DEF Asking, Polling
<1>6. \A x : Settled(x)' <=> Settled(x)
  BY <1>2 DEF Settled
<1>7. \A v \in Workers : Asking(v) => worker[v].ip \in Ips /\ ~Queued(worker[v].ip)
  BY <1>1 DEF Places, AskedNotElsewhere, HoldsTrue, WorkersOK, WorkerOK, Asking
<1>8. Head(queue) # Stop => Head(queue).ip \in Ips /\ ~Settled(Head(queue).ip)
  BY <1>3, QueuedFacts DEF Places, QueuedNotSettled
<1>9. QueuedNotSettled' /\ SettledWasQueued'
  BY <1>2, <1>3, <1>6 DEF Places, QueuedNotSettled, SettledWasQueued
<1>10. AskedNotElsewhere'
  BY <1>3, <1>4, <1>5, <1>6, <1>7, <1>8 DEF Places, AskedNotElsewhere
<1>11. PolledIsSettled'
  BY <1>2, <1>4, <1>5 DEF Places, PolledIsSettled
<1>12. Accounted'
  <2> SUFFICES ASSUME NEW ip \in enqueuedIps
               PROVE  \/ Queued(ip)' \/ Settled(ip)'
                      \/ \E v \in Workers : Asking(v)' /\ worker'[v].ip = ip
    BY <1>2 DEF Accounted
  <2>1. CASE \E v \in Workers : Asking(v) /\ worker[v].ip = ip
    BY <1>2, <1>4, <1>5, <2>1 DEF Asking
  <2>2. CASE Queued(ip) \/ Settled(ip)
    BY <1>3, <1>4, <1>6, <2>2
  <2> QED BY <2>1, <2>2 DEF Places, Accounted
<1> QED BY <1>3, <1>9, <1>10, <1>11, <1>12 DEF Places

LEMMA SetDefaultFacts ==
  ASSUME HoldsTrue, NEW ip \in Ips, NEW id \in Ids, cidByIp' = SetDefault(cidByIp, ip, id),
         UNCHANGED failures
  PROVE  /\ \A x \in Ips : cidByIp[x] # None => cidByIp'[x] = cidByIp[x]
         /\ \A x \in Ips : Settled(x)' <=> Settled(x) \/ x = ip
         /\ cidByIp[ip] = None => cidByIp'[ip] = id
<1>1. ip # None /\ id # None /\ cidByIp \in [Ips -> Ids \cup {None}]
  BY IdFacts DEF HoldsTrue, TypeOK
<1>2. cidByIp' = IF cidByIp[ip] # None THEN cidByIp ELSE [cidByIp EXCEPT ![ip] = id]
  BY <1>1 DEF SetDefault
<1> QED BY <1>1, <1>2 DEF Settled

LEMMA UnpollablePlace ==
  ASSUME HoldsTrue, Places, NEW w \in Workers, Unpollable(w) PROVE Places'
<1> DEFINE ip == worker[w].ip
           id == Untried(ip, worker[w].expected)
<1>1. /\ Asking(w) /\ cidByIp' = SetDefault(cidByIp, ip, id)
      /\ worker' = [worker EXCEPT ![w] = Idle] /\ UNCHANGED <<queue, enqueuedIps, failures>>
  BY DEF Unpollable, Asking, TaskDone, workerUnchanged, queueVars
<1>2. ip \in Ips /\ id \in Ids
  BY <1>1, IdentifyingAt, AnswerTypes DEF HoldsTrue, TypeOK, Asking
<1>3. Idle.step = "idle"
  BY IdleType
<1> HIDE DEF id
<1>4. /\ \A x \in Ips : cidByIp[x] # None => cidByIp'[x] = cidByIp[x]
      /\ \A x \in Ips : Settled(x)' <=> Settled(x) \/ x = ip
  BY <1>1, <1>2, SetDefaultFacts
<1> QED BY <1>1, <1>3, <1>4, SettlePlace

LEMMA IdentifyPlace ==
  ASSUME HoldsTrue, Places, NEW w \in Workers, Identify(w) PROVE Places'
<1> DEFINE ip == worker[w].ip
           id == ChassisId(ip, worker[w].expected)
<1>1. /\ Asking(w) /\ Host(ip) # None /\ cidByIp' = SetDefault(cidByIp, ip, id)
      /\ worker' = [worker EXCEPT ![w] = Idle] \/ worker' = [worker EXCEPT ![w] = Identified(w, id)]
      /\ UNCHANGED <<queue, enqueuedIps, failures>>
  BY DEF Identify, Asking, TaskDone, workerUnchanged, queueVars
<1>2. ip \in Ips /\ id \in Ids
  BY <1>1, IdentifyingAt, AnswerTypes DEF HoldsTrue, TypeOK, Asking
<1>3. Idle.step = "idle"
  BY IdleType
<1>4. worker \in [Workers -> WorkerStates]
  BY DEF HoldsTrue, TypeOK
<1> HIDE DEF id
<1>5. /\ Identified(w, id).step = "read" /\ Identified(w, id).ip = ip /\ Identified(w, id).id = id
  BY <1>2, <1>4, WorkerMoves
<1>6. cidByIp[ip] = None
  BY <1>1 DEF Places, AskedNotElsewhere, Settled
<1>7. /\ \A x \in Ips : cidByIp[x] # None => cidByIp'[x] = cidByIp[x]
      /\ \A x \in Ips : Settled(x)' <=> Settled(x) \/ x = ip
      /\ cidByIp'[ip] = id
  BY <1>1, <1>2, <1>6, SetDefaultFacts
<1>8. CASE worker' = [worker EXCEPT ![w] = Idle]
  BY <1>1, <1>3, <1>7, <1>8, SettlePlace
<1>9. CASE worker' = [worker EXCEPT ![w] = Identified(w, id)]
  BY <1>1, <1>5, <1>7, <1>9, SettlePlace
<1> QED BY <1>1, <1>8, <1>9

LEMMA FailsPlace ==
  ASSUME HoldsTrue, Places, NEW w \in Workers, Fails(w) PROVE Places'
<1>1. /\ (Asking(w) \/ Polling(w)) /\ failures' = failures \cup {worker[w].ip}
      /\ worker' = [worker EXCEPT ![w] = Idle] /\ UNCHANGED <<queue, enqueuedIps, cidByIp>>
  BY DEF Fails, Asking, Polling, TaskDone, queueVars, lookupVars
<1>2. \A x \in Ips : Settled(x)' <=> Settled(x) \/ x = worker[w].ip
  BY <1>1 DEF Settled, Fails
<1>3. Idle.step = "idle"
  BY IdleType
<1> QED BY <1>1, <1>2, <1>3, SettlePlace

LEMMA ReadTablesPlace ==
  ASSUME HoldsTrue, Places, NEW w \in Workers, ReadTables(w) PROVE Places'
<1>1. /\ Polling(w) /\ worker' = [worker EXCEPT ![w] = Idle]
      /\ UNCHANGED <<queue, enqueuedIps, cidByIp, failures>>
  BY DEF ReadTables, Polling, TaskDone, workerUnchanged, queueVars, lookupVars
<1>2. worker[w].id # None
  BY <1>1, IdFacts DEF HoldsTrue, WorkersOK, WorkerOK, PollOK
<1>3. Settled(worker[w].ip)
  BY <1>1, <1>2 DEF Places, PolledIsSettled, Settled
<1>4. \A x \in Ips : Settled(x)' <=> Settled(x) \/ x = worker[w].ip
  BY <1>1, <1>3 DEF Settled
<1>5. Idle.step = "idle"
  BY IdleType
<1> QED BY <1>1, <1>4, <1>5, SettlePlace

LEMMA HandleNeighborPlace ==
  ASSUME HoldsTrue, Places, NEW w \in Workers, HandleNeighbor(w)
  PROVE  Places' /\ (Len(queue) <= reserved => Len(queue') <= reserved')
<1>1. TypeOK /\ WorkersOK
  BY DEF HoldsTrue
<1>2. PICK nb \in worker[w].lldp :
        /\ worker' = [worker EXCEPT ![w] = WithoutLldp(w, nb)]
        /\ \/ Followed(nb) /\ Enqueue(nb.ip, LldpTarget(nb))
           \/ UNCHANGED queueVars
  BY DEF HandleNeighbor, queueVars
<1>3. worker[w].step = "neighbors" /\ SameAnswers
  BY DEF HandleNeighbor, SameAnswers, workerUnchanged, lookupVars
<1>4. Polling(w) /\ worker[w].lldp \subseteq LldpEntry
  BY <1>1, <1>3, PollingFacts DEF Polling
<1>5. LldpTarget(nb) \in Ids /\ nb.ip \in Ips \cup {None}
  BY <1>2, <1>4, EntryFacts
<1>6. worker \in [Workers -> WorkerStates]
  BY <1>1 DEF TypeOK
<1>7. /\ WithoutLldp(w, nb).step = "neighbors"
      /\ WithoutLldp(w, nb).ip = worker[w].ip /\ WithoutLldp(w, nb).id = worker[w].id
  BY <1>3, <1>6, WorkerMoves
<1>8. SameStations
  BY <1>2, <1>4, <1>6, <1>7, StationsFrame
<1>9. CASE Followed(nb) /\ Enqueue(nb.ip, LldpTarget(nb))
  <2>1. nb.ip \in Ips
    BY <1>5, <1>9 DEF Followed
  <2> QED BY <1>3, <1>5, <1>8, <1>9, <2>1, AddPlace
<1>10. CASE UNCHANGED queueVars
  BY <1>3, <1>8, <1>10, KeepPlaces DEF queueVars
<1> QED BY <1>2, <1>9, <1>10

LEMMA HandleCdpNeighborPlace ==
  ASSUME HoldsTrue, Places, NEW w \in Workers, HandleCdpNeighbor(w)
  PROVE  Places' /\ (Len(queue) <= reserved => Len(queue') <= reserved')
<1>1. TypeOK /\ WorkersOK
  BY DEF HoldsTrue
<1>2. PICK c \in worker[w].cdp :
        /\ worker' = [worker EXCEPT ![w] = WithoutCdp(w, c)]
        /\ \/ c.ip # None /\ Enqueue(c.ip, None)
           \/ UNCHANGED queueVars
  BY DEF HandleCdpNeighbor
<1>3. worker[w].step = "neighbors" /\ SameAnswers
  BY DEF HandleCdpNeighbor, SameAnswers, workerUnchanged, lookupVars
<1>4. Polling(w) /\ worker[w].cdp \subseteq CdpEntry
  BY <1>1, <1>3, PollingFacts DEF Polling
<1>5. c.ip \in Ips \cup {None}
  BY <1>2, <1>4, EntryFacts
<1>6. worker \in [Workers -> WorkerStates]
  BY <1>1 DEF TypeOK
<1>7. /\ WithoutCdp(w, c).step = "neighbors"
      /\ WithoutCdp(w, c).ip = worker[w].ip /\ WithoutCdp(w, c).id = worker[w].id
  BY <1>3, <1>6, WorkerMoves
<1>8. SameStations
  BY <1>2, <1>4, <1>6, <1>7, StationsFrame
<1>9. CASE c.ip # None /\ Enqueue(c.ip, None)
  BY <1>3, <1>5, <1>8, <1>9, AddPlace
<1>10. CASE UNCHANGED queueVars
  BY <1>3, <1>8, <1>10, KeepPlaces DEF queueVars
<1> QED BY <1>2, <1>9, <1>10

LEMMA OtherPlaces ==
  ASSUME HoldsTrue, Places, NEW w \in Workers, ReadNeighbors(w) \/ MarkAccessPoint(w)
  PROVE  Places' /\ UNCHANGED <<queue, reserved>>
<1>1. TypeOK /\ WorkersOK /\ worker \in [Workers -> WorkerStates]
  BY DEF HoldsTrue, TypeOK
<1>2. /\ Polling(w) /\ SameAnswers /\ UNCHANGED <<queue, enqueuedIps, reserved>>
      /\ \/ worker' = [worker EXCEPT ![w] = TablesRead(w)]
         \/ worker' = [worker EXCEPT ![w] = Moved(w, "neighbors")]
  BY DEF ReadNeighbors, MarkAccessPoint, Polling, SameAnswers, workerUnchanged, lookupVars,
         queueVars
<1>3. /\ TablesRead(w).step = "check" /\ TablesRead(w).ip = worker[w].ip
      /\ TablesRead(w).id = worker[w].id
  BY <1>1, <1>2, PollingFacts, TablesReadMove DEF TypeOK
<1>4. "neighbors" \in Steps
  BY DEF Steps
<1>5. /\ Moved(w, "neighbors").step = "neighbors" /\ Moved(w, "neighbors").ip = worker[w].ip
      /\ Moved(w, "neighbors").id = worker[w].id
  BY <1>1, <1>4, WorkerMoves
<1>6. SameStations
  BY <1>1, <1>2, <1>3, <1>5, StationsFrame
<1> QED BY <1>2, <1>6, KeepPlaces

LEMMA SeedPlace ==
  ASSUME HoldsTrue, Places, Seed
  PROVE  Places' /\ (Len(queue) <= reserved => Len(queue') <= reserved')
<1>1. /\ Enqueue(Head(seeds), None) /\ seeds # <<>> /\ seeds \in Seq(Ips)
      /\ UNCHANGED <<worker, cidByIp, failures>>
  BY DEF Seed, HoldsTrue, TypeOK, lookupVars
<1>2. Head(seeds) \in Ips
  BY <1>1, HeadTailProperties
<1>3. SameStations /\ SameAnswers
  BY <1>1 DEF SameStations, SameAnswers, Asking, Polling
<1> QED BY <1>1, <1>2, <1>3, AddPlace

LEMMA StopWorkersPlace ==
  ASSUME HoldsTrue, Places, StopWorkers
  PROVE  /\ Places' /\ ~Crawling'
         /\ \A i \in DOMAIN queue' : queue'[i] = Stop
         /\ \A w \in Workers : ~Asking(w)' /\ ~Polling(w)'
<1>1. /\ queue = <<>> /\ queue' \in {<<>>, Stops} /\ main' \in {"stopping", "failed"}
      /\ \A w \in Workers : worker[w].step = "idle"
      /\ UNCHANGED <<worker, enqueuedIps, cidByIp, failures>>
  BY DEF StopWorkers, Joined, lookupVars
<1>2. \A i \in DOMAIN queue' : queue'[i] = Stop
  BY <1>1, StopsType
<1>3. \A x : ~Queued(x) /\ ~Queued(x)' /\ (Settled(x)' <=> Settled(x))
  BY <1>1, <1>2 DEF Queued, Settled
<1>4. \A w \in Workers : /\ ~Asking(w) /\ ~Polling(w)
                         /\ ~Asking(w)' /\ ~Polling(w)'
  BY <1>1 DEF Asking, Polling
<1>5. Places'
  BY <1>1, <1>2, <1>3, <1>4 DEF Places, QueueDistinct, QueuedNotSettled, AskedNotElsewhere,
     PolledIsSettled, SettledWasQueued, Accounted
<1> QED BY <1>1, <1>2, <1>4, <1>5 DEF Crawling

LEMMA PoolInit == Init => PoolInv
<1> SUFFICES ASSUME Init PROVE PoolInv
  OBVIOUS
<1>1. network \in Networks /\ \A w \in Workers : worker[w] = Idle
  BY DEF Init
<1>2. \A w \in Workers : ~Asking(w) /\ ~Polling(w)
  BY <1>1, IdleType DEF Asking, Polling
<1>3. \A ip : ~Queued(ip)
  BY DEF Init, Queued
<1>4. \A ip \in Ips : Settled(ip) <=> ip \in enqueuedIps
  <2> SUFFICES ASSUME NEW ip \in Ips PROVE Settled(ip) <=> ip \in enqueuedIps
    OBVIOUS
  <2> DEFINE there == {k \in network.known : k.ip = ip}
  <2>1. \A k \in there : k.id \in Cids
    BY <1>1, NetworkFacts
  <2>2. cidByIp[ip] = IdOfFirst(there) /\ failures = {}
    BY DEF Init
  <2>3. IdOfFirst(there) # None <=> there # {}
    BY <2>1, IdFacts DEF IdOfFirst
  <2>4. ip \in enqueuedIps <=> there # {}
    BY IdFacts DEF Init
  <2> QED BY <2>2, <2>3, <2>4 DEF Settled
<1>5. enqueuedIps \subseteq Ips
  BY HoldsTrueInit DEF HoldsTrue, TypeOK
<1>6. Places
  BY <1>2, <1>3, <1>4, <1>5 DEF Places, QueueDistinct, QueuedNotSettled, AskedNotElsewhere,
     PolledIsSettled, SettledWasQueued, Accounted, Init
<1>7. Ends
  BY DEF Ends, Crawling, Init
<1> QED BY <1>6, <1>7 DEF PoolInv

(* The other half, the end of the crawl: who still moves is crawling.      *)
LEMMA BusyMeansCrawling ==
  ASSUME Ends, NEW w \in Workers, Asking(w) \/ Polling(w)
  PROVE  Crawling /\ Len(queue) <= reserved
BY DEF Ends

LEMMA TakeEnds == ASSUME HoldsTrue, Places, Ends, NEW w \in Workers, Take(w) PROVE Ends'
<1>1. /\ queue # <<>> /\ queue' = Tail(queue) /\ UNCHANGED <<main, reserved>>
      /\ worker' = [worker EXCEPT ![w] =
           IF Head(queue) = Stop THEN At("stopped", None, None)
           ELSE At("identify", Head(queue).ip, Head(queue).expected)]
  BY DEF Take
<1>2. /\ Len(queue') = Len(queue) - 1
      /\ (\A i \in DOMAIN queue : queue[i] = Stop) =>
           Head(queue) = Stop /\ \A i \in DOMAIN queue' : queue'[i] = Stop
  BY <1>1, TakenEffect DEF Places
<1>3. CASE Crawling
  <2>1. Len(queue) \in Nat /\ reserved \in Nat
    BY QueuedFacts DEF HoldsTrue, TypeOK
  <2> QED BY <1>1, <1>2, <1>3, <2>1 DEF Ends, Crawling
<1>4. CASE ~Crawling
  <2>1. worker \in [Workers -> WorkerStates]
    BY DEF HoldsTrue, TypeOK
  <2>2. worker' = [worker EXCEPT ![w] = At("stopped", None, None)]
    BY <1>1, <1>2, <1>4 DEF Ends
  <2>3. \A v \in Workers : ~Asking(v)' /\ ~Polling(v)'
    BY <1>4, <2>1, <2>2 DEF Ends, Asking, Polling, At
  <2> QED BY <1>1, <1>2, <1>4, <2>3 DEF Ends, Crawling
<1> QED BY <1>3, <1>4

LEMMA PoolNext == HoldsTrue /\ PoolInv /\ [Next]_vars => PoolInv'
<1> SUFFICES ASSUME HoldsTrue, PoolInv, [Next]_vars PROVE PoolInv'
  OBVIOUS
<1>1. Places /\ Ends
  BY DEF PoolInv
<1>2. CASE Seed
  <2>1. Crawling /\ Crawling'
    BY <1>2 DEF Seed, Crawling
  <2> QED BY <1>1, <1>2, <2>1, SeedPlace DEF PoolInv, Ends
<1>3. ASSUME UNCHANGED <<queue, enqueuedIps, reserved, worker, cidByIp, failures>>,
             Crawling' = Crawling
      PROVE  PoolInv'
  <2>1. SameStations /\ SameAnswers
    BY <1>3 DEF SameStations, SameAnswers, Asking, Polling
  <2>2. Places'
    BY <1>1, <1>3, <2>1, KeepPlaces
  <2>3. Ends'
    BY <1>1, <1>3 DEF Ends, Asking, Polling
  <2> QED BY <2>2, <2>3 DEF PoolInv
<1>4. CASE Start
  BY <1>3, <1>4 DEF Start, Crawling, queueVars, lookupVars
<1>5. CASE StopWorkers
  BY <1>1, <1>5, StopWorkersPlace DEF PoolInv, Ends
<1>6. CASE ResolveCdpLinks
  <2>1. /\ main = "stopping" /\ main' = "done"
        /\ UNCHANGED <<queueVars, worker, lookupVars, failures>>
    BY <1>6 DEF ResolveCdpLinks
  <2> QED BY <1>3, <2>1 DEF Crawling, queueVars, lookupVars
<1>7. CASE UNCHANGED vars
  BY <1>3, <1>7 DEF vars, Crawling, queueVars, lookupVars
<1>8. ASSUME NEW w \in Workers, Take(w) PROVE PoolInv'
  BY <1>1, <1>8, TakePlace, TakeEnds DEF PoolInv
<1>9. ASSUME NEW w \in Workers, Asking(w) \/ Polling(w), Places', UNCHANGED main,
             Len(queue) <= reserved => Len(queue') <= reserved'
      PROVE  PoolInv'
  BY <1>1, <1>9, BusyMeansCrawling DEF PoolInv, Ends, Crawling
<1>10. ASSUME NEW w \in Workers, Unpollable(w) \/ Identify(w) \/ Fails(w) \/ ReadTables(w)
       PROVE  PoolInv'
  <2>1. (Asking(w) \/ Polling(w)) /\ UNCHANGED <<main, queue, reserved>>
    BY <1>10 DEF Unpollable, Identify, Fails, ReadTables, Asking, Polling, workerUnchanged,
                 queueVars
  <2>2. Places'
    BY <1>1, <1>10, UnpollablePlace, IdentifyPlace, FailsPlace, ReadTablesPlace
  <2> QED BY <1>9, <2>1, <2>2
<1>11. ASSUME NEW w \in Workers,
              ReadNeighbors(w) \/ MarkAccessPoint(w) \/ HandleNeighbor(w) \/ HandleCdpNeighbor(w)
       PROVE  PoolInv'
  <2>1. Polling(w) /\ UNCHANGED main
    BY <1>11 DEF ReadNeighbors, MarkAccessPoint, HandleNeighbor, HandleCdpNeighbor, Polling,
                 workerUnchanged
  <2>2. Places' /\ (Len(queue) <= reserved => Len(queue') <= reserved')
    BY <1>1, <1>11, OtherPlaces, HandleNeighborPlace, HandleCdpNeighborPlace
  <2> QED BY <1>9, <2>1, <2>2
<1> QED BY <1>2, <1>4, <1>5, <1>6, <1>7, <1>8, <1>10, <1>11 DEF Next, MainNext, WorkerNext

THEOREM PoolAlways == Spec => [](HoldsTrue /\ PoolInv)
<1>1. Init => HoldsTrue /\ PoolInv
  BY HoldsTrueInit, PoolInit
<1>2. HoldsTrue /\ PoolInv /\ [Next]_vars => (HoldsTrue /\ PoolInv)'
  BY HoldsTrueNext, PoolNext
<1> QED BY <1>1, <1>2, PTL DEF Spec

(* The bound of the queue is never met while addresses are queued: every   *)
(* item in it holds one of the MaxNodes reservations (_enqueue).           *)
THEOREM QueueAlwaysFits == Spec => []QueueFits
<1>1. HoldsTrue /\ PoolInv => QueueFits
  <2> SUFFICES ASSUME HoldsTrue, PoolInv, Crawling PROVE Len(queue) <= MaxNodes
    BY DEF QueueFits, Crawling
  <2>1. Len(queue) <= reserved /\ Len(queue) \in Nat
    BY QueuedFacts DEF PoolInv, Ends
  <2>2. reserved \in 0 .. MaxNodes /\ MaxNodes \in Nat
    BY CrawlConstants DEF HoldsTrue, TypeOK
  <2> QED BY <2>1, <2>2
<1> QED BY <1>1, PoolAlways, PTL

(* Whatever tables name an address, and whenever, it is asked once.        *)
THEOREM AskedOnce == Spec => []NoAddressTwice
<1>1. HoldsTrue /\ PoolInv => NoAddressTwice
  <2> SUFFICES ASSUME HoldsTrue, PoolInv PROVE NoAddressTwice
    OBVIOUS
  <2>1. \A i, j \in DOMAIN queue :
          i # j /\ Stop \notin {queue[i], queue[j]} => queue[i].ip # queue[j].ip
    BY DEF PoolInv, Places, QueueDistinct
  <2>2. \A ip \in Ips : Settled(ip) => ~Queued(ip)
    BY DEF PoolInv, Places, QueuedNotSettled
  <2>3. ASSUME NEW w \in Workers, worker[w].step = "identify"
        PROVE  /\ ~Queued(worker[w].ip) /\ ~Settled(worker[w].ip)
               /\ \A v \in Workers \ {w} : worker[v].ip # worker[w].ip
    <3>1. Asking(w) /\ ~Queued(worker[w].ip) /\ ~Settled(worker[w].ip)
      BY <2>3 DEF PoolInv, Places, AskedNotElsewhere, Asking
    <3>2. worker[w].ip \in Ips /\ worker[w].ip # None
      BY <2>3, IdentifyingAt, IdFacts DEF HoldsTrue
    <3>3. ASSUME NEW v \in Workers \ {w} PROVE worker[v].ip # worker[w].ip
      <4>1. worker[v].step \in Steps
        BY WorkerFields DEF HoldsTrue, TypeOK
      <4>2. CASE worker[v].step \in {"idle", "stopped"}
        BY <3>2, <4>2 DEF HoldsTrue, WorkersOK, WorkerOK
      <4>3. CASE Asking(v)
        BY <3>1, <3>3, <4>3 DEF PoolInv, Places, AskedNotElsewhere
      <4>4. CASE Polling(v)
        <5>1. worker[v].id # None
          BY <4>4, IdFacts DEF HoldsTrue, WorkersOK, WorkerOK, PollOK
        <5> QED BY <3>1, <4>4, <5>1 DEF PoolInv, Places, PolledIsSettled, Settled
      <4> QED BY <4>1, <4>2, <4>3, <4>4 DEF Steps, Asking, Polling
    <3> QED BY <3>1, <3>3
  <2> QED BY <2>1, <2>2, <2>3 DEF NoAddressTwice
<1> QED BY <1>1, PoolAlways, PTL

(* No address a crawl queued is lost: when it is over each has its answer, *)
(* or is one whose poll raised.                                            *)
THEOREM NoneIsLost == Spec => []EverySettledWhenDone
<1>1. HoldsTrue /\ PoolInv => EverySettledWhenDone
  <2> SUFFICES ASSUME HoldsTrue, PoolInv, main = "done", NEW ip \in enqueuedIps
               PROVE  Settled(ip) /\ ~Queued(ip)
    BY DEF EverySettledWhenDone
  <2>1. /\ \A w \in Workers : ~Asking(w)
        /\ \A i \in DOMAIN queue : queue[i] = Stop
    BY DEF PoolInv, Ends, Crawling
  <2>2. ~Queued(ip)
    BY <2>1 DEF Queued
  <2> QED BY <2>1, <2>2 DEF PoolInv, Places, Accounted
<1> QED BY <1>1, PoolAlways, PTL

-----------------------------------------------------------------------------
(* One device, one worker: who starts to read a device is the one who      *)
(* found it not polled yet, in the same step.                              *)
LEMMA OnePollNext == HoldsTrue /\ PolledByOne /\ [Next]_vars => PolledByOne'
<1> SUFFICES ASSUME HoldsTrue, PolledByOne, [Next]_vars PROVE PolledByOne'
  OBVIOUS
<1>1. worker \in [Workers -> WorkerStates]
  BY DEF HoldsTrue, TypeOK
<1>2. CASE UNCHANGED worker
  BY <1>2 DEF PolledByOne, Polling
<1>3. ASSUME NEW w \in Workers, NEW state, worker' = [worker EXCEPT ![w] = state],
             \/ state.step \notin {"read", "check", "neighbors"}
             \/ Polling(w) /\ state.id = worker[w].id
             \/ \A v \in Workers \ {w} : Polling(v) => worker[v].id # state.id
      PROVE  PolledByOne'
  <2>1. /\ worker'[w] = state /\ \A v \in Workers \ {w} : worker'[v] = worker[v]
    BY <1>1, <1>3
  <2>2. \A v \in Workers \ {w} : Polling(v)' <=> Polling(v)
    BY <2>1 DEF Polling
  <2>3. \A v \in Workers \ {w} : Polling(v) /\ Polling(w)' => worker[v].id # state.id
    BY <1>3, <2>1 DEF PolledByOne, Polling
  <2> QED BY <2>1, <2>2, <2>3 DEF PolledByOne
<1>4. ASSUME NEW w \in Workers, Identify(w) PROVE PolledByOne'
  <2> DEFINE id == ChassisId(worker[w].ip, worker[w].expected)
  <2>1. \/ worker' = [worker EXCEPT ![w] = Idle]
        \/ status[id] # "online" /\ worker' = [worker EXCEPT ![w] = Identified(w, id)]
    BY <1>4 DEF Identify, TaskDone, AlreadyPolled
  <2>2. worker[w].step = "identify" /\ Host(worker[w].ip) # None
    BY <1>4 DEF Identify
  <2>3. id \in Ids
    BY <2>2, IdentifyingAt, AnswerTypes DEF HoldsTrue, TypeOK
  <2> HIDE DEF id
  <2>4. Identified(w, id).id = id
    BY <1>1, <2>3, WorkerMoves
  <2>5. status[id] # "online" => \A v \in Workers : Polling(v) => worker[v].id # id
    BY DEF HoldsTrue, WorkersOK, WorkerOK, PollOK
  <2>6. CASE worker' = [worker EXCEPT ![w] = Idle]
    BY <1>3, <2>6, IdleType
  <2>7. CASE status[id] # "online" /\ worker' = [worker EXCEPT ![w] = Identified(w, id)]
    BY <1>3, <2>4, <2>5, <2>7
  <2> QED BY <2>1, <2>6, <2>7
<1>5. ASSUME NEW w \in Workers, Unpollable(w) \/ Fails(w) \/ ReadTables(w) PROVE PolledByOne'
  BY <1>3, <1>5, IdleType DEF Unpollable, Fails, ReadTables, TaskDone
<1>6. ASSUME NEW w \in Workers, Take(w) PROVE PolledByOne'
  <2> DEFINE next == IF Head(queue) = Stop THEN At("stopped", None, None)
                     ELSE At("identify", Head(queue).ip, Head(queue).expected)
  <2>1. worker' = [worker EXCEPT ![w] = next]
    BY <1>6 DEF Take
  <2>2. next.step \notin {"read", "check", "neighbors"}
    BY DEF At
  <2> HIDE DEF next
  <2> QED BY <1>3, <2>1, <2>2
<1>7. ASSUME NEW w \in Workers, ReadNeighbors(w) PROVE PolledByOne'
  <2>1. Polling(w) /\ worker' = [worker EXCEPT ![w] = TablesRead(w)]
    BY <1>7 DEF ReadNeighbors, Polling
  <2>2. TablesRead(w).id = worker[w].id
    BY <1>1, <2>1, PollingFacts, TablesReadMove DEF HoldsTrue, TypeOK
  <2> QED BY <1>3, <2>1, <2>2
<1>8. ASSUME NEW w \in Workers, MarkAccessPoint(w) PROVE PolledByOne'
  <2>1. Polling(w) /\ worker' = [worker EXCEPT ![w] = Moved(w, "neighbors")]
    BY <1>8 DEF MarkAccessPoint, Polling
  <2>2. Moved(w, "neighbors").id = worker[w].id
    BY <1>1, WorkerMoves DEF Steps
  <2> QED BY <1>3, <2>1, <2>2
<1>9. ASSUME NEW w \in Workers, HandleNeighbor(w) \/ HandleCdpNeighbor(w) PROVE PolledByOne'
  <2>1. Polling(w) /\ \E e : \/ worker' = [worker EXCEPT ![w] = WithoutLldp(w, e)]
                             \/ worker' = [worker EXCEPT ![w] = WithoutCdp(w, e)]
    BY <1>9 DEF HandleNeighbor, HandleCdpNeighbor, Polling
  <2>2. \A e : WithoutLldp(w, e).id = worker[w].id /\ WithoutCdp(w, e).id = worker[w].id
    BY <1>1, WorkerMoves
  <2> QED BY <1>3, <2>1, <2>2
<1>10. MainNext \/ UNCHANGED vars => UNCHANGED worker
  BY DEF MainNext, Seed, Start, StopWorkers, ResolveCdpLinks, vars
<1> QED BY <1>2, <1>4, <1>5, <1>6, <1>7, <1>8, <1>9, <1>10 DEF Next, WorkerNext

(* docs/CODE_TOUR.md:32, "Each device it reaches is polled once": no two   *)
(* workers read the same device's tables, at whichever of its addresses.   *)
THEOREM OneWorkerADevice == Spec => []PolledByOne
<1>1. Init => PolledByOne
  BY IdleType DEF Init, PolledByOne, Polling
<1> QED BY <1>1, OnePollNext, HoldsTrueAlways, PTL DEF Spec

-----------------------------------------------------------------------------
(* Where the addresses come from.                                          *)
SeedsGiven ==
  \A i \in DOMAIN seeds : \E j \in DOMAIN network.seeds : network.seeds[j] = seeds[i]
GivenInv == SeedsGiven /\ OnlyGivenAddresses

AnswersStay == \A x \in Ips : cidByIp[x] # None => cidByIp'[x] = cidByIp[x]

LEMMA AnswersStayNext == HoldsTrue /\ [Next]_vars => AnswersStay
<1> SUFFICES ASSUME HoldsTrue, [Next]_vars PROVE AnswersStay
  OBVIOUS
<1>1. CASE UNCHANGED cidByIp
  BY <1>1 DEF AnswersStay
<1>2. ASSUME NEW w \in Workers, Unpollable(w) \/ Identify(w) PROVE AnswersStay
  <2>1. /\ worker[w].step = "identify" /\ UNCHANGED failures
        /\ \/ cidByIp' = SetDefault(cidByIp, worker[w].ip,
                                    Untried(worker[w].ip, worker[w].expected))
           \/ /\ Host(worker[w].ip) # None
              /\ cidByIp' = SetDefault(cidByIp, worker[w].ip,
                                       ChassisId(worker[w].ip, worker[w].expected))
    BY <1>2 DEF Unpollable, Identify, workerUnchanged
  <2>2. worker[w].ip \in Ips /\ worker[w].expected \in Ids \cup {None}
    BY <2>1, IdentifyingAt DEF HoldsTrue
  <2>3. \E id \in Ids : cidByIp' = SetDefault(cidByIp, worker[w].ip, id)
    BY <2>1, <2>2, AnswerTypes DEF HoldsTrue, TypeOK
  <2> QED BY <2>1, <2>2, <2>3, SetDefaultFacts DEF AnswersStay
<1>3. ASSUME NEW w \in Workers, WorkerNext(w) \/ Fails(w) PROVE AnswersStay
  BY <1>1, <1>2, <1>3 DEF WorkerNext, Take, ReadNeighbors, MarkAccessPoint, HandleNeighbor,
     HandleCdpNeighbor, ReadTables, Fails, lookupVars
<1>4. MainNext \/ UNCHANGED vars => UNCHANGED cidByIp
  BY DEF MainNext, Seed, Start, StopWorkers, ResolveCdpLinks, vars, lookupVars
<1> QED BY <1>1, <1>3, <1>4 DEF Next

(* An address once given stays given.                                      *)
LEMMA GivenStays ==
  ASSUME HoldsTrue, [Next]_vars, network' = network, enqueuedIps \subseteq enqueuedIps',
         NEW ip \in Ips, Given(ip)
  PROVE  Given(ip)'
<1>1. /\ StaysOnline /\ AnswersStay /\ enqueuedIps \subseteq Ips
      /\ cidByIp \in [Ips -> Ids \cup {None}]
  BY StaysOnlineNext, AnswersStayNext DEF HoldsTrue, TypeOK
<1>2. ASSUME NEW a \in enqueuedIps \ {ip}, Host(a) # None, ip \in NamedBy(Host(a)),
             cidByIp[a] # None, status[cidByIp[a]] = "online"
      PROVE  Given(ip)'
  <2>1. cidByIp'[a] = cidByIp[a] /\ status'[cidByIp[a]] = "online"
    BY <1>1, <1>2 DEF StaysOnline, AnswersStay
  <2>2. a \in enqueuedIps' \ {ip} /\ Host(a)' = Host(a) /\ NamedBy(Host(a))' = NamedBy(Host(a))
    BY <1>2 DEF Host, NamedBy
  <2> QED BY <1>2, <2>1, <2>2 DEF Given
<1> QED BY <1>2 DEF Given

(* A step that queues no address, or one that is given.                    *)
LEMMA GivenStep ==
  ASSUME HoldsTrue, GivenInv, [Next]_vars, network' = network, UNCHANGED seeds,
         enqueuedIps \subseteq enqueuedIps',
         \A ip \in enqueuedIps' \ enqueuedIps : ip \in Ips /\ Given(ip)
  PROVE  GivenInv'
<1>1. SeedsGiven'
  BY DEF GivenInv, SeedsGiven
<1>2. enqueuedIps \subseteq Ips
  BY DEF HoldsTrue, TypeOK
<1>3. ASSUME NEW ip \in enqueuedIps' PROVE Given(ip)'
  BY <1>2, <1>3, GivenStays DEF GivenInv, OnlyGivenAddresses
<1> QED BY <1>1, <1>3 DEF GivenInv, OnlyGivenAddresses

(* What a device that is polled names, is given.                           *)
LEMMA PolledGives ==
  ASSUME HoldsTrue, PoolInv, NEW w \in Workers, Polling(w),
         NEW ip, ip \notin enqueuedIps, ip \in NamedBy(Host(worker[w].ip))
  PROVE  Given(ip)
<1>1. /\ worker[w].ip \in enqueuedIps /\ Host(worker[w].ip) # None
      /\ worker[w].id \in Ids /\ status[worker[w].id] = "online"
  BY DEF HoldsTrue, WorkersOK, WorkerOK, PollOK
<1>2. cidByIp[worker[w].ip] = worker[w].id
  BY DEF PoolInv, Places, PolledIsSettled
<1>3. worker[w].id # None /\ worker[w].ip \in enqueuedIps \ {ip}
  BY <1>1, IdFacts
<1> QED BY <1>1, <1>2, <1>3 DEF Given

LEMMA GivenNext == HoldsTrue /\ PoolInv /\ GivenInv /\ [Next]_vars => GivenInv'
<1> SUFFICES ASSUME HoldsTrue, PoolInv, GivenInv, [Next]_vars PROVE GivenInv'
  OBVIOUS
<1>1. TypeOK /\ WorkersOK /\ QueueDistinct
  BY DEF HoldsTrue, PoolInv, Places
<1>2. CASE UNCHANGED <<network, seeds, enqueuedIps>>
  BY <1>2, GivenStep
<1>3. CASE Seed
  <2>1. /\ Enqueue(Head(seeds), None) /\ seeds' = Tail(seeds) /\ seeds # <<>>
        /\ seeds \in Seq(Ips) /\ network' = network
    BY <1>1, <1>3 DEF Seed, TypeOK
  <2>2. /\ Head(seeds) \in Ips /\ Head(seeds) = seeds[1] /\ 1 \in DOMAIN seeds
        /\ \A i \in DOMAIN seeds' : i + 1 \in DOMAIN seeds /\ seeds'[i] = seeds[i + 1]
    BY <2>1, HeadTailProperties, LenProperties, EmptySeq
  <2>3. SeedsGiven'
    BY <2>1, <2>2 DEF GivenInv, SeedsGiven
  <2>4. Given(Head(seeds))
    BY <2>2 DEF GivenInv, SeedsGiven, Given
  <2>5. \/ enqueuedIps' = enqueuedIps
        \/ enqueuedIps' = enqueuedIps \cup {Head(seeds)}
    BY <2>1, <2>2, <1>1, EnqueuedEffect
  <2>6. \A ip \in enqueuedIps' : ip \in Ips /\ Given(ip)
    BY <1>1, <2>2, <2>4, <2>5 DEF TypeOK, GivenInv, OnlyGivenAddresses
  <2>7. OnlyGivenAddresses'
    BY <2>1, <2>5, <2>6, GivenStays DEF OnlyGivenAddresses
  <2> QED BY <2>3, <2>7 DEF GivenInv
<1>4. ASSUME NEW w \in Workers, NEW ip \in Ips, NEW cid \in Ids \cup {None}, Polling(w),
             Enqueue(ip, cid), ip \in NamedBy(Host(worker[w].ip)), UNCHANGED <<network, seeds>>
      PROVE  GivenInv'
  <2>1. \/ enqueuedIps' = enqueuedIps
        \/ ip \notin enqueuedIps /\ enqueuedIps' = enqueuedIps \cup {ip}
    BY <1>1, <1>4, EnqueuedEffect
  <2>2. ip \notin enqueuedIps => Given(ip)
    BY <1>4, PolledGives
  <2> QED BY <1>4, <2>1, <2>2, GivenStep
<1>5. ASSUME NEW w \in Workers, HandleNeighbor(w) PROVE GivenInv'
  <2>1. /\ Polling(w) /\ UNCHANGED <<network, seeds>>
        /\ \E nb \in worker[w].lldp : \/ Followed(nb) /\ Enqueue(nb.ip, LldpTarget(nb))
                                      \/ UNCHANGED queueVars
    BY <1>5 DEF HandleNeighbor, Polling, workerUnchanged, queueVars
  <2>2. /\ worker[w].lldp \subseteq LldpEntry
        /\ worker[w].lldp \subseteq network.lldp[Host(worker[w].ip)]
    BY <1>1, <2>1, PollingFacts DEF PollOK
  <2>3. ASSUME NEW nb \in worker[w].lldp, Followed(nb), Enqueue(nb.ip, LldpTarget(nb))
        PROVE  GivenInv'
    <3>1. nb.ip \in Ips /\ LldpTarget(nb) \in Ids
      BY <2>2, <2>3, EntryFacts DEF Followed
    <3>2. nb.ip \in NamedBy(Host(worker[w].ip))
      BY <2>2, <2>3 DEF NamedBy
    <3> QED BY <1>4, <2>1, <2>3, <3>1, <3>2
  <2> QED BY <1>2, <2>1, <2>3 DEF queueVars
<1>6. ASSUME NEW w \in Workers, HandleCdpNeighbor(w) PROVE GivenInv'
  <2>1. /\ Polling(w) /\ UNCHANGED <<network, seeds>>
        /\ \E c \in worker[w].cdp : \/ c.ip # None /\ Enqueue(c.ip, None)
                                    \/ UNCHANGED queueVars
    BY <1>6 DEF HandleCdpNeighbor, Polling, workerUnchanged
  <2>2. /\ worker[w].cdp \subseteq CdpEntry
        /\ worker[w].cdp \subseteq network.cdp[Host(worker[w].ip)]
    BY <1>1, <2>1, PollingFacts DEF PollOK
  <2>3. ASSUME NEW c \in worker[w].cdp, c.ip # None, Enqueue(c.ip, None)
        PROVE  GivenInv'
    <3>1. c.ip \in Ips
      BY <2>2, <2>3, EntryFacts
    <3>2. c.ip \in NamedBy(Host(worker[w].ip))
      BY <2>2, <2>3 DEF NamedBy
    <3> QED BY <1>4, <2>1, <2>3, <3>1, <3>2
  <2> QED BY <1>2, <2>1, <2>3 DEF queueVars
<1>7. ASSUME NEW w \in Workers, WorkerNext(w) \/ Fails(w) PROVE GivenInv'
  BY <1>2, <1>5, <1>6, <1>7 DEF WorkerNext, Take, Unpollable, Identify, ReadNeighbors,
     MarkAccessPoint, ReadTables, Fails, workerUnchanged, queueVars
<1>8. Start \/ StopWorkers \/ ResolveCdpLinks \/ UNCHANGED vars =>
        UNCHANGED <<network, seeds, enqueuedIps>>
  BY DEF Start, StopWorkers, ResolveCdpLinks, vars, queueVars
<1> QED BY <1>2, <1>3, <1>7, <1>8 DEF Next, MainNext

LEMMA GivenAlways == Spec => []GivenInv
<1>1. Init => GivenInv
  <2> SUFFICES ASSUME Init PROVE GivenInv
    OBVIOUS
  <2>1. SeedsGiven
    BY DEF Init, SeedsGiven
  <2>2. OnlyGivenAddresses
    BY DEF Init, OnlyGivenAddresses, Given
  <2> QED BY <2>1, <2>2 DEF GivenInv
<1>2. Init /\ [][Next]_vars /\ [](HoldsTrue /\ PoolInv) => []GivenInv
  BY <1>1, GivenNext, PTL
<1> QED BY <1>2, PoolAlways, PTL DEF Spec

(* The crawl follows the neighbour tables and nothing else: it contacts no *)
(* address that a seed, an earlier crawl or a polled device did not give.  *)
THEOREM OnlyGiven == Spec => []OnlyGivenAddresses
<1>1. GivenInv => OnlyGivenAddresses
  BY DEF GivenInv
<1> QED BY <1>1, GivenAlways, PTL

-----------------------------------------------------------------------------
(* CDP's links come last: until then every link is LLDP's.                 *)
LinksInv ==
  /\ OneLinkPerPair
  /\ main # "done" => \A l \in links : l.protocol = "lldp"

LEMMA LinksNext == HoldsTrue /\ PoolInv /\ LinksInv /\ [Next]_vars => LinksInv'
<1> SUFFICES ASSUME HoldsTrue, PoolInv, LinksInv, [Next]_vars PROVE LinksInv'
  OBVIOUS
<1>1. CASE UNCHANGED links /\ (main' = "done" <=> main = "done")
  BY <1>1 DEF LinksInv, OneLinkPerPair
<1>2. ASSUME NEW w \in Workers, HandleNeighbor(w) PROVE LinksInv'
  <2>1. Polling(w) /\ main' = main
        /\ \E id : links' = links \cup {Link(worker[w].id, id, "lldp")}
    BY <1>2 DEF HandleNeighbor, Polling, workerUnchanged
  <2>2. main # "done"
    BY <2>1, BusyMeansCrawling DEF PoolInv, Crawling
  <2>3. \A l \in links' : l.protocol = "lldp"
    BY <2>1, <2>2 DEF LinksInv, Link
  <2> QED BY <2>3 DEF LinksInv, OneLinkPerPair
<1>3. CASE ResolveCdpLinks
  <2> DEFINE kept == {l \in cdpLinks : /\ ResolvedTarget(l.entry) # l.source
                                       /\ ~LldpLinked(l.source, ResolvedTarget(l.entry))}
             new == {Link(k.source, ResolvedTarget(k.entry), "cdp") : k \in kept}
  <2>1. links' = links \cup new /\ main # "done" /\ main' = "done"
    BY <1>3 DEF ResolveCdpLinks
  <2>2. \A l \in links : l.protocol = "lldp"
    BY <2>1 DEF LinksInv
  <2>3. ASSUME NEW k \in new
        PROVE  k.protocol = "cdp" /\ \A l \in links : {k.source, k.target} # {l.source, l.target}
    BY <2>3 DEF Link, LldpLinked
  <2>4. OneLinkPerPair'
    BY <2>1, <2>2, <2>3 DEF OneLinkPerPair
  <2> QED BY <2>1, <2>4 DEF LinksInv
<1>4. ASSUME NEW w \in Workers, WorkerNext(w) \/ Fails(w) PROVE LinksInv'
  BY <1>1, <1>2, <1>4 DEF WorkerNext, Take, Unpollable, Identify, ReadNeighbors,
     MarkAccessPoint, HandleCdpNeighbor, ReadTables, Fails, workerUnchanged
<1>5. Seed \/ Start \/ StopWorkers \/ UNCHANGED vars =>
        UNCHANGED links /\ (main' = "done" <=> main = "done")
  BY DEF Seed, Start, StopWorkers, vars
<1> QED BY <1>1, <1>3, <1>4, <1>5 DEF Next, MainNext

(* backend/README.md:116, "one device and one link": _resolve_cdp_links    *)
(* runs when no worker can add an LLDP link any more.                      *)
THEOREM OneLink == Spec => []OneLinkPerPair
<1>1. Init => LinksInv
  BY DEF Init, LinksInv, OneLinkPerPair
<1>2. Init /\ [][Next]_vars /\ [](HoldsTrue /\ PoolInv) => []LinksInv
  BY <1>1, LinksNext, PTL
<1>3. LinksInv => OneLinkPerPair
  BY DEF LinksInv
<1> QED BY <1>2, <1>3, PoolAlways, PTL DEF Spec

-----------------------------------------------------------------------------
(* The map.  What a crawl that nothing disturbs has come to is told from   *)
(* the network alone.                                                      *)
Undisturbed == Alike /\ failures = {} /\ reserved < MaxNodes

(* crawl.py:113, 345, 372, 399: a device that is recorded, and one that    *)
(* an address is known to be of, count as seen.                            *)
SeenInv ==
  /\ \A ip \in Ips : cidByIp[ip] # None => cidByIp[ip] \in seen
  /\ \A i \in Ids : status[i] # "none" => i \in seen

(* The source of a link was polled; its target is a device, or was queued  *)
(* at an address that has not answered under its id.                       *)
Awaited(id) ==
  \E d \in Cids : \E nb \in network.lldp[d] :
    LldpTarget(nb) = id /\ nb.ip # None /\ cidByIp[nb.ip] # id
EndsInv ==
  /\ \A k \in cdpLinks : status[k.source] = "online"
  /\ \A l \in links : /\ status[l.source] = "online"
                      /\ status[l.target] # "none" \/ Awaited(l.target)

(* What an answer, or none, does: the address gets its device for good.    *)
Verdict(w, id) ==
  LET ip == worker[w].ip
  IN  /\ ip \in Ips /\ ip \in enqueuedIps /\ id \in Ids /\ Asking(w)
      /\ cidByIp[ip] = None /\ cidByIp'[ip] = id /\ \A x \in Ips \ {ip} : cidByIp'[x] = cidByIp[x]
      /\ seen' = seen \cup {id}
      /\ status'[id] # "none" /\ \A i \in Ids \ {id} : status'[i] = status[i]
      /\ UNCHANGED <<network, main, seeds, failures, queue, enqueuedIps, reserved, links, cdpLinks>>

LEMMA NoAnswer ==
  ASSUME HoldsTrue, PoolInv, NEW w \in Workers, Unpollable(w)
  PROVE  /\ Verdict(w, Untried(worker[w].ip, worker[w].expected))
         /\ Host(worker[w].ip) = None /\ TaskDone(w) /\ UNCHANGED cidByName
         /\ \A i \in Ids : status'[i] = "online" => status[i] = "online"
<1> DEFINE ip == worker[w].ip
           id == Untried(ip, worker[w].expected)
<1>1. TypeOK /\ WorkersOK
  BY DEF HoldsTrue
<1>2. /\ worker[w].step = "identify" /\ seen' = seen \cup {id} /\ Host(ip) = None
      /\ cidByIp' = SetDefault(cidByIp, ip, id) /\ status' = Unreachable(id) /\ TaskDone(w)
      /\ UNCHANGED <<network, main, seeds, failures, queue, enqueuedIps, reserved, links, cdpLinks, cidByName>>
  BY DEF Unpollable, workerUnchanged, queueVars
<1>3. ip \in Ips /\ id \in Ids /\ ip \in enqueuedIps
  BY <1>1, <1>2, IdentifyingAt, AnswerTypes DEF TypeOK
<1>4. cidByIp[ip] = None /\ Asking(w)
  BY <1>2 DEF PoolInv, Places, AskedNotElsewhere, Asking, Settled
<1>5. cidByIp'[ip] = id /\ \A x \in Ips \ {ip} : cidByIp'[x] = cidByIp[x]
  <2>1. ip # None /\ cidByIp \in [Ips -> Ids \cup {None}]
    BY <1>1, <1>3, IdFacts DEF TypeOK
  <2> QED
    BY <1>2, <1>3, <1>4, <2>1 DEF SetDefault
<1>6. /\ status'[id] # "none" /\ \A i \in Ids \ {id} : status'[i] = status[i]
      /\ \A i \in Ids : status'[i] = "online" => status[i] = "online"
  <2>1. status \in [Ids -> Statuses]
    BY <1>1 DEF TypeOK
  <2> QED
    BY <1>2, <1>3, <2>1 DEF Unreachable
<1> QED
  BY <1>2, <1>3, <1>4, <1>5, <1>6 DEF Verdict

LEMMA AnAnswer ==
  ASSUME HoldsTrue, PoolInv, NEW w \in Workers, Identify(w)
  PROVE  LET id == ChassisId(worker[w].ip, worker[w].expected)
         IN  /\ Verdict(w, id) /\ status'[id] = "online" /\ Host(worker[w].ip) # None
             /\ \/ TaskDone(w) /\ status[id] = "online" /\ UNCHANGED cidByName
                \/ /\ worker' = [worker EXCEPT ![w] = Identified(w, id)] /\ status[id] # "online"
                   /\ cidByName' = SetDefault(cidByName, network.name[Host(worker[w].ip)], id)
<1> DEFINE ip == worker[w].ip
           id == ChassisId(ip, worker[w].expected)
<1>1. TypeOK /\ WorkersOK
  BY DEF HoldsTrue
<1>2. /\ worker[w].step = "identify" /\ seen' = seen \cup {id} /\ Host(ip) # None
      /\ cidByIp' = SetDefault(cidByIp, ip, id)
      /\ \/ AlreadyPolled(id) /\ TaskDone(w) /\ UNCHANGED <<status, cidByName>>
         \/ /\ ~AlreadyPolled(id) /\ status' = [status EXCEPT ![id] = "online"]
            /\ cidByName' = SetDefault(cidByName, network.name[Host(ip)], id)
            /\ worker' = [worker EXCEPT ![w] = Identified(w, id)]
      /\ UNCHANGED <<network, main, seeds, failures, queue, enqueuedIps, reserved, links, cdpLinks>>
  BY DEF Identify, workerUnchanged, queueVars
<1>3. ip \in Ips /\ id \in Ids /\ ip \in enqueuedIps
  BY <1>1, <1>2, IdentifyingAt, AnswerTypes DEF TypeOK
<1>4. cidByIp[ip] = None /\ Asking(w)
  BY <1>2 DEF PoolInv, Places, AskedNotElsewhere, Asking, Settled
<1>5. cidByIp'[ip] = id /\ \A x \in Ips \ {ip} : cidByIp'[x] = cidByIp[x]
  <2>1. ip # None /\ cidByIp \in [Ips -> Ids \cup {None}]
    BY <1>1, <1>3, IdFacts DEF TypeOK
  <2> QED
    BY <1>2, <1>3, <1>4, <2>1 DEF SetDefault
<1> HIDE DEF id, ip
<1>6. /\ status'[id] = "online" /\ \A i \in Ids \ {id} : status'[i] = status[i]
      /\ \/ TaskDone(w) /\ status[id] = "online" /\ UNCHANGED cidByName
         \/ /\ worker' = [worker EXCEPT ![w] = Identified(w, id)] /\ status[id] # "online"
            /\ cidByName' = SetDefault(cidByName, network.name[Host(ip)], id)
  <2>1. status \in [Ids -> Statuses]
    BY <1>1 DEF TypeOK
  <2> QED
    BY <1>2, <1>3, <2>1 DEF AlreadyPolled
<1>7. Verdict(w, id)
  BY <1>2, <1>3, <1>4, <1>5, <1>6 DEF Verdict, ip
<1> QED
  BY <1>2, <1>6, <1>7 DEF id, ip

(* What queueing does to the records.                                      *)
LEMMA EnqueueRecords ==
  ASSUME NEW ip, NEW cid, Enqueue(ip, cid)
  PROVE  /\ seen \subseteq seen' /\ enqueuedIps \subseteq enqueuedIps'
         /\ \/ UNCHANGED <<queue, enqueuedIps, reserved, seen>>
            \/ /\ seen' = seen \cup ({cid} \ {None}) /\ enqueuedIps' = enqueuedIps \cup {ip}
               /\ reserved < MaxNodes /\ reserved' = reserved + 1 /\ queue' = Append(queue, Item(ip, cid))
         /\ reserved < MaxNodes /\ cid \notin seen => ip \in enqueuedIps'
         /\ reserved < MaxNodes /\ cid = None => ip \in enqueuedIps'
BY DEF Enqueue, Enqueues, queueVars

(* Nobody who is recorded is forgotten, and an address that gets a device  *)
(* records it.                                                             *)
Remembers ==
  /\ network' = network /\ seen \subseteq seen' /\ failures \subseteq failures' /\ reserved <= reserved'
  /\ \A i \in Ids : status[i] # "none" => status'[i] # "none"
  /\ \A i \in Ids : status'[i] # "none" => status[i] # "none" \/ i \in seen'
  /\ \A ip \in Ips : cidByIp'[ip] = cidByIp[ip]
                     \/ (cidByIp'[ip] \in Ids \cap seen' /\ status'[cidByIp'[ip]] # "none")

LEMMA HandledNeighbor ==
  ASSUME HoldsTrue, NEW w \in Workers, HandleNeighbor(w)
  PROVE  /\ UNCHANGED <<network, main, seeds, failures, cidByIp, cidByName, cdpLinks>> /\ Polling(w)
         /\ \E nb \in worker[w].lldp :
              /\ worker' = [worker EXCEPT ![w] = WithoutLldp(w, nb)]
              /\ links' = links \cup {Link(worker[w].id, LldpTarget(nb), "lldp")}
              /\ nb \in LldpEntry /\ nb \in network.lldp[Host(worker[w].ip)] /\ LldpTarget(nb) \in Ids
              /\ \/ Followed(nb) /\ nb.ip \in Ips /\ Enqueue(nb.ip, LldpTarget(nb)) /\ UNCHANGED status
                 \/ /\ ~Followed(nb) /\ UNCHANGED queueVars
                    /\ \/ status[LldpTarget(nb)] # "none" /\ UNCHANGED <<seen, status>>
                       \/ /\ status[LldpTarget(nb)] = "none" /\ seen' = seen \cup {LldpTarget(nb)}
                          /\ status' = [status EXCEPT ![LldpTarget(nb)] = "discovered"]
<1>1. Polling(w) /\ UNCHANGED <<network, main, seeds, failures, cidByIp, cidByName, cdpLinks>>
  BY DEF HandleNeighbor, Polling, workerUnchanged, lookupVars
<1>2. PICK nb \in worker[w].lldp :
              /\ worker' = [worker EXCEPT ![w] = WithoutLldp(w, nb)]
              /\ links' = links \cup {Link(worker[w].id, LldpTarget(nb), "lldp")}
              /\ \/ Followed(nb) /\ Enqueue(nb.ip, LldpTarget(nb)) /\ UNCHANGED status
                 \/ /\ ~Followed(nb) /\ UNCHANGED queueVars
                    /\ \/ status[LldpTarget(nb)] # "none" /\ UNCHANGED <<seen, status>>
                       \/ /\ status[LldpTarget(nb)] = "none" /\ seen' = seen \cup {LldpTarget(nb)}
                          /\ status' = [status EXCEPT ![LldpTarget(nb)] = "discovered"]
  BY DEF HandleNeighbor
<1>3. nb \in LldpEntry /\ nb \in network.lldp[Host(worker[w].ip)]
  BY <1>1, PollingFacts DEF HoldsTrue, PollOK
<1>4. LldpTarget(nb) \in Ids /\ (nb.ip # None => nb.ip \in Ips)
  BY <1>3, EntryFacts
<1> QED
  BY <1>1, <1>2, <1>3, <1>4 DEF Followed

LEMMA HandledCdpNeighbor ==
  ASSUME HoldsTrue, NEW w \in Workers, HandleCdpNeighbor(w)
  PROVE  /\ UNCHANGED <<network, main, seeds, failures, cidByIp, cidByName, status, links>> /\ Polling(w)
         /\ \E c \in worker[w].cdp :
              /\ worker' = [worker EXCEPT ![w] = WithoutCdp(w, c)]
              /\ cdpLinks' = cdpLinks \cup {[source |-> worker[w].id, entry |-> c]}
              /\ c \in CdpEntry /\ c \in network.cdp[Host(worker[w].ip)]
              /\ \/ CdpTarget(c) = None /\ c.ip \in Ips /\ Enqueue(c.ip, None)
                 \/ (CdpTarget(c) # None \/ c.ip = None) /\ UNCHANGED <<queueVars, seen>>
<1>1. Polling(w) /\ UNCHANGED <<network, main, seeds, failures, cidByIp, cidByName, status, links>>
  BY DEF HandleCdpNeighbor, Polling, workerUnchanged, lookupVars, recordVars
<1>2. PICK c \in worker[w].cdp :
              /\ worker' = [worker EXCEPT ![w] = WithoutCdp(w, c)]
              /\ cdpLinks' = cdpLinks \cup {[source |-> worker[w].id, entry |-> c]}
              /\ \/ CdpTarget(c) = None /\ c.ip # None /\ Enqueue(c.ip, None)
                 \/ (CdpTarget(c) # None \/ c.ip = None) /\ UNCHANGED <<queueVars, seen>>
  BY DEF HandleCdpNeighbor
<1>3. c \in CdpEntry /\ c \in network.cdp[Host(worker[w].ip)]
  BY <1>1, PollingFacts DEF HoldsTrue, PollOK
<1>4. c.ip # None => c.ip \in Ips
  BY <1>3, EntryFacts
<1> QED
  BY <1>1, <1>2, <1>3, <1>4

LEMMA Resolved ==
  ASSUME HoldsTrue, ResolveCdpLinks
  PROVE  /\ UNCHANGED <<network, seeds, failures, queue, enqueuedIps, reserved, worker, cidByIp, cidByName, cdpLinks>>
         /\ main' = "done" /\ seen \subseteq seen'
         /\ \A i \in Ids : /\ status[i] # "none" => status'[i] = status[i]
                           /\ status[i] = "none" => status'[i] \in {"none", "discovered"}
                           /\ status'[i] # status[i] => i \in seen'
         /\ \A k \in cdpLinks : ResolvedTarget(k.entry) \in Ids /\ status'[ResolvedTarget(k.entry)] # "none"
         /\ \A l \in links' : l \in links
                              \/ \E k \in cdpLinks : l.source = k.source /\ l.target = ResolvedTarget(k.entry)
<1>1. /\ UNCHANGED <<network, seeds, failures, queue, enqueuedIps, reserved, worker, cidByIp, cidByName, cdpLinks>>
      /\ main' = "done"
  BY DEF ResolveCdpLinks, queueVars, lookupVars
<1> DEFINE targets == {ResolvedTarget(k.entry) : k \in cdpLinks}
<1>2. status' = WithPlaceholders(targets) /\ seen' = seen \cup {i \in targets : status[i] = "none"}
  BY DEF ResolveCdpLinks
<1>3. \A i \in Ids : status'[i] = IF status[i] = "none" /\ i \in targets THEN "discovered" ELSE status[i]
  BY <1>2 DEF WithPlaceholders
<1>4. \A k \in cdpLinks : ResolvedTarget(k.entry) \in Ids /\ ResolvedTarget(k.entry) \in targets
  BY CdpTargetType DEF HoldsTrue, TypeOK
<1>5. \A l \in links' : l \in links
                        \/ \E k \in cdpLinks : l.source = k.source /\ l.target = ResolvedTarget(k.entry)
  <2> DEFINE kept == {l \in cdpLinks : /\ ResolvedTarget(l.entry) # l.source
                                       /\ ~LldpLinked(l.source, ResolvedTarget(l.entry))}
             new == {Link(k.source, ResolvedTarget(k.entry), "cdp") : k \in kept}
  <2>1. links' = links \cup new
    BY DEF ResolveCdpLinks
  <2>2. ASSUME NEW l \in new PROVE \E k \in cdpLinks : l.source = k.source /\ l.target = ResolvedTarget(k.entry)
    <3>1. PICK k \in kept : l = Link(k.source, ResolvedTarget(k.entry), "cdp")
      OBVIOUS
    <3>2. l.source = k.source /\ l.target = ResolvedTarget(k.entry)
      BY <3>1 DEF Link
    <3> QED
      BY <3>1, <3>2
  <2> QED
    BY <2>1, <2>2
<1> HIDE DEF targets
<1> QED
  BY <1>1, <1>2, <1>3, <1>4, <1>5

LEMMA RemembersNext == HoldsTrue /\ PoolInv /\ [Next]_vars => Remembers
<1> SUFFICES ASSUME HoldsTrue, PoolInv, [Next]_vars PROVE Remembers
  OBVIOUS
<1>1. status \in [Ids -> Statuses] /\ reserved \in Nat
  BY DEF HoldsTrue, TypeOK
<1>2. ASSUME network' = network, failures \subseteq failures', UNCHANGED <<status, cidByIp>>,
             UNCHANGED <<reserved, seen>> \/ \E ip, cid : Enqueue(ip, cid)
      PROVE  Remembers
  BY <1>1, <1>2, EnqueueRecords DEF Remembers
<1>3. ASSUME NEW w \in Workers, NEW id, Verdict(w, id) PROVE Remembers
  BY <1>1, <1>3 DEF Remembers, Verdict
<1>4. ASSUME NEW w \in Workers, HandleNeighbor(w) PROVE Remembers
  <2>1. PICK nb \in worker[w].lldp :
              /\ LldpTarget(nb) \in Ids
              /\ \/ Followed(nb) /\ nb.ip \in Ips /\ Enqueue(nb.ip, LldpTarget(nb)) /\ UNCHANGED status
                 \/ /\ ~Followed(nb) /\ UNCHANGED queueVars
                    /\ \/ status[LldpTarget(nb)] # "none" /\ UNCHANGED <<seen, status>>
                       \/ /\ status[LldpTarget(nb)] = "none" /\ seen' = seen \cup {LldpTarget(nb)}
                          /\ status' = [status EXCEPT ![LldpTarget(nb)] = "discovered"]
    BY <1>4, HandledNeighbor
  <2>2. UNCHANGED <<network, failures, cidByIp>>
    BY <1>4, HandledNeighbor
  <2> QED
    BY <1>1, <1>2, <2>1, <2>2 DEF Remembers, queueVars
<1>5. ASSUME NEW w \in Workers, HandleCdpNeighbor(w) PROVE Remembers
  <2>1. UNCHANGED <<network, failures, cidByIp, status>>
        /\ (UNCHANGED <<reserved, seen>> \/ \E ip, cid : Enqueue(ip, cid))
    BY <1>5, HandledCdpNeighbor DEF queueVars
  <2> QED
    BY <1>2, <2>1
<1>6. ASSUME NEW w \in Workers, WorkerNext(w) \/ Fails(w) PROVE Remembers
  <2>1. CASE Take(w) \/ ReadNeighbors(w) \/ MarkAccessPoint(w) \/ ReadTables(w) \/ Fails(w)
    BY <1>2, <2>1 DEF Take, ReadNeighbors, MarkAccessPoint, ReadTables, Fails, workerUnchanged, queueVars,
       recordVars, lookupVars
  <2> QED
    BY <1>3, <1>4, <1>5, <1>6, <2>1, NoAnswer, AnAnswer DEF WorkerNext
<1>7. CASE ResolveCdpLinks
  BY <1>1, <1>7, Resolved DEF Remembers
<1>8. CASE Seed \/ Start \/ StopWorkers \/ UNCHANGED vars
  BY <1>2, <1>8 DEF Seed, Start, StopWorkers, vars, recordVars, queueVars, lookupVars
<1> QED
  BY <1>6, <1>7, <1>8 DEF Next, MainNext

LEMMA SeenNext == HoldsTrue /\ PoolInv /\ SeenInv /\ [Next]_vars => SeenInv'
BY RemembersNext DEF SeenInv, Remembers

LEMMA EndsStay ==
  ASSUME HoldsTrue, PoolInv, SeenInv, EndsInv, [Next]_vars, NEW id \in Ids,
         status[id] # "none" \/ Awaited(id)
  PROVE  status'[id] # "none" \/ Awaited(id)'
<1>1. Remembers
  BY RemembersNext
<1>2. ASSUME NEW d \in Cids, NEW nb \in network.lldp[d],
             LldpTarget(nb) = id, nb.ip # None, cidByIp[nb.ip] # id
      PROVE  status'[id] # "none" \/ Awaited(id)'
  <2>1. nb.ip \in Ips
    BY <1>2, NetworkFacts, EntryFacts DEF HoldsTrue, TypeOK
  <2>2. cidByIp'[nb.ip] # id \/ status'[id] # "none"
    BY <1>1, <1>2, <2>1 DEF Remembers
  <2> QED
    BY <1>1, <1>2, <2>2 DEF Remembers, Awaited
<1>3. status[id] # "none" => status'[id] # "none"
  BY <1>1 DEF Remembers
<1> QED
  BY <1>2, <1>3 DEF Awaited

LEMMA EndsNext == HoldsTrue /\ PoolInv /\ SeenInv /\ EndsInv /\ [Next]_vars => EndsInv'
<1> SUFFICES ASSUME HoldsTrue, PoolInv, SeenInv, EndsInv, [Next]_vars PROVE EndsInv'
  OBVIOUS
<1>1. Remembers /\ StaysOnline
  BY RemembersNext, StaysOnlineNext
<1>2. /\ \A l \in links : l.source \in Ids /\ l.target \in Ids
      /\ \A k \in cdpLinks : k.source \in Ids
  BY DEF HoldsTrue, TypeOK, Links
<1>3. /\ \A k \in cdpLinks : status'[k.source] = "online"
      /\ \A l \in links : /\ status'[l.source] = "online"
                          /\ status'[l.target] # "none" \/ Awaited(l.target)'
  <2>1. ASSUME NEW l \in links PROVE status'[l.target] # "none" \/ Awaited(l.target)'
    BY <1>2, EndsStay DEF EndsInv
  <2> QED
    BY <1>1, <1>2, <2>1 DEF EndsInv, StaysOnline
<1>4. CASE UNCHANGED <<links, cdpLinks>>
  BY <1>3, <1>4 DEF EndsInv
<1>5. ASSUME NEW w \in Workers, HandleNeighbor(w) PROVE EndsInv'
  <2>1. PICK nb \in worker[w].lldp :
              /\ links' = links \cup {Link(worker[w].id, LldpTarget(nb), "lldp")}
              /\ nb \in network.lldp[Host(worker[w].ip)] /\ LldpTarget(nb) \in Ids
              /\ \/ Followed(nb) /\ nb.ip \in Ips /\ UNCHANGED status
                 \/ ~Followed(nb) /\ status[LldpTarget(nb)] # "none" /\ UNCHANGED status
                 \/ /\ ~Followed(nb)
                    /\ status' = [status EXCEPT ![LldpTarget(nb)] = "discovered"]
    BY <1>5, HandledNeighbor
  <2>2. Polling(w) /\ UNCHANGED <<network, cidByIp, cdpLinks>>
    BY <1>5, HandledNeighbor
  <2>3. status[worker[w].id] = "online" /\ worker[w].id \in Ids /\ Host(worker[w].ip) \in Cids
    BY <2>2, PollingFacts DEF HoldsTrue, PollOK
  <2>4. status'[LldpTarget(nb)] # "none" \/ Awaited(LldpTarget(nb))'
    <3>1. CASE Followed(nb)
      <4>1. cidByIp[nb.ip] # LldpTarget(nb) /\ nb.ip # None
        BY <2>1, <3>1, IdFacts DEF Followed, Known, SeenInv
      <4> QED
        BY <2>1, <2>2, <2>3, <4>1 DEF Awaited
    <3>2. status \in [Ids -> Statuses]
      BY DEF HoldsTrue, TypeOK
    <3> QED
      BY <2>1, <3>1, <3>2
  <2>5. \A l \in links' : l \in links \/ (l.source = worker[w].id /\ l.target = LldpTarget(nb))
    BY <2>1 DEF Link
  <2> QED
    BY <1>1, <1>3, <2>2, <2>3, <2>4, <2>5 DEF EndsInv, StaysOnline
<1>6. ASSUME NEW w \in Workers, HandleCdpNeighbor(w) PROVE EndsInv'
  <2>1. UNCHANGED links /\ Polling(w)
        /\ \E c : cdpLinks' = cdpLinks \cup {[source |-> worker[w].id, entry |-> c]}
    BY <1>6, HandledCdpNeighbor
  <2>2. status[worker[w].id] = "online" /\ worker[w].id \in Ids
    BY <2>1, PollingFacts DEF HoldsTrue, PollOK
  <2> QED
    BY <1>1, <1>3, <2>1, <2>2 DEF EndsInv, StaysOnline
<1>7. CASE ResolveCdpLinks
  <2>1. /\ UNCHANGED cdpLinks
        /\ \A k \in cdpLinks : status'[ResolvedTarget(k.entry)] # "none"
        /\ \A l \in links' : l \in links
                              \/ \E k \in cdpLinks : l.source = k.source /\ l.target = ResolvedTarget(k.entry)
    BY <1>7, Resolved
  <2> QED
    BY <1>3, <2>1 DEF EndsInv
<1>8. ASSUME NEW w \in Workers, WorkerNext(w) \/ Fails(w) PROVE EndsInv'
  BY <1>4, <1>5, <1>6, <1>8 DEF WorkerNext, Take, Unpollable, Identify, ReadNeighbors, MarkAccessPoint,
     ReadTables, Fails
<1>9. CASE Seed \/ Start \/ StopWorkers \/ UNCHANGED vars
  BY <1>4, <1>9 DEF Seed, Start, StopWorkers, vars
<1> QED
  BY <1>7, <1>8, <1>9 DEF Next, MainNext

(* Of a crawl that nothing disturbs: a seed that is not queued yet is one  *)
(* of those left; an address is expected to be of the device that answers  *)
(* there, or of one that answers nowhere; the devices are those that       *)
(* answered, under their own ids and names; one that counts as seen has an *)
(* address that was queued; every device that a polled one names is        *)
(* queued, or still in the tables its worker holds; and all is inside the  *)
(* sets that a sequential walk cannot leave.                               *)
Queues(h) == \E a \in enqueuedIps : Host(a) = h
SeedsInv ==
  /\ main # "seeding" => seeds = <<>>
  /\ \A i \in DOMAIN network.seeds :
       network.seeds[i] \in enqueuedIps \/ \E j \in DOMAIN seeds : seeds[j] = network.seeds[i]
Agrees(ip, id) ==
  id = None \/ Host(ip) = id \/ (id \in Cids /\ Host(ip) = None /\ \A i \in Ips : Host(i) # id)
ExpectedInv ==
  /\ \A i \in DOMAIN queue : queue[i] # Stop => Agrees(queue[i].ip, queue[i].expected)
  /\ \A w \in Workers : Asking(w) => Agrees(worker[w].ip, worker[w].expected)
IdentityInv ==
  /\ \A ip \in Ips : cidByIp[ip] # None /\ Host(ip) # None =>
       cidByIp[ip] = Host(ip) /\ status[Host(ip)] = "online"
  /\ \A n \in Names : cidByName[n] # None =>
       cidByName[n] \in Cids /\ network.name[cidByName[n]] = n /\ status[cidByName[n]] = "online"
  /\ \A w \in Workers : Polling(w) => worker[w].id = Host(worker[w].ip)
  /\ \A i \in Ids : status[i] = "online" => i \in Cids
SeenIsQueued == main # "done" => \A i \in Ips : Host(i) # None /\ Host(i) \in seen => Queues(Host(i))
StillNamed(w) ==
  IF worker[w].step = "read" THEN NamedBy(worker[w].id)
  ELSE {nb.ip : nb \in worker[w].lldp} \cup {c.ip : c \in worker[w].cdp}
HandledInv ==
  \A d \in Cids : status[d] = "online" =>
    \A h \in Hosts(NamedBy(d)) :
      Queues(h) \/ \E w \in Workers : Polling(w) /\ worker[w].id = d /\ h \in Hosts(StillNamed(w))
InsideInv ==
  \A S \in SUBSET Cids : Closed(S) =>
    Hosts(enqueuedIps) \subseteq S /\ \A i \in Ids : status[i] = "online" => i \in S
WalkInv == SeedsInv /\ ExpectedInv /\ IdentityInv /\ SeenIsQueued /\ HandledInv /\ InsideInv
MapInv == SeenInv /\ EndsInv /\ (Undisturbed => WalkInv)

LEMMA UndisturbedBefore ==
  ASSUME HoldsTrue, PoolInv, [Next]_vars, Undisturbed'
  PROVE  Undisturbed /\ network' = network
<1>1. Remembers /\ reserved \in Nat /\ reserved' \in Nat /\ MaxNodes \in Nat
  <2>1. HoldsTrue'
    BY HoldsTrueNext
  <2> QED
    BY <2>1, RemembersNext, CrawlConstants DEF HoldsTrue, TypeOK
<1>2. Alike' => Alike
  BY <1>1 DEF Remembers, Alike, Host
<1> QED
  BY <1>1, <1>2 DEF Undisturbed, Remembers

(* What is told of a network only, is told of it for good.                 *)
LEMMA NetworkStays ==
  ASSUME network' = network
  PROVE  /\ \A ip : Host(ip)' = Host(ip) /\ \A d : NamedBy(d)' = NamedBy(d)
         /\ \A s : Hosts(s)' = Hosts(s) /\ \A S : Closed(S)' <=> Closed(S)
         /\ \A ip, id : Agrees(ip, id)' <=> Agrees(ip, id)
<1>1. (\A ip : Host(ip)' = Host(ip)) /\ (\A d : NamedBy(d)' = NamedBy(d))
  BY DEF Host, NamedBy
<1>2. \A s : Hosts(s)' = Hosts(s)
  BY <1>1 DEF Hosts
<1>3. \A S : Closed(S)' <=> Closed(S)
  BY <1>1, <1>2 DEF Closed
<1>4. \A ip, id : Agrees(ip, id)' <=> Agrees(ip, id)
  BY <1>1 DEF Agrees
<1> QED
  BY <1>1, <1>2, <1>3, <1>4

(* In a network of which all is told alike, what a table says.             *)
LEMMA AlikeFacts ==
  ASSUME HoldsTrue, Alike
  PROVE  /\ \A d \in Cids : \A nb \in network.lldp[d] :
              /\ nb.ip \in Ips /\ nb.chassis \in Cids /\ LldpTarget(nb) = nb.chassis
              /\ Agrees(nb.ip, nb.chassis) /\ nb.ip \in NamedBy(d)
         /\ \A d \in Cids : \A c \in network.cdp[d] : c.ip \in Ips /\ c.ip \in NamedBy(d)
         /\ \A d \in Cids : NamedBy(d) \subseteq Ips
         /\ \A s \in SUBSET Ips : \A h : h \in Hosts(s) <=> \E i \in s : Host(i) = h /\ h # None
         /\ \A i \in Ips : Host(i) \in Cids \cup {None}
         /\ \A i \in Ips : \A e \in Ids \cup {None} : Host(i) # None => ChassisId(i, e) = Host(i)
<1>1. ASSUME NEW d \in Cids, NEW nb \in network.lldp[d]
      PROVE  /\ nb.ip \in Ips /\ nb.chassis \in Cids /\ LldpTarget(nb) = nb.chassis
             /\ Agrees(nb.ip, nb.chassis) /\ nb.ip \in NamedBy(d)
  <2>1. nb \in LldpEntry
    BY <1>1, NetworkFacts DEF HoldsTrue, TypeOK
  <2>2. nb.ip \in Ips /\ nb.chassis \in Cids
    BY <1>1, <2>1 DEF Alike, LldpEntry
  <2> QED
    BY <1>1, <2>2, IdFacts DEF Alike, Agrees, LldpTarget, NamedBy
<1>2. ASSUME NEW d \in Cids, NEW c \in network.cdp[d]
      PROVE  c.ip \in Ips /\ c.ip \in NamedBy(d)
  <2>1. c \in CdpEntry
    BY <1>2, NetworkFacts DEF HoldsTrue, TypeOK
  <2> QED
    BY <1>2, <2>1 DEF Alike, CdpEntry, NamedBy
<1>3. \A d \in Cids : NamedBy(d) \subseteq Ips
  BY <1>1, <1>2 DEF NamedBy
<1>4. ASSUME NEW s \in SUBSET Ips, NEW h PROVE h \in Hosts(s) <=> \E i \in s : Host(i) = h /\ h # None
  BY IdFacts DEF Hosts
<1>5. \A i \in Ips : Host(i) \in Cids \cup {None}
  BY AnswerTypes, IdFacts DEF HoldsTrue, TypeOK
<1>6. \A i \in Ips : \A e \in Ids \cup {None} : Host(i) # None => ChassisId(i, e) = Host(i)
  BY <1>5 DEF ChassisId, Alike
<1> QED
  BY <1>1, <1>2, <1>3, <1>4, <1>5, <1>6

LEMMA QueuedForGood == HoldsTrue /\ [Next]_vars => enqueuedIps \subseteq enqueuedIps'
<1> SUFFICES ASSUME HoldsTrue, [Next]_vars PROVE enqueuedIps \subseteq enqueuedIps'
  OBVIOUS
<1>1. ASSUME UNCHANGED enqueuedIps \/ \E ip, cid : Enqueue(ip, cid) PROVE enqueuedIps \subseteq enqueuedIps'
  BY <1>1, EnqueueRecords
<1>2. ASSUME NEW w \in Workers, HandleNeighbor(w) \/ HandleCdpNeighbor(w) PROVE enqueuedIps \subseteq enqueuedIps'
  <2>1. CASE HandleNeighbor(w)
    BY <1>1, <2>1 DEF HandleNeighbor, queueVars
  <2>2. CASE HandleCdpNeighbor(w)
    BY <1>1, <2>2 DEF HandleCdpNeighbor, queueVars
  <2> QED
    BY <1>2, <2>1, <2>2
<1>3. ASSUME NEW w \in Workers, WorkerNext(w) \/ Fails(w) PROVE enqueuedIps \subseteq enqueuedIps'
  BY <1>2, <1>3 DEF WorkerNext, Take, Unpollable, Identify, ReadNeighbors, MarkAccessPoint, ReadTables, Fails,
     queueVars
<1>4. Seed \/ Start \/ StopWorkers \/ ResolveCdpLinks \/ UNCHANGED vars => enqueuedIps \subseteq enqueuedIps'
  BY <1>1 DEF Seed, Start, StopWorkers, ResolveCdpLinks, vars, queueVars
<1> QED
  BY <1>3, <1>4 DEF Next, MainNext

LEMMA SeedsNext ==
  ASSUME HoldsTrue, PoolInv, SeedsInv, [Next]_vars, network' = network, reserved < MaxNodes
  PROVE  SeedsInv'
<1>1. enqueuedIps \subseteq enqueuedIps'
  BY QueuedForGood
<1>2. ASSUME UNCHANGED seeds, main' # "seeding" => main # "seeding" \/ seeds = <<>> PROVE SeedsInv'
  BY <1>1, <1>2 DEF SeedsInv
<1>3. CASE Seed
  <2>1. Enqueue(Head(seeds), None) /\ seeds' = Tail(seeds) /\ seeds # <<>> /\ seeds \in Seq(Ips)
    BY <1>3 DEF Seed, HoldsTrue, TypeOK
  <2>2. Head(seeds) \in enqueuedIps' /\ Head(seeds) = seeds[1]
    BY <2>1, EnqueueRecords
  <2>3. ASSUME NEW j \in DOMAIN seeds, j # 1 PROVE j - 1 \in DOMAIN seeds' /\ seeds'[j - 1] = seeds[j]
    <3>1. /\ Len(seeds) \in Nat /\ Len(seeds') = Len(seeds) - 1
          /\ DOMAIN seeds = 1..Len(seeds) /\ DOMAIN seeds' = 1..Len(seeds')
          /\ \A i \in 1..Len(seeds') : seeds'[i] = seeds[i + 1]
      BY <2>1, HeadTailProperties, LenProperties
    <3> QED
      BY <2>3, <3>1
  <2>4. main' = "seeding"
    BY <1>3 DEF Seed
  <2> QED
    BY <1>1, <2>2, <2>3, <2>4 DEF SeedsInv
<1>4. ASSUME NEW w \in Workers, WorkerNext(w) \/ Fails(w) PROVE UNCHANGED <<seeds, main>>
  BY <1>4 DEF WorkerNext, Take, Unpollable, Identify, ReadNeighbors, MarkAccessPoint, HandleNeighbor,
     HandleCdpNeighbor, ReadTables, Fails, workerUnchanged
<1>5. Start \/ StopWorkers \/ ResolveCdpLinks \/ UNCHANGED vars =>
        UNCHANGED seeds /\ (main' # "seeding" => main # "seeding" \/ seeds = <<>>)
  BY DEF Start, StopWorkers, ResolveCdpLinks, vars
<1> QED
  BY <1>2, <1>3, <1>4, <1>5 DEF Next, MainNext

(* The order of the queue, and what a worker is told.                      *)
LEMMA ExpectedNext ==
  ASSUME HoldsTrue, PoolInv, ExpectedInv, [Next]_vars, network' = network, Alike
  PROVE  ExpectedInv'
<1>1. /\ queue \in Seq(Items \cup {Stop}) /\ Len(queue) \in Nat /\ DOMAIN queue = 1..Len(queue)
      /\ worker \in [Workers -> WorkerStates]
  BY LenProperties DEF HoldsTrue, TypeOK
<1>2. \A ip, id : Agrees(ip, id)' <=> Agrees(ip, id)
  BY NetworkStays
<1>3. ASSUME \A i \in DOMAIN queue' : queue'[i] # Stop => Agrees(queue'[i].ip, queue'[i].expected),
             \A w \in Workers : worker'[w].step = "identify" =>
               Agrees(worker'[w].ip, worker'[w].expected)
      PROVE  ExpectedInv'
  BY <1>2, <1>3 DEF ExpectedInv, Asking
<1>4. ASSUME NEW ip, NEW cid, Enqueue(ip, cid), Agrees(ip, cid)
      PROVE  \A i \in DOMAIN queue' : queue'[i] # Stop => Agrees(queue'[i].ip, queue'[i].expected)
  <2>1. queue' = queue \/ queue' = Append(queue, Item(ip, cid))
    BY <1>4, EnqueueRecords
  <2>2. ASSUME queue' = Append(queue, Item(ip, cid)), NEW i \in DOMAIN queue'
        PROVE  (i \in DOMAIN queue /\ queue'[i] = queue[i]) \/ queue'[i] = Item(ip, cid)
    BY <1>1, <2>2
  <2> QED
    BY <1>4, <2>1, <2>2 DEF ExpectedInv, Item
<1>5. ASSUME NEW w \in Workers, NEW state, worker' = [worker EXCEPT ![w] = state], state.step # "identify"
      PROVE  \A v \in Workers : worker'[v].step = "identify" => Agrees(worker'[v].ip, worker'[v].expected)
  BY <1>1, <1>5 DEF ExpectedInv, Asking
<1>6. ASSUME UNCHANGED <<queue, worker>> PROVE ExpectedInv'
  BY <1>2, <1>6 DEF ExpectedInv, Asking
<1>7. CASE Seed
  <2>1. Enqueue(Head(seeds), None) /\ UNCHANGED worker
    BY <1>7 DEF Seed
  <2>2. Agrees(Head(seeds), None)
    BY DEF Agrees
  <2> QED
    BY <1>3, <1>4, <2>1, <2>2 DEF ExpectedInv, Asking
<1>8. CASE StopWorkers
  <2>1. UNCHANGED worker /\ (queue' = queue \/ \A i \in DOMAIN queue' : queue'[i] = Stop)
    BY <1>8, StopsType DEF StopWorkers
  <2> QED
    BY <1>3, <2>1 DEF ExpectedInv, Asking
<1>9. ASSUME NEW w \in Workers, Take(w) PROVE ExpectedInv'
  <2>1. /\ queue # <<>> /\ queue' = Tail(queue)
        /\ worker' = [worker EXCEPT ![w] =
             IF Head(queue) = Stop THEN At("stopped", None, None)
             ELSE At("identify", Head(queue).ip, Head(queue).expected)]
    BY <1>9 DEF Take
  <2>2. /\ Head(queue) = queue[1] /\ 1 \in DOMAIN queue
        /\ \A i \in DOMAIN queue' : i + 1 \in DOMAIN queue /\ queue'[i] = queue[i + 1]
    BY <1>1, <2>1, HeadTailProperties, LenProperties, EmptySeq
  <2>3. \A i \in DOMAIN queue' : queue'[i] # Stop => Agrees(queue'[i].ip, queue'[i].expected)
    BY <2>2 DEF ExpectedInv
  <2>4. Head(queue) # Stop => Agrees(Head(queue).ip, Head(queue).expected)
    BY <2>2 DEF ExpectedInv
  <2>5. ASSUME NEW v \in Workers, worker'[v].step = "identify" PROVE Agrees(worker'[v].ip, worker'[v].expected)
    <3>1. CASE v = w
      BY <1>1, <2>1, <2>4, <2>5, <3>1 DEF At
    <3>2. CASE v # w
      BY <1>1, <2>1, <2>5, <3>2 DEF ExpectedInv, Asking
    <3> QED
      BY <3>1, <3>2
  <2> QED
    BY <1>3, <2>3, <2>5
<1>10. ASSUME NEW w \in Workers, HandleNeighbor(w) PROVE ExpectedInv'
  <2>1. PICK nb \in worker[w].lldp :
              /\ worker' = [worker EXCEPT ![w] = WithoutLldp(w, nb)]
              /\ nb \in network.lldp[Host(worker[w].ip)]
              /\ Enqueue(nb.ip, LldpTarget(nb)) \/ UNCHANGED queue
    BY <1>10, HandledNeighbor DEF queueVars
  <2>2. Polling(w) /\ Host(worker[w].ip) \in Cids
    BY <1>10, HandledNeighbor, PollingFacts DEF HoldsTrue
  <2>3. Agrees(nb.ip, LldpTarget(nb))
    BY <2>1, <2>2, AlikeFacts
  <2>4. WithoutLldp(w, nb).step # "identify"
    BY <1>1, <2>2, WorkerMoves DEF Polling
  <2> QED
    BY <1>3, <1>4, <1>5, <2>1, <2>3, <2>4 DEF ExpectedInv
<1>11. ASSUME NEW w \in Workers, HandleCdpNeighbor(w) PROVE ExpectedInv'
  <2>1. PICK c \in worker[w].cdp :
              /\ worker' = [worker EXCEPT ![w] = WithoutCdp(w, c)]
              /\ Enqueue(c.ip, None) \/ UNCHANGED queue
    BY <1>11, HandledCdpNeighbor DEF queueVars
  <2>2. Polling(w)
    BY <1>11, HandledCdpNeighbor
  <2>3. Agrees(c.ip, None)
    BY DEF Agrees
  <2>4. WithoutCdp(w, c).step # "identify"
    BY <1>1, <2>2, WorkerMoves DEF Polling
  <2> QED
    BY <1>3, <1>4, <1>5, <2>1, <2>3, <2>4 DEF ExpectedInv
<1>12. ASSUME NEW w \in Workers,
              UNCHANGED queue, \E state : worker' = [worker EXCEPT ![w] = state] /\ state.step # "identify"
       PROVE  ExpectedInv'
  BY <1>3, <1>5, <1>12 DEF ExpectedInv
<1>13. ASSUME NEW w \in Workers, Unpollable(w) \/ Identify(w) \/ ReadTables(w) \/ Fails(w) PROVE ExpectedInv'
  <2>1. Idle.step # "identify" /\ \A id : Identified(w, id).step # "identify"
    BY <1>1, IdleType DEF Identified, WorkerStates
  <2> QED
    BY <1>12, <1>13, <2>1 DEF Unpollable, Identify, ReadTables, Fails, TaskDone, queueVars
<1>14. ASSUME NEW w \in Workers, ReadNeighbors(w) \/ MarkAccessPoint(w) PROVE ExpectedInv'
  <2>1. TablesRead(w).step # "identify" /\ Moved(w, "neighbors").step # "identify"
    BY <1>1 DEF TablesRead, Moved, WorkerStates
  <2> QED
    BY <1>12, <1>14, <2>1 DEF ReadNeighbors, MarkAccessPoint, queueVars
<1>15. Start \/ ResolveCdpLinks \/ UNCHANGED vars => ExpectedInv'
  BY <1>6 DEF Start, ResolveCdpLinks, vars, queueVars
<1> QED
  BY <1>7, <1>8, <1>9, <1>10, <1>11, <1>13, <1>14, <1>15 DEF Next, MainNext, WorkerNext

LEMMA IdentityNext ==
  ASSUME HoldsTrue, PoolInv, IdentityInv, [Next]_vars, network' = network, Alike
  PROVE  IdentityInv'
<1>1. /\ worker \in [Workers -> WorkerStates] /\ status \in [Ids -> Statuses]
      /\ cidByName \in [Names -> Ids \cup {None}] /\ network \in Networks
  BY DEF HoldsTrue, TypeOK
<1>2. StaysOnline /\ \A ip : Host(ip)' = Host(ip)
  BY StaysOnlineNext, NetworkStays
<1>3. Cids \subseteq Ids /\ None \notin Cids /\ \A i \in Ips : Host(i) \in Cids \cup {None}
  BY AlikeFacts, IdFacts
<1>4. ASSUME \A ip \in Ips : cidByIp'[ip] = cidByIp[ip] \/ Host(ip) = None
                             \/ (cidByIp'[ip] = Host(ip) /\ status'[Host(ip)] = "online"),
             \A n \in Names : cidByName'[n] = cidByName[n]
                             \/ (cidByName'[n] \in Cids /\ network.name[cidByName'[n]] = n
                                 /\ status'[cidByName'[n]] = "online"),
             \A v \in Workers : Polling(v)' => /\ Polling(v) => worker'[v].id = worker[v].id
                                               /\ worker'[v].ip = worker[v].ip
                                               /\ Polling(v) \/ worker'[v].id = Host(worker'[v].ip),
             \A i \in Ids : status'[i] = "online" => status[i] = "online" \/ i \in Cids
      PROVE  IdentityInv'
  <2>1. \A ip \in Ips : cidByIp'[ip] # None /\ Host(ip) # None =>
          cidByIp'[ip] = Host(ip) /\ status'[Host(ip)] = "online"
    BY <1>2, <1>3, <1>4 DEF IdentityInv, StaysOnline
  <2>2. \A n \in Names : cidByName'[n] # None =>
       cidByName'[n] \in Cids /\ network.name[cidByName'[n]] = n /\ status'[cidByName'[n]] = "online"
    BY <1>2, <1>3, <1>4 DEF IdentityInv, StaysOnline
  <2>3. \A v \in Workers : Polling(v)' => worker'[v].id = Host(worker'[v].ip)
    BY <1>4 DEF IdentityInv
  <2>4. \A i \in Ids : status'[i] = "online" => i \in Cids
    BY <1>4 DEF IdentityInv
  <2> QED
    BY <1>2, <2>1, <2>2, <2>3, <2>4 DEF IdentityInv
<1>5. ASSUME NEW w \in Workers, NEW state, worker' = [worker EXCEPT ![w] = state],
             state.step \in {"read", "check", "neighbors"} =>
               Polling(w) /\ state.id = worker[w].id /\ state.ip = worker[w].ip
      PROVE  \A v \in Workers : Polling(v)' => Polling(v) /\ worker'[v].id = worker[v].id
                                               /\ worker'[v].ip = worker[v].ip
  <2> SUFFICES ASSUME NEW v \in Workers, Polling(v)'
               PROVE  Polling(v) /\ worker'[v].id = worker[v].id /\ worker'[v].ip = worker[v].ip
    OBVIOUS
  <2>1. CASE v = w
    BY <1>1, <1>5, <2>1 DEF Polling
  <2>2. CASE v # w
    BY <1>1, <1>5, <2>2 DEF Polling
  <2> QED
    BY <2>1, <2>2
<1>6. ASSUME UNCHANGED <<cidByIp, cidByName>>, \A i \in Ids : status'[i] = "online" => status[i] = "online",
             UNCHANGED worker \/ \E w \in Workers : \E state :
               /\ worker' = [worker EXCEPT ![w] = state]
               /\ state.step \in {"read", "check", "neighbors"} =>
                    Polling(w) /\ state.id = worker[w].id /\ state.ip = worker[w].ip
      PROVE  IdentityInv'
  <2>1. \A v \in Workers : Polling(v)' => Polling(v) /\ worker'[v].id = worker[v].id
                                               /\ worker'[v].ip = worker[v].ip
    BY <1>5, <1>6 DEF Polling
  <2> QED
    BY <1>4, <1>6, <2>1
<1>7. ASSUME NEW w \in Workers, Unpollable(w) PROVE IdentityInv'
  <2>1. /\ Verdict(w, Untried(worker[w].ip, worker[w].expected))
        /\ Host(worker[w].ip) = None /\ TaskDone(w) /\ UNCHANGED cidByName
        /\ \A i \in Ids : status'[i] = "online" => status[i] = "online"
    BY <1>7, NoAnswer
  <2>2. \A ip \in Ips : cidByIp'[ip] = cidByIp[ip] \/ Host(ip) = None
    BY <2>1 DEF Verdict
  <2>3. \A v \in Workers : Polling(v)' => Polling(v) /\ worker'[v].id = worker[v].id
                                               /\ worker'[v].ip = worker[v].ip
    BY <1>5, <2>1, IdleType DEF TaskDone
  <2> QED
    BY <1>4, <2>1, <2>2, <2>3
<1>8. ASSUME NEW w \in Workers, Identify(w) PROVE IdentityInv'
  <2> DEFINE ip == worker[w].ip
             id == ChassisId(ip, worker[w].expected)
  <2>1. /\ Verdict(w, id) /\ status'[id] = "online" /\ Host(ip) # None
        /\ \/ TaskDone(w) /\ status[id] = "online" /\ UNCHANGED cidByName
           \/ /\ worker' = [worker EXCEPT ![w] = Identified(w, id)] /\ status[id] # "online"
              /\ cidByName' = SetDefault(cidByName, network.name[Host(ip)], id)
    BY <1>8, AnAnswer
  <2>2. ip \in Ips /\ worker[w].expected \in Ids \cup {None}
    BY <1>1, <2>1, WorkerFields DEF Verdict
  <2>3. id = Host(ip) /\ id \in Cids
    BY <1>3, <2>1, <2>2, AlikeFacts
  <2> HIDE DEF id
  <2>4. \A x \in Ips : cidByIp'[x] = cidByIp[x] \/ (cidByIp'[x] = Host(x) /\ status'[Host(x)] = "online")
    BY <2>1, <2>3 DEF Verdict
  <2>5. \A n \in Names : cidByName'[n] = cidByName[n]
                         \/ (cidByName'[n] = id /\ network.name[id] = n)
    BY <1>1, <2>1, <2>3 DEF SetDefault
  <2>6. \A v \in Workers : Polling(v)' => /\ Polling(v) => worker'[v].id = worker[v].id
                                          /\ worker'[v].ip = worker[v].ip
                                          /\ Polling(v) \/ worker'[v].id = Host(worker'[v].ip)
    <3>1. CASE TaskDone(w)
      BY <1>5, <3>1, IdleType DEF TaskDone
    <3>2. CASE worker' = [worker EXCEPT ![w] = Identified(w, id)]
      <4>1. Identified(w, id).ip = ip /\ Identified(w, id).id = id /\ ~Polling(w)
        BY <1>1, <1>3, <2>1, <2>3, WorkerMoves DEF Verdict, Asking, Polling
      <4> SUFFICES ASSUME NEW v \in Workers, Polling(v)'
                   PROVE  /\ Polling(v) => worker'[v].id = worker[v].id
                          /\ worker'[v].ip = worker[v].ip
                          /\ Polling(v) \/ worker'[v].id = Host(worker'[v].ip)
        OBVIOUS
      <4>2. CASE v = w
        BY <1>1, <2>3, <3>2, <4>1, <4>2
      <4>3. CASE v # w
        BY <1>1, <3>2, <4>3 DEF Polling
      <4> QED
        BY <4>2, <4>3
    <3> QED
      BY <2>1, <3>1, <3>2
  <2>7. \A i \in Ids : status'[i] = "online" => status[i] = "online" \/ i \in Cids
    BY <2>1, <2>3 DEF Verdict
  <2> QED
    BY <1>4, <2>1, <2>3, <2>4, <2>5, <2>6, <2>7
<1>9. ASSUME NEW w \in Workers, HandleNeighbor(w) PROVE IdentityInv'
  <2>1. PICK nb \in worker[w].lldp :
              /\ worker' = [worker EXCEPT ![w] = WithoutLldp(w, nb)]
              /\ UNCHANGED status \/ status' = [status EXCEPT ![LldpTarget(nb)] = "discovered"]
    BY <1>9, HandledNeighbor
  <2>2. Polling(w) /\ UNCHANGED <<cidByIp, cidByName>>
    BY <1>9, HandledNeighbor
  <2>3. WithoutLldp(w, nb).id = worker[w].id /\ WithoutLldp(w, nb).ip = worker[w].ip
    BY <1>1, WorkerMoves
  <2>4. \A i \in Ids : status'[i] = "online" => status[i] = "online"
    BY <1>1, <2>1
  <2> QED
    BY <1>6, <2>1, <2>2, <2>3, <2>4
<1>10. ASSUME NEW w \in Workers, HandleCdpNeighbor(w) PROVE IdentityInv'
  <2>1. PICK c \in worker[w].cdp : worker' = [worker EXCEPT ![w] = WithoutCdp(w, c)]
    BY <1>10, HandledCdpNeighbor
  <2>2. Polling(w) /\ UNCHANGED <<cidByIp, cidByName, status>>
    BY <1>10, HandledCdpNeighbor
  <2>3. WithoutCdp(w, c).id = worker[w].id /\ WithoutCdp(w, c).ip = worker[w].ip
    BY <1>1, WorkerMoves
  <2> QED
    BY <1>6, <2>1, <2>2, <2>3
<1>11. ASSUME NEW w \in Workers, Take(w) \/ ReadTables(w) \/ Fails(w) PROVE IdentityInv'
  <2>1. \E state : worker' = [worker EXCEPT ![w] = state] /\ state.step \notin {"read", "check", "neighbors"}
    BY <1>11, IdleType DEF Take, ReadTables, Fails, TaskDone, At
  <2>2. UNCHANGED <<cidByIp, cidByName, status>>
    BY <1>11 DEF Take, ReadTables, Fails, recordVars, lookupVars
  <2> QED
    BY <1>6, <2>1, <2>2
<1>12. ASSUME NEW w \in Workers, ReadNeighbors(w) \/ MarkAccessPoint(w) PROVE IdentityInv'
  <2>1. UNCHANGED <<cidByIp, cidByName, status>> /\ Polling(w)
        /\ (worker' = [worker EXCEPT ![w] = TablesRead(w)] \/ worker' = [worker EXCEPT ![w] = Moved(w, "neighbors")])
    BY <1>12 DEF ReadNeighbors, MarkAccessPoint, recordVars, lookupVars, Polling
  <2>2. /\ TablesRead(w).id = worker[w].id /\ TablesRead(w).ip = worker[w].ip
        /\ Moved(w, "neighbors").id = worker[w].id /\ Moved(w, "neighbors").ip = worker[w].ip
    BY <1>1 DEF TablesRead, Moved, WorkerStates
  <2> QED
    BY <1>6, <2>1, <2>2
<1>13. CASE ResolveCdpLinks
  <2>1. UNCHANGED <<cidByIp, cidByName, worker>>
        /\ \A i \in Ids : status[i] # "none" => status'[i] = status[i]
    BY <1>13, Resolved
  <2>2. \A i \in Ids : status[i] = "none" => status'[i] \in {"none", "discovered"}
    BY <1>13, Resolved
  <2> QED
    BY <1>6, <2>1, <2>2
<1>14. Seed \/ Start \/ StopWorkers \/ UNCHANGED vars => IdentityInv'
  BY <1>6 DEF Seed, Start, StopWorkers, vars, recordVars, lookupVars
<1> QED
  BY <1>7, <1>8, <1>9, <1>10, <1>11, <1>12, <1>13, <1>14 DEF Next, MainNext, WorkerNext

LEMMA SeenQueuedNext ==
  ASSUME HoldsTrue, PoolInv, SeenInv, ExpectedInv, SeenIsQueued, [Next]_vars, network' = network, Alike
  PROVE  SeenIsQueued'
<1> SUFFICES ASSUME main' # "done" PROVE SeenIsQueued'
  BY DEF SeenIsQueued
<1>1. enqueuedIps \subseteq enqueuedIps' /\ \A ip : Host(ip)' = Host(ip)
  BY QueuedForGood, NetworkStays
<1>2. \A i \in Ips : Host(i) \in Cids \cup {None}
  BY AlikeFacts
<1>3. ASSUME main # "done",
             \A i \in Ips : Host(i) # None /\ Host(i) \in seen' => Host(i) \in seen \/ \E a \in enqueuedIps' : Host(a) = Host(i)
      PROVE  SeenIsQueued'
  BY <1>1, <1>3 DEF SeenIsQueued, Queues
<1>4. ASSUME NEW ip, NEW cid, Enqueue(ip, cid), Agrees(ip, cid), main # "done"
      PROVE  SeenIsQueued'
  <2>1. seen' = seen \/ (seen' = seen \cup ({cid} \ {None}) /\ ip \in enqueuedIps')
    BY <1>4, EnqueueRecords
  <2> QED
    BY <1>3, <1>4, <2>1 DEF Agrees
<1>5. ASSUME UNCHANGED seen, main # "done" PROVE SeenIsQueued'
  BY <1>3, <1>5
<1>6. ASSUME NEW w \in Workers, Unpollable(w) PROVE SeenIsQueued'
  <2> DEFINE ip == worker[w].ip
             e == worker[w].expected
  <2>1. Verdict(w, Untried(ip, e)) /\ Host(ip) = None
    BY <1>6, NoAnswer
  <2>2. seen' = seen \cup {Untried(ip, e)} /\ main' = main /\ ip \in Ips /\ Asking(w)
    BY <2>1 DEF Verdict
  <2>3. Agrees(ip, e)
    BY <2>2 DEF ExpectedInv
  <2>4. ASSUME NEW i \in Ips, Host(i) = Untried(ip, e), Host(i) # None PROVE FALSE
    <3>1. CASE e = None
      <4>1. Untried(ip, e) \in MadeUpIds
        BY <2>2, <3>1 DEF Untried, MadeUpIds
      <4> QED
        BY <1>2, <2>4, <4>1, CrawlConstants
    <3>2. CASE e # None
      BY <2>1, <2>3, <2>4, <3>2 DEF Agrees, Untried
    <3> QED
      BY <3>1, <3>2
  <2> QED
    BY <1>3, <2>2, <2>4
<1>7. ASSUME NEW w \in Workers, Identify(w) PROVE SeenIsQueued'
  <2> DEFINE ip == worker[w].ip
             id == ChassisId(ip, worker[w].expected)
  <2>1. Verdict(w, id) /\ Host(ip) # None
    BY <1>7, AnAnswer
  <2>2. seen' = seen \cup {id} /\ main' = main /\ ip \in Ips /\ ip \in enqueuedIps
    BY <2>1 DEF Verdict
  <2>3. worker[w].expected \in Ids \cup {None}
    BY WorkerFields DEF HoldsTrue, TypeOK
  <2>4. id = Host(ip)
    BY <2>1, <2>2, <2>3, AlikeFacts
  <2> QED
    BY <1>1, <1>3, <2>2, <2>4
<1>8. ASSUME NEW w \in Workers, HandleNeighbor(w) PROVE SeenIsQueued'
  <2>1. PICK nb \in worker[w].lldp :
              /\ nb \in network.lldp[Host(worker[w].ip)]
              /\ \/ Enqueue(nb.ip, LldpTarget(nb))
                 \/ ~Followed(nb) /\ status[LldpTarget(nb)] # "none" /\ UNCHANGED seen
                 \/ ~Followed(nb) /\ status[LldpTarget(nb)] = "none" /\ seen' = seen \cup {LldpTarget(nb)}
    BY <1>8, HandledNeighbor
  <2>2. Polling(w) /\ Host(worker[w].ip) \in Cids /\ main' = main
    BY <1>8, HandledNeighbor, PollingFacts DEF HoldsTrue
  <2>3. Agrees(nb.ip, LldpTarget(nb)) /\ nb.ip \in Ips
    BY <2>1, <2>2, AlikeFacts
  <2>4. CASE ~Followed(nb) /\ status[LldpTarget(nb)] = "none" /\ seen' = seen \cup {LldpTarget(nb)}
    <3>1. LldpTarget(nb) \in seen
      BY <2>3, <2>4, IdFacts DEF Followed, Known
    <3> QED
      BY <1>5, <2>2, <2>4, <3>1
  <2> QED
    BY <1>4, <1>5, <2>1, <2>2, <2>3, <2>4
<1>9. ASSUME NEW w \in Workers, HandleCdpNeighbor(w) PROVE SeenIsQueued'
  <2>1. main' = main /\ (UNCHANGED seen \/ \E ip : Enqueue(ip, None))
    BY <1>9, HandledCdpNeighbor
  <2> QED
    BY <1>4, <1>5, <2>1 DEF Agrees
<1>10. CASE Seed
  <2>1. Enqueue(Head(seeds), None) /\ main # "done"
    BY <1>10 DEF Seed
  <2> QED
    BY <1>4, <2>1 DEF Agrees
<1>11. ASSUME NEW w \in Workers,
             Take(w) \/ ReadNeighbors(w) \/ MarkAccessPoint(w) \/ ReadTables(w) \/ Fails(w)
       PROVE  SeenIsQueued'
  BY <1>5, <1>11 DEF Take, ReadNeighbors, MarkAccessPoint, ReadTables, Fails, workerUnchanged
<1>12. Start \/ StopWorkers \/ UNCHANGED vars => SeenIsQueued'
  BY <1>5 DEF Start, StopWorkers, vars
<1>13. ~ResolveCdpLinks
  BY DEF ResolveCdpLinks
<1> QED
  BY <1>6, <1>7, <1>8, <1>9, <1>10, <1>11, <1>12, <1>13 DEF Next, MainNext, WorkerNext

LEMMA InsideNext ==
  ASSUME HoldsTrue, PoolInv, GivenInv, IdentityInv, InsideInv, [Next]_vars, network' = network, Alike
  PROVE  InsideInv'
<1> SUFFICES ASSUME NEW S \in SUBSET Cids, Closed(S)
             PROVE  Hosts(enqueuedIps') \subseteq S /\ \A i \in Ids : status'[i] = "online" => i \in S
  BY NetworkStays DEF InsideInv
<1>1. /\ enqueuedIps \subseteq Ips /\ status \in [Ids -> Statuses] /\ seeds \in Seq(Ips)
      /\ Cids \subseteq Ids /\ None \notin Ips
  BY IdFacts DEF HoldsTrue, TypeOK
<1>2. Hosts(enqueuedIps) \subseteq S /\ \A i \in Ids : status[i] = "online" => i \in S
  BY DEF InsideInv
<1>3. ASSUME UNCHANGED enqueuedIps, \A i \in Ids : status'[i] = "online" => status[i] = "online"
      PROVE  Hosts(enqueuedIps') \subseteq S /\ \A i \in Ids : status'[i] = "online" => i \in S
  BY <1>2, <1>3
<1>4. ASSUME NEW ip, NEW cid, Enqueue(ip, cid), Host(ip) = None \/ Host(ip) \in S, UNCHANGED status
      PROVE  Hosts(enqueuedIps') \subseteq S /\ \A i \in Ids : status'[i] = "online" => i \in S
  <2>1. enqueuedIps' = enqueuedIps \/ enqueuedIps' = enqueuedIps \cup {ip}
    BY <1>4, EnqueueRecords
  <2> QED
    BY <1>2, <1>4, <2>1 DEF Hosts
<1>5. CASE Seed
  <2>1. Enqueue(Head(seeds), None) /\ UNCHANGED status /\ seeds # <<>>
    BY <1>5 DEF Seed, recordVars
  <2>2. Head(seeds) = seeds[1] /\ 1 \in DOMAIN seeds /\ Head(seeds) \in Ips
    BY <1>1, <2>1, LenProperties, EmptySeq
  <2>3. PICK j \in DOMAIN network.seeds : network.seeds[j] = Head(seeds)
    BY <2>2 DEF GivenInv, SeedsGiven
  <2>4. Host(Head(seeds)) = None \/ Host(Head(seeds)) \in S
    BY <1>1, <2>2, <2>3 DEF Closed, Hosts
  <2> QED
    BY <1>4, <2>1, <2>4
<1>6. ASSUME NEW w \in Workers, Polling(w), NEW ip \in Ips, ip \in NamedBy(Host(worker[w].ip))
      PROVE  Host(ip) = None \/ Host(ip) \in S
  <2>1. worker[w].id = Host(worker[w].ip) /\ status[worker[w].id] = "online" /\ worker[w].id \in Ids
    BY <1>6, PollingFacts DEF IdentityInv, HoldsTrue, PollOK
  <2>2. Hosts(NamedBy(Host(worker[w].ip))) \subseteq S
    BY <1>2, <2>1 DEF Closed
  <2> QED
    BY <1>1, <1>6, <2>2 DEF Hosts
<1>7. ASSUME NEW w \in Workers, HandleNeighbor(w)
      PROVE  Hosts(enqueuedIps') \subseteq S /\ \A i \in Ids : status'[i] = "online" => i \in S
  <2>1. PICK nb \in worker[w].lldp :
              /\ nb \in network.lldp[Host(worker[w].ip)]
              /\ \/ Enqueue(nb.ip, LldpTarget(nb)) /\ UNCHANGED status
                 \/ UNCHANGED queueVars /\ UNCHANGED status
                 \/ UNCHANGED queueVars /\ status' = [status EXCEPT ![LldpTarget(nb)] = "discovered"]
    BY <1>7, HandledNeighbor
  <2>2. Polling(w) /\ Host(worker[w].ip) \in Cids
    BY <1>7, HandledNeighbor, PollingFacts DEF HoldsTrue
  <2>3. Host(nb.ip) = None \/ Host(nb.ip) \in S
    BY <1>6, <2>1, <2>2, AlikeFacts
  <2> QED
    BY <1>1, <1>3, <1>4, <2>1, <2>3 DEF queueVars
<1>8. ASSUME NEW w \in Workers, HandleCdpNeighbor(w)
      PROVE  Hosts(enqueuedIps') \subseteq S /\ \A i \in Ids : status'[i] = "online" => i \in S
  <2>1. PICK c \in worker[w].cdp :
              /\ c \in network.cdp[Host(worker[w].ip)]
              /\ Enqueue(c.ip, None) \/ UNCHANGED queueVars
    BY <1>8, HandledCdpNeighbor
  <2>2. Polling(w) /\ Host(worker[w].ip) \in Cids /\ UNCHANGED status
    BY <1>8, HandledCdpNeighbor, PollingFacts DEF HoldsTrue
  <2>3. Host(c.ip) = None \/ Host(c.ip) \in S
    BY <1>6, <2>1, <2>2, AlikeFacts
  <2> QED
    BY <1>3, <1>4, <2>1, <2>2, <2>3 DEF queueVars
<1>9. ASSUME NEW w \in Workers, Unpollable(w)
      PROVE  Hosts(enqueuedIps') \subseteq S /\ \A i \in Ids : status'[i] = "online" => i \in S
  BY <1>3, <1>9, NoAnswer DEF Verdict
<1>10. ASSUME NEW w \in Workers, Identify(w)
      PROVE  Hosts(enqueuedIps') \subseteq S /\ \A i \in Ids : status'[i] = "online" => i \in S
  <2> DEFINE ip == worker[w].ip
             id == ChassisId(ip, worker[w].expected)
  <2>1. Verdict(w, id) /\ Host(ip) # None
    BY <1>10, AnAnswer
  <2>2. worker[w].expected \in Ids \cup {None}
    BY WorkerFields DEF HoldsTrue, TypeOK
  <2>3. id = Host(ip) /\ ip \in enqueuedIps /\ ip \in Ips
    BY <2>1, <2>2, AlikeFacts DEF Verdict
  <2>4. id \in S
    BY <1>1, <1>2, <2>1, <2>3 DEF Hosts
  <2>5. UNCHANGED enqueuedIps /\ \A i \in Ids \ {id} : status'[i] = status[i]
    BY <2>1 DEF Verdict
  <2> QED
    BY <1>2, <2>4, <2>5
<1>11. ASSUME NEW w \in Workers,
              Take(w) \/ ReadNeighbors(w) \/ MarkAccessPoint(w) \/ ReadTables(w) \/ Fails(w)
       PROVE  UNCHANGED <<enqueuedIps, status>>
  BY <1>11 DEF Take, ReadNeighbors, MarkAccessPoint, ReadTables, Fails, recordVars, queueVars
<1>12. Start \/ StopWorkers \/ UNCHANGED vars => UNCHANGED <<enqueuedIps, status>>
  BY DEF Start, StopWorkers, vars, recordVars, queueVars
<1>13. ASSUME ResolveCdpLinks
       PROVE  Hosts(enqueuedIps') \subseteq S /\ \A i \in Ids : status'[i] = "online" => i \in S
  <2>1. UNCHANGED enqueuedIps
        /\ \A i \in Ids : status[i] # "none" => status'[i] = status[i]
    BY <1>13, Resolved
  <2>2. \A i \in Ids : status[i] = "none" => status'[i] \in {"none", "discovered"}
    BY <1>13, Resolved
  <2> QED
    BY <1>3, <2>1, <2>2
<1> QED
  BY <1>3, <1>5, <1>7, <1>8, <1>9, <1>10, <1>11, <1>12, <1>13 DEF Next, MainNext, WorkerNext

(* A step of one worker, after which what it no longer holds is queued.    *)
LEMMA HandledBy ==
  ASSUME HoldsTrue, HandledInv, network' = network, Alike, enqueuedIps \subseteq enqueuedIps',
         \A i \in Ids : status'[i] = "online" => status[i] = "online",
         NEW w \in Workers, NEW state, worker' = [worker EXCEPT ![w] = state],
         \A h \in Hosts(StillNamed(w)) : Polling(w) =>
           Queues(h)' \/ (Polling(w)' /\ state.id = worker[w].id /\ h \in Hosts(StillNamed(w)'))
  PROVE  HandledInv'
<1>1. worker \in [Workers -> WorkerStates] /\ Cids \subseteq Ids
  BY IdFacts DEF HoldsTrue, TypeOK
<1>2. (\A d : NamedBy(d)' = NamedBy(d)) /\ (\A s : Hosts(s)' = Hosts(s)) /\ (\A ip : Host(ip)' = Host(ip))
  BY NetworkStays
<1>3. \A h : Queues(h) => Queues(h)'
  BY <1>2 DEF Queues
<1>4. \A v \in Workers \ {w} : StillNamed(v)' = StillNamed(v) /\ (Polling(v)' <=> Polling(v)) /\ worker'[v] = worker[v]
  BY <1>1, <1>2 DEF StillNamed, Polling
<1> SUFFICES ASSUME NEW d \in Cids, status'[d] = "online", NEW h \in Hosts(NamedBy(d)), ~Queues(h)'
             PROVE  \E v \in Workers : Polling(v)' /\ worker'[v].id = d /\ h \in Hosts(StillNamed(v)')
  BY <1>2 DEF HandledInv
<1>5. status[d] = "online" /\ ~Queues(h)
  BY <1>1, <1>3
<1>6. PICK v \in Workers : Polling(v) /\ worker[v].id = d /\ h \in Hosts(StillNamed(v))
  BY <1>5 DEF HandledInv
<1>7. CASE v = w
  BY <1>1, <1>6, <1>7
<1>8. CASE v # w
  BY <1>4, <1>6, <1>8
<1> QED
  BY <1>7, <1>8

(* What an entry that is handled names is queued, whether it is now, was   *)
(* before, or is of a device that counts as seen.                          *)
LEMMA NeighborQueued ==
  ASSUME HoldsTrue, PoolInv, SeenInv, SeenIsQueued, Alike, network' = network, reserved < MaxNodes,
         NEW w \in Workers, Polling(w), NEW nb \in network.lldp[Host(worker[w].ip)], Host(nb.ip) # None,
         (Followed(nb) /\ Enqueue(nb.ip, LldpTarget(nb))) \/ (~Followed(nb) /\ UNCHANGED enqueuedIps)
  PROVE  \E a \in enqueuedIps' : Host(a) = Host(nb.ip)
<1>1. /\ nb.ip \in Ips /\ nb.ip # None /\ LldpTarget(nb) = nb.chassis /\ Agrees(nb.ip, nb.chassis)
      /\ nb.chassis \in Cids /\ nb.chassis # None /\ nb.chassis \in Ids
  BY PollingFacts, AlikeFacts, IdFacts DEF HoldsTrue
<1>2. Host(nb.ip) = nb.chassis /\ \A ip : Host(ip)' = Host(ip)
  BY <1>1, NetworkStays DEF Agrees
<1>3. CASE Followed(nb) /\ Enqueue(nb.ip, LldpTarget(nb))
  <2>1. nb.chassis \notin seen
    BY <1>1, <1>3 DEF Followed, Known
  <2>2. nb.ip \in enqueuedIps'
    BY <1>1, <1>3, <2>1, EnqueueRecords
  <2> QED
    BY <1>2, <2>2 DEF Queues
<1>4. CASE ~Followed(nb) /\ UNCHANGED enqueuedIps
  <2>1. Host(nb.ip) \in seen
    BY <1>1, <1>2, <1>4 DEF Followed, Known, SeenInv
  <2>2. main # "done"
    BY BusyMeansCrawling DEF PoolInv, Crawling
  <2> QED
    BY <1>1, <1>2, <1>4, <2>1, <2>2 DEF SeenIsQueued, Queues
<1> QED
  BY <1>3, <1>4

LEMMA CdpNeighborQueued ==
  ASSUME HoldsTrue, PoolInv, SeenInv, SeenIsQueued, IdentityInv, Alike, network' = network,
         reserved < MaxNodes,
         NEW w \in Workers, Polling(w), NEW c \in network.cdp[Host(worker[w].ip)], Host(c.ip) # None,
         Enqueue(c.ip, None) \/ (CdpTarget(c) # None /\ UNCHANGED enqueuedIps)
  PROVE  \E a \in enqueuedIps' : Host(a) = Host(c.ip)
<1>1. Host(worker[w].ip) \in Cids /\ c.ip \in Ips /\ c.ip # None /\ c \in CdpEntry
  <2>1. Host(worker[w].ip) \in Cids
    BY PollingFacts DEF HoldsTrue
  <2> QED
    BY <2>1, AlikeFacts, IdFacts, NetworkFacts DEF HoldsTrue, TypeOK
<1>2. \A ip : Host(ip)' = Host(ip)
  BY NetworkStays
<1>3. CASE Enqueue(c.ip, None)
  <2>1. c.ip \in enqueuedIps'
    BY <1>3, EnqueueRecords
  <2> QED
    BY <1>2, <2>1 DEF Queues
<1>4. CASE CdpTarget(c) # None /\ UNCHANGED enqueuedIps
  <2>1. CASE cidByIp[c.ip] # None
    <3>1. c.ip \in enqueuedIps
      BY <1>1, <2>1 DEF PoolInv, Places, SettledWasQueued, Settled
    <3> QED
      BY <1>2, <1>4, <3>1 DEF Queues
  <2>2. CASE cidByIp[c.ip] = None
    <3>1. c.name # None /\ cidByName[c.name] # None /\ c.name \in Names
      BY <1>1, <1>4, <2>2, EntryFacts DEF CdpTarget
    <3> DEFINE d == cidByName[c.name]
    <3>2. d \in Cids /\ network.name[d] = c.name /\ status[d] = "online"
      BY <3>1 DEF IdentityInv
    <3>3. network.name[Host(c.ip)] = c.name /\ Host(c.ip) \in Cids
      BY <1>1, <3>1, AlikeFacts DEF Alike
    <3>4. Host(c.ip) = d
      BY <3>1, <3>2, <3>3 DEF Alike
    <3>5. Host(c.ip) \in seen
      BY <3>2, <3>4, IdFacts DEF SeenInv
    <3>6. main # "done"
      BY BusyMeansCrawling DEF PoolInv, Crawling
    <3> QED
      BY <1>1, <1>2, <1>4, <3>5, <3>6 DEF SeenIsQueued, Queues
  <2> QED
    BY <2>1, <2>2
<1> QED
  BY <1>3, <1>4

LEMMA HandledNext ==
  ASSUME HoldsTrue, PoolInv, SeenInv, SeenIsQueued, IdentityInv, HandledInv, [Next]_vars,
         network' = network, Alike, reserved < MaxNodes, failures' = {}
  PROVE  HandledInv'
<1>1. /\ worker \in [Workers -> WorkerStates] /\ status \in [Ids -> Statuses] /\ Cids \subseteq Ids
      /\ enqueuedIps \subseteq enqueuedIps' /\ None \notin Ips
  BY QueuedForGood, IdFacts DEF HoldsTrue, TypeOK
<1>2. /\ (\A d : NamedBy(d)' = NamedBy(d)) /\ (\A s : Hosts(s)' = Hosts(s)) /\ (\A ip : Host(ip)' = Host(ip))
      /\ \A h : Queues(h) => Queues(h)'
  <2>1. (\A d : NamedBy(d)' = NamedBy(d)) /\ (\A s : Hosts(s)' = Hosts(s)) /\ (\A ip : Host(ip)' = Host(ip))
    BY NetworkStays
  <2> QED
    BY <1>1, <2>1 DEF Queues
<1>3. ASSUME UNCHANGED worker, \A i \in Ids : status'[i] = "online" => status[i] = "online" PROVE HandledInv'
  <2>1. \A v \in Workers : StillNamed(v)' = StillNamed(v) /\ (Polling(v)' <=> Polling(v))
    BY <1>2, <1>3 DEF StillNamed, Polling
  <2> QED
    BY <1>1, <1>2, <1>3, <2>1 DEF HandledInv
<1>4. ASSUME NEW w \in Workers, ~Polling(w), \E state : worker' = [worker EXCEPT ![w] = state],
             \A i \in Ids : status'[i] = "online" => status[i] = "online"
      PROVE  HandledInv'
  BY <1>1, <1>4, HandledBy
<1>5. ASSUME NEW w \in Workers, Identify(w) PROVE HandledInv'
  <2> DEFINE ip == worker[w].ip
             id == ChassisId(ip, worker[w].expected)
  <2>1. /\ Verdict(w, id) /\ status'[id] = "online"
        /\ \/ TaskDone(w) /\ status[id] = "online"
           \/ worker' = [worker EXCEPT ![w] = Identified(w, id)]
    BY <1>5, AnAnswer
  <2>2. ~Polling(w) /\ id \in Ids /\ \A i \in Ids \ {id} : status'[i] = status[i]
    BY <2>1 DEF Verdict, Asking, Polling
  <2> HIDE DEF id
  <2>3. CASE TaskDone(w) /\ status[id] = "online"
    BY <1>4, <2>2, <2>3 DEF TaskDone
  <2>4. CASE worker' = [worker EXCEPT ![w] = Identified(w, id)]
    <3>1. Polling(w)' /\ worker'[w].id = id /\ StillNamed(w)' = NamedBy(id)
      <4>1. Identified(w, id).step = "read" /\ Identified(w, id).id = id
        BY <1>1, <2>2, WorkerMoves
      <4> QED
        BY <1>1, <1>2, <2>4, <4>1 DEF Polling, StillNamed
    <3>2. \A v \in Workers \ {w} : StillNamed(v)' = StillNamed(v) /\ (Polling(v)' <=> Polling(v)) /\ worker'[v] = worker[v]
      BY <1>1, <1>2, <2>4 DEF StillNamed, Polling
    <3> SUFFICES ASSUME NEW d \in Cids, status'[d] = "online", NEW h \in Hosts(NamedBy(d)), ~Queues(h)'
                 PROVE  \E v \in Workers : Polling(v)' /\ worker'[v].id = d /\ h \in Hosts(StillNamed(v)')
      BY <1>2 DEF HandledInv
    <3>3. CASE d = id
      BY <3>1, <3>3
    <3>4. CASE d # id
      <4>1. status[d] = "online" /\ ~Queues(h)
        BY <1>1, <1>2, <2>2, <3>4
      <4>2. PICK v \in Workers : Polling(v) /\ worker[v].id = d /\ h \in Hosts(StillNamed(v))
        BY <4>1 DEF HandledInv
      <4> QED
        BY <2>2, <3>2, <4>2
    <3> QED
      BY <3>3, <3>4
  <2> QED
    BY <2>1, <2>3, <2>4
<1>6. ASSUME NEW w \in Workers, ReadNeighbors(w) PROVE HandledInv'
  <2>1. /\ worker[w].step = "read" /\ worker' = [worker EXCEPT ![w] = TablesRead(w)]
        /\ UNCHANGED status /\ Polling(w)
    BY <1>6 DEF ReadNeighbors, recordVars, Polling
  <2> DEFINE d == Host(worker[w].ip)
  <2>2. /\ d \in Cids /\ worker[w].id = d
        /\ worker[w].lldp \subseteq LldpEntry
    BY <2>1, PollingFacts DEF HoldsTrue, IdentityInv
  <2>3. /\ TablesRead(w).step = "check" /\ TablesRead(w).id = d /\ TablesRead(w).lldp = network.lldp[d]
        /\ TablesRead(w).cdp = {c \in network.cdp[d] : ~SameNeighbor(c, network.lldp[d])}
    BY <1>1, <2>2 DEF TablesRead, WorkerStates
  <2>4. Polling(w)' /\ StillNamed(w)' = {nb.ip : nb \in network.lldp[d]}
                                  \cup {c.ip : c \in {k \in network.cdp[d] : ~SameNeighbor(k, network.lldp[d])}}
    BY <1>1, <2>1, <2>3 DEF Polling, StillNamed
  <2>5. NamedBy(d) \subseteq Ips /\ StillNamed(w)' \subseteq NamedBy(d) /\ StillNamed(w) = NamedBy(d)
    <3>1. NamedBy(d) \subseteq Ips
      BY <2>2, AlikeFacts
    <3>2. StillNamed(w)' \subseteq NamedBy(d)
      BY <2>4 DEF NamedBy
    <3>3. StillNamed(w) = NamedBy(d)
      BY <2>1, <2>2 DEF StillNamed
    <3> QED
      BY <3>1, <3>2, <3>3
  <2>6. ASSUME NEW h \in Hosts(StillNamed(w)) PROVE h \in Hosts(StillNamed(w)')
    <3>1. PICK x \in NamedBy(d) : Host(x) = h /\ h # None
      BY <2>5, AlikeFacts
    <3>2. SUFFICES \E y \in StillNamed(w)' : Host(y) = h
      BY <2>5, <3>1, AlikeFacts
    <3>3. CASE \E nb \in network.lldp[d] : x = nb.ip
      BY <2>4, <3>1, <3>3
    <3>4. ASSUME NEW c \in network.cdp[d], x = c.ip PROVE \E y \in StillNamed(w)' : Host(y) = h
      <4>1. CASE ~SameNeighbor(c, network.lldp[d])
        BY <2>4, <3>1, <3>4, <4>1
      <4>2. CASE SameNeighbor(c, network.lldp[d])
        <5>1. PICK nb \in network.lldp[d] : SameNeighbor(c, {nb})
          BY <4>2 DEF SameNeighbor
        <5>2. Host(nb.ip) = h
          BY <2>2, <3>1, <3>4, <5>1 DEF Alike
        <5> QED
          BY <2>4, <5>2
      <4> QED
        BY <4>1, <4>2
    <3> QED
      BY <3>1, <3>3, <3>4 DEF NamedBy
  <2> QED
    BY <1>1, <2>1, <2>2, <2>3, <2>4, <2>6, HandledBy
<1>7. ASSUME NEW w \in Workers, MarkAccessPoint(w) PROVE HandledInv'
  <2>1. /\ worker[w].step = "check" /\ worker' = [worker EXCEPT ![w] = Moved(w, "neighbors")]
        /\ UNCHANGED status /\ Polling(w)
    BY <1>7 DEF MarkAccessPoint, Polling
  <2>2. "neighbors" \in Steps
    BY DEF Steps
  <2>3. /\ Moved(w, "neighbors").step = "neighbors" /\ Moved(w, "neighbors").id = worker[w].id
        /\ Moved(w, "neighbors").lldp = worker[w].lldp /\ Moved(w, "neighbors").cdp = worker[w].cdp
    BY <1>1, <2>2, WorkerMoves
  <2>4. Polling(w)' /\ StillNamed(w)' = StillNamed(w)
    BY <1>1, <2>1, <2>3 DEF Polling, StillNamed
  <2> QED
    BY <1>1, <2>1, <2>3, <2>4, HandledBy
<1>8. ASSUME NEW w \in Workers, HandleNeighbor(w) PROVE HandledInv'
  <2>1. PICK nb \in worker[w].lldp :
              /\ worker' = [worker EXCEPT ![w] = WithoutLldp(w, nb)]
              /\ nb \in network.lldp[Host(worker[w].ip)]
              /\ (Followed(nb) /\ Enqueue(nb.ip, LldpTarget(nb))) \/ (~Followed(nb) /\ UNCHANGED enqueuedIps)
              /\ UNCHANGED status \/ status' = [status EXCEPT ![LldpTarget(nb)] = "discovered"]
    BY <1>8, HandledNeighbor DEF queueVars
  <2>2. Polling(w) /\ worker[w].step = "neighbors" /\ worker[w].lldp \subseteq network.lldp[Host(worker[w].ip)]
        /\ worker[w].cdp \subseteq network.cdp[Host(worker[w].ip)] /\ Host(worker[w].ip) \in Cids
    <3>1. Polling(w) /\ worker[w].step = "neighbors"
      BY <1>8 DEF HandleNeighbor, Polling
    <3> QED
      BY <3>1, PollingFacts DEF HoldsTrue, PollOK
  <2>3. /\ WithoutLldp(w, nb).step = "neighbors" /\ WithoutLldp(w, nb).id = worker[w].id
        /\ WithoutLldp(w, nb).lldp = worker[w].lldp \ {nb} /\ WithoutLldp(w, nb).cdp = worker[w].cdp
    BY <1>1, <2>2 DEF WithoutLldp, WorkerStates
  <2>4. Polling(w)' /\ StillNamed(w)' = {x.ip : x \in worker[w].lldp \ {nb}} \cup {c.ip : c \in worker[w].cdp}
    BY <1>1, <2>1, <2>3 DEF Polling, StillNamed
  <2>5. StillNamed(w) \subseteq Ips /\ StillNamed(w) \subseteq StillNamed(w)' \cup {nb.ip}
        /\ StillNamed(w)' \subseteq StillNamed(w)
    <3>1. StillNamed(w) = {x.ip : x \in worker[w].lldp} \cup {c.ip : c \in worker[w].cdp}
      BY <2>2 DEF StillNamed
    <3> QED
      BY <2>2, <2>4, <3>1, AlikeFacts
  <2>6. ASSUME NEW h \in Hosts(StillNamed(w))
        PROVE  (\E a \in enqueuedIps' : Host(a) = h) \/ h \in Hosts(StillNamed(w)')
    <3>1. PICK x \in StillNamed(w) : Host(x) = h /\ h # None
      BY <2>5, AlikeFacts
    <3>2. CASE x = nb.ip
      BY <2>1, <2>2, <3>1, <3>2, NeighborQueued
    <3>3. CASE x \in StillNamed(w)'
      BY <2>5, <3>1, <3>3, AlikeFacts
    <3> QED
      BY <2>5, <3>2, <3>3
  <2>7. \A i \in Ids : status'[i] = "online" => status[i] = "online"
    BY <1>1, <2>1
  <2>8. \A h \in Hosts(StillNamed(w)) : Queues(h)' \/ h \in Hosts(StillNamed(w)')
    BY <1>2, <2>6 DEF Queues
  <2> QED
    BY <1>1, <2>1, <2>3, <2>4, <2>7, <2>8, HandledBy
<1>9. ASSUME NEW w \in Workers, HandleCdpNeighbor(w) PROVE HandledInv'
  <2>1. PICK c \in worker[w].cdp :
              /\ worker' = [worker EXCEPT ![w] = WithoutCdp(w, c)]
              /\ c \in network.cdp[Host(worker[w].ip)]
              /\ Enqueue(c.ip, None) \/ ((CdpTarget(c) # None \/ c.ip = None) /\ UNCHANGED enqueuedIps)
    BY <1>9, HandledCdpNeighbor DEF queueVars
  <2>2. Polling(w) /\ worker[w].step = "neighbors" /\ worker[w].lldp \subseteq network.lldp[Host(worker[w].ip)]
        /\ worker[w].cdp \subseteq network.cdp[Host(worker[w].ip)] /\ Host(worker[w].ip) \in Cids
    <3>1. Polling(w) /\ worker[w].step = "neighbors"
      BY <1>9 DEF HandleCdpNeighbor, Polling
    <3> QED
      BY <3>1, PollingFacts DEF HoldsTrue, PollOK
  <2>3. /\ WithoutCdp(w, c).step = "neighbors" /\ WithoutCdp(w, c).id = worker[w].id
        /\ WithoutCdp(w, c).cdp = worker[w].cdp \ {c} /\ WithoutCdp(w, c).lldp = worker[w].lldp
    BY <1>1, <2>2 DEF WithoutCdp, WorkerStates
  <2>4. Polling(w)' /\ StillNamed(w)' = {nb.ip : nb \in worker[w].lldp} \cup {x.ip : x \in worker[w].cdp \ {c}}
    BY <1>1, <2>1, <2>3 DEF Polling, StillNamed
  <2>5. StillNamed(w) \subseteq Ips /\ StillNamed(w) \subseteq StillNamed(w)' \cup {c.ip}
        /\ StillNamed(w)' \subseteq StillNamed(w) /\ c.ip \in Ips
    <3>1. StillNamed(w) = {x.ip : x \in worker[w].lldp} \cup {x.ip : x \in worker[w].cdp}
      BY <2>2 DEF StillNamed
    <3> QED
      BY <2>1, <2>2, <2>4, <3>1, AlikeFacts
  <2>6. ASSUME NEW h \in Hosts(StillNamed(w))
        PROVE  (\E a \in enqueuedIps' : Host(a) = h) \/ h \in Hosts(StillNamed(w)')
    <3>1. PICK x \in StillNamed(w) : Host(x) = h /\ h # None
      BY <2>5, AlikeFacts
    <3>2. CASE x = c.ip
      BY <1>1, <2>1, <2>2, <2>5, <3>1, <3>2, CdpNeighborQueued
    <3>3. CASE x \in StillNamed(w)'
      BY <2>5, <3>1, <3>3, AlikeFacts
    <3> QED
      BY <2>5, <3>2, <3>3
  <2>7. UNCHANGED status
    BY <1>9, HandledCdpNeighbor
  <2>8. \A h \in Hosts(StillNamed(w)) : Queues(h)' \/ h \in Hosts(StillNamed(w)')
    BY <1>2, <2>6 DEF Queues
  <2> QED
    BY <1>1, <2>1, <2>3, <2>4, <2>7, <2>8, HandledBy
<1>10. ASSUME NEW w \in Workers, ReadTables(w) PROVE HandledInv'
  <2>1. /\ worker[w].step = "neighbors" /\ worker[w].lldp = {} /\ worker[w].cdp = {} /\ UNCHANGED status
        /\ worker' = [worker EXCEPT ![w] = Idle]
    BY <1>10 DEF ReadTables, recordVars, TaskDone
  <2>2. Hosts(StillNamed(w)) = {}
    BY <2>1 DEF StillNamed, Hosts
  <2> QED
    BY <1>1, <2>1, <2>2, HandledBy
<1>11. ASSUME NEW w \in Workers, Take(w) \/ Unpollable(w) PROVE HandledInv'
  <2>1. ~Polling(w) /\ \E state : worker' = [worker EXCEPT ![w] = state]
    BY <1>11 DEF Take, Unpollable, TaskDone, Polling
  <2>2. \A i \in Ids : status'[i] = "online" => status[i] = "online"
    BY <1>11, NoAnswer DEF Take, recordVars
  <2> QED
    BY <1>4, <2>1, <2>2
<1>12. ASSUME NEW w \in Workers PROVE ~Fails(w)
  BY DEF Fails
<1>13. CASE ResolveCdpLinks
  <2>1. UNCHANGED worker /\ \A i \in Ids : status[i] # "none" => status'[i] = status[i]
    BY <1>13, Resolved
  <2>2. \A i \in Ids : status[i] = "none" => status'[i] \in {"none", "discovered"}
    BY <1>13, Resolved
  <2> QED
    BY <1>3, <2>1, <2>2
<1>14. Seed \/ Start \/ StopWorkers \/ UNCHANGED vars => HandledInv'
  BY <1>3 DEF Seed, Start, StopWorkers, vars, recordVars
<1> QED
  BY <1>5, <1>6, <1>7, <1>8, <1>9, <1>10, <1>11, <1>12, <1>13, <1>14 DEF Next, MainNext, WorkerNext

LEMMA MapInit == Init => MapInv
<1> SUFFICES ASSUME Init PROVE MapInv
  OBVIOUS
<1>1. /\ network \in Networks /\ main = "seeding" /\ seeds = network.seeds /\ queue = <<>>
      /\ worker = [w \in Workers |-> Idle] /\ status = [i \in Ids |-> "none"] /\ links = {} /\ cdpLinks = {}
      /\ seen = {k.id : k \in network.known} /\ enqueuedIps = {k.ip : k \in network.known} \ {None}
      /\ cidByIp = [i \in Ips |-> IdOfFirst({k \in network.known : k.ip = i})]
      /\ cidByName = [n \in Names |-> IdOfFirst({k \in network.known : k.name = n})]
  BY DEF Init
<1>2. SeenInv
  <2>1. ASSUME NEW ip \in Ips, cidByIp[ip] # None PROVE cidByIp[ip] \in seen
    <3> DEFINE K == {k \in network.known : k.ip = ip}
    <3>1. cidByIp[ip] = IdOfFirst(K)
      BY <1>1
    <3>2. K # {} /\ cidByIp[ip] = (CHOOSE k \in K : TRUE).id
      BY <2>1, <3>1 DEF IdOfFirst
    <3>3. (CHOOSE k \in K : TRUE) \in K
      BY <3>2
    <3> QED
      BY <1>1, <3>2, <3>3
  <2> QED
    BY <1>1, <2>1 DEF SeenInv
<1>3. EndsInv
  BY <1>1 DEF EndsInv
<1>4. ASSUME Alike PROVE WalkInv
  <2>1. network.known = {}
    BY <1>4 DEF Alike
  <2>2. enqueuedIps = {} /\ seen = {} /\ \A i \in Ips : cidByIp[i] = None
    BY <1>1, <2>1 DEF IdOfFirst
  <2>3. \A n \in Names : cidByName[n] = None
    BY <1>1, <2>1 DEF IdOfFirst
  <2>4. \A w \in Workers : ~Polling(w) /\ ~Asking(w)
    BY <1>1, IdleType DEF Polling, Asking
  <2>5. SeedsInv /\ ExpectedInv
    BY <1>1, <2>4 DEF SeedsInv, ExpectedInv
  <2>6. IdentityInv
    BY <1>1, <2>2, <2>3, <2>4 DEF IdentityInv
  <2>7. SeenIsQueued /\ InsideInv
    BY <1>1, <2>2 DEF SeenIsQueued, InsideInv, Hosts
  <2>8. HandledInv
    BY <1>1, IdFacts DEF HandledInv
  <2> QED
    BY <2>5, <2>6, <2>7, <2>8 DEF WalkInv
<1> QED
  BY <1>2, <1>3, <1>4 DEF MapInv, Undisturbed

LEMMA MapNext == HoldsTrue /\ PoolInv /\ GivenInv /\ MapInv /\ [Next]_vars => MapInv'
<1> SUFFICES ASSUME HoldsTrue, PoolInv, GivenInv, MapInv, [Next]_vars PROVE MapInv'
  OBVIOUS
<1>1. SeenInv /\ EndsInv
  BY DEF MapInv
<1>2. SeenInv' /\ EndsInv'
  BY <1>1, SeenNext, EndsNext
<1>3. ASSUME Undisturbed' PROVE WalkInv'
  <2>1. Undisturbed /\ network' = network /\ failures' = {}
    BY <1>3, UndisturbedBefore DEF Undisturbed
  <2>2. Alike /\ reserved < MaxNodes
    BY <2>1 DEF Undisturbed
  <2>3. SeedsInv /\ ExpectedInv /\ IdentityInv /\ SeenIsQueued /\ HandledInv /\ InsideInv
    BY <2>1 DEF MapInv, WalkInv
  <2> QED
    BY <1>1, <2>1, <2>2, <2>3, SeedsNext, ExpectedNext, IdentityNext, SeenQueuedNext, HandledNext, InsideNext
       DEF WalkInv
<1> QED
  BY <1>2, <1>3 DEF MapInv

(* What the pool of workers knows at any moment of a crawl, of a sequential *)
(* walk of the same network.                                               *)
THEOREM MapAlways == Spec => []MapInv
<1>1. Init /\ [][Next]_vars /\ [](HoldsTrue /\ PoolInv) /\ []GivenInv => []MapInv
  BY MapInit, MapNext, PTL
<1> QED
  BY <1>1, PoolAlways, GivenAlways, PTL DEF Spec

(* When the crawl is over and nothing disturbed it, every device that a    *)
(* polled one names has been polled.                                       *)
LEMMA FoundIsClosed ==
  ASSUME HoldsTrue, PoolInv, MapInv, main = "done", Undisturbed
  PROVE  Closed({i \in Ids : status[i] = "online"})
<1> DEFINE Found == {i \in Ids : status[i] = "online"}
<1>1. WalkInv /\ Alike /\ failures = {}
  BY DEF MapInv, Undisturbed
<1>2. Found \subseteq Cids /\ Cids \subseteq Ids /\ None \notin Ips /\ enqueuedIps \subseteq Ips
  BY <1>1, IdFacts DEF WalkInv, IdentityInv, HoldsTrue, TypeOK
<1>3. ASSUME NEW a \in enqueuedIps, Host(a) # None PROVE Host(a) \in Found
  <2>1. Settled(a)
    BY BusyMeansCrawling DEF PoolInv, Places, Accounted, Ends, Crawling, Queued
  <2>2. cidByIp[a] # None
    BY <1>1, <2>1 DEF Settled
  <2>3. status[Host(a)] = "online" /\ Host(a) \in Cids
    BY <1>1, <1>2, <1>3, <2>2, AlikeFacts DEF WalkInv, IdentityInv
  <2> QED
    BY <1>2, <2>3
<1>4. Hosts({network.seeds[i] : i \in DOMAIN network.seeds}) \subseteq Found
  <2>1. \A i \in DOMAIN network.seeds : network.seeds[i] \in enqueuedIps
    BY <1>1 DEF WalkInv, SeedsInv
  <2> QED
    BY <1>2, <1>3, <2>1 DEF Hosts
<1>5. ASSUME NEW d \in Found PROVE Hosts(NamedBy(d)) \subseteq Found
  <2>1. d \in Cids /\ status[d] = "online" /\ \A w \in Workers : ~Polling(w)
    BY <1>2, BusyMeansCrawling DEF PoolInv, Crawling
  <2>2. \A h \in Hosts(NamedBy(d)) : Queues(h) /\ h # None
    BY <1>1, <2>1 DEF WalkInv, HandledInv, Hosts
  <2> QED
    BY <1>3, <2>2 DEF Queues
<1> QED
  BY <1>4, <1>5 DEF Closed

(* crawl.py: the pool finds what a sequential walk finds, and no link      *)
(* hangs in the air.                                                       *)
THEOREM MapAlwaysWhole == Spec => []MapIsWhole
<1>1. HoldsTrue /\ PoolInv /\ MapInv => MapIsWhole
  <2> SUFFICES ASSUME HoldsTrue, PoolInv, MapInv PROVE MapIsWhole
    OBVIOUS
  <2>1. LinksHaveEnds
    BY DEF MapInv, EndsInv, LinksHaveEnds, Awaited, Elsewhere
  <2>2. FindsTheNetwork
    <3> SUFFICES ASSUME main = "done", Undisturbed
                 PROVE  {i \in Ids : status[i] = "online"} = Reach
      BY DEF FindsTheNetwork, Undisturbed
    <3>1. WalkInv
      BY DEF MapInv
    <3>2. {i \in Ids : status[i] = "online"} \subseteq Cids
      BY <3>1 DEF WalkInv, IdentityInv
    <3>3. Closed({i \in Ids : status[i] = "online"})
      BY FoundIsClosed
    <3>4. \A i \in Ids : status[i] = "online" => i \in Reach
      BY <3>1, <3>2 DEF WalkInv, InsideInv, Reach
    <3> QED
      BY <3>2, <3>3, <3>4 DEF Reach
  <2> QED
    BY <2>1, <2>2 DEF MapIsWhole
<1> QED
  BY <1>1, PoolAlways, MapAlways, PTL
-----------------------------------------------------------------------------
(* The end of the crawl, as far as it does not depend on fairness.  While  *)
(* addresses are queued no worker has stopped, and run() leaves as many    *)
(* orders to stop as there are workers to take one.                        *)
Going(w) == worker[w].step # "stopped"
OnlyItems == \A i \in DOMAIN queue : queue[i] # Stop
StopsInv ==
  /\ Crawling => OnlyItems /\ \A w \in Workers : Going(w)
  /\ main = "stopping" => Len(queue) = Cardinality({w \in Workers : Going(w)})

LEMMA GoingStays ==
  ASSUME worker \in [Workers -> WorkerStates], NEW w \in Workers, NEW state,
         worker' = [worker EXCEPT ![w] = state], state.step # "stopped",
         \A v \in Workers : Going(v)
  PROVE  \A v \in Workers : Going(v)'
BY DEF Going

LEMMA StopsInit == Init => StopsInv
BY IdleType DEF Init, StopsInv, Crawling, Going, OnlyItems

LEMMA StopTaken ==
  ASSUME HoldsTrue, PoolInv, StopsInv, NEW w \in Workers, Take(w)
  PROVE  StopsInv'
<1>1. /\ main' = main /\ worker[w].step = "idle" /\ queue # <<>> /\ queue' = Tail(queue)
      /\ worker' = [worker EXCEPT ![w] =
           IF Head(queue) = Stop THEN At("stopped", None, None)
           ELSE At("identify", Head(queue).ip, Head(queue).expected)]
  BY DEF Take
<1>2. worker \in [Workers -> WorkerStates] /\ queue \in Seq(Items \cup {Stop})
  BY DEF HoldsTrue, TypeOK
<1>3. Len(queue') = Len(queue) - 1 /\ Len(queue) \in Nat
  BY <1>1, <1>2, QueuedFacts, TakenEffect DEF PoolInv, Places
<1>4. CASE Crawling
  <2>1. Head(queue) # Stop /\ OnlyItems'
    <3>1. /\ Head(queue) = queue[1] /\ 1 \in DOMAIN queue /\ DOMAIN queue' = 1 .. Len(queue')
          /\ \A i \in 1 .. Len(queue') : queue'[i] = queue[i + 1] /\ i + 1 \in DOMAIN queue
      BY <1>1, <1>2, <1>3, HeadTailProperties, LenProperties, EmptySeq
    <3> QED BY <1>4, <3>1 DEF StopsInv, OnlyItems
  <2>2. /\ worker' = [worker EXCEPT ![w] = At("identify", Head(queue).ip, Head(queue).expected)]
        /\ At("identify", Head(queue).ip, Head(queue).expected).step = "identify"
    BY <1>1, <2>1 DEF At
  <2>3. \A v \in Workers : Going(v)'
    BY <1>2, <1>4, <2>2, GoingStays DEF StopsInv
  <2> QED BY <1>1, <1>4, <2>1, <2>3 DEF StopsInv, Crawling
<1>5. CASE main = "stopping"
  <2>1. Head(queue) = Stop
    BY <1>1, <1>5, TakenEffect DEF PoolInv, Places, Ends, Crawling
  <2>2. worker' = [worker EXCEPT ![w] = At("stopped", None, None)]
    BY <1>1, <2>1
  <2>3. \A v \in Workers : Going(v)' <=> Going(v) /\ v # w
    BY <1>2, <2>2 DEF Going, At
  <2> DEFINE G == {v \in Workers : Going(v)}
  <2>4. {v \in Workers : Going(v)}' = G \ {w}
    BY <2>3
  <2>5. w \in G /\ IsFiniteSet(G)
    BY <1>1, CrawlConstants, FS_Subset DEF Going
  <2>6. Cardinality(G \ {w}) = Cardinality(G) - 1
    BY <2>5, FS_RemoveElement
  <2> HIDE DEF G
  <2>7. Len(queue) = Cardinality(G)
    BY <1>5 DEF StopsInv, G
  <2> QED BY <1>1, <1>3, <1>5, <2>4, <2>6, <2>7 DEF StopsInv, Crawling
<1>6. CASE ~Crawling /\ main # "stopping"
  BY <1>1, <1>6 DEF StopsInv, Crawling
<1> QED BY <1>4, <1>5, <1>6

(* The steps of a worker that polls a device, but the last: it goes on     *)
(* with its item, and only the handling of a neighbour touches the queue.  *)
LEMMA WorkerMoveStep ==
  ASSUME HoldsTrue, NEW w \in Workers,
         ReadNeighbors(w) \/ MarkAccessPoint(w) \/ HandleNeighbor(w) \/ HandleCdpNeighbor(w)
  PROVE  /\ Polling(w) /\ UNCHANGED <<main, seeds>>
         /\ \E state : worker' = [worker EXCEPT ![w] = state] /\ state.step # "stopped"
         /\ NearerItsEnd(w)
<1>1. TypeOK /\ WorkersOK /\ worker \in [Workers -> WorkerStates]
  BY DEF HoldsTrue, TypeOK
<1>2. CASE ReadNeighbors(w)
  <2>1. /\ worker[w].step = "read" /\ worker' = [worker EXCEPT ![w] = TablesRead(w)]
        /\ UNCHANGED <<main, seeds>>
    BY <1>2 DEF ReadNeighbors, workerUnchanged
  <2>2. Host(worker[w].ip) \in Cids
    BY <1>1, <2>1, PollingFacts DEF Polling
  <2>3. TablesRead(w).step = "check"
    BY <1>1, <2>2, TablesReadMove DEF TypeOK
  <2>4. worker'[w] = TablesRead(w)
    BY <1>1, <2>1
  <2>5. Stage(w) = 1 /\ Stage(w)' = 2
    BY <2>1, <2>3, <2>4 DEF Stage
  <2>6. NearerItsEnd(w)
    BY <2>5 DEF NearerItsEnd
  <2> QED BY <2>1, <2>3, <2>6 DEF Polling
<1>3. CASE MarkAccessPoint(w)
  <2>1. /\ worker[w].step = "check" /\ worker' = [worker EXCEPT ![w] = Moved(w, "neighbors")]
        /\ UNCHANGED <<main, seeds>>
    BY <1>3 DEF MarkAccessPoint, workerUnchanged
  <2>2. Moved(w, "neighbors").step = "neighbors"
    BY <1>1, WorkerMoves DEF Steps
  <2>3. worker'[w] = Moved(w, "neighbors")
    BY <1>1, <2>1
  <2>4. Stage(w) = 2 /\ Stage(w)' = 3
    BY <2>1, <2>2, <2>3 DEF Stage
  <2>5. NearerItsEnd(w)
    BY <2>4 DEF NearerItsEnd
  <2> QED BY <2>1, <2>2, <2>5 DEF Polling
<1>4. CASE HandleNeighbor(w)
  <2>1. worker[w].step = "neighbors" /\ UNCHANGED <<main, seeds>>
    BY <1>4 DEF HandleNeighbor, workerUnchanged
  <2>2. PICK nb \in worker[w].lldp : worker' = [worker EXCEPT ![w] = WithoutLldp(w, nb)]
    BY <1>4 DEF HandleNeighbor
  <2>3. /\ WithoutLldp(w, nb).step = "neighbors"
        /\ WithoutLldp(w, nb).lldp = worker[w].lldp \ {nb}
        /\ WithoutLldp(w, nb).cdp = worker[w].cdp
    <3>1. worker[w] \in WorkerStates
      BY <1>1
    <3> QED BY <2>1, <3>1 DEF WorkerStates, WithoutLldp
  <2>4. worker'[w] = WithoutLldp(w, nb)
    BY <1>1, <2>2
  <2>5. Stage(w)' = Stage(w)
    BY <2>1, <2>3, <2>4 DEF Stage
  <2>6. NearerItsEnd(w)
    BY <2>2, <2>3, <2>4, <2>5 DEF NearerItsEnd
  <2> QED BY <2>1, <2>2, <2>3, <2>6 DEF Polling
<1>5. CASE HandleCdpNeighbor(w)
  <2>1. worker[w].step = "neighbors" /\ UNCHANGED <<main, seeds>>
    BY <1>5 DEF HandleCdpNeighbor, workerUnchanged
  <2>2. PICK c \in worker[w].cdp : worker' = [worker EXCEPT ![w] = WithoutCdp(w, c)]
    BY <1>5 DEF HandleCdpNeighbor
  <2>3. /\ WithoutCdp(w, c).step = "neighbors"
        /\ WithoutCdp(w, c).lldp = worker[w].lldp
        /\ WithoutCdp(w, c).cdp = worker[w].cdp \ {c}
    <3>1. worker[w] \in WorkerStates
      BY <1>1
    <3> QED BY <2>1, <3>1 DEF WorkerStates, WithoutCdp
  <2>4. worker'[w] = WithoutCdp(w, c)
    BY <1>1, <2>2
  <2>5. Stage(w)' = Stage(w)
    BY <2>1, <2>3, <2>4 DEF Stage
  <2>6. NearerItsEnd(w)
    BY <2>2, <2>3, <2>4, <2>5 DEF NearerItsEnd
  <2> QED BY <2>1, <2>2, <2>3, <2>6 DEF Polling
<1> QED BY <1>2, <1>3, <1>4, <1>5

LEMMA QueueMoves ==
  ASSUME HoldsTrue, NEW w \in Workers,
         ReadNeighbors(w) \/ MarkAccessPoint(w) \/ HandleNeighbor(w) \/ HandleCdpNeighbor(w)
  PROVE  \/ UNCHANGED <<queue, reserved>>
         \/ \E ip \in Ips, cid \in Ids \cup {None} : Enqueue(ip, cid)
<1>1. TypeOK /\ WorkersOK
  BY DEF HoldsTrue
<1>2. CASE ReadNeighbors(w) \/ MarkAccessPoint(w)
  BY <1>2 DEF ReadNeighbors, MarkAccessPoint, queueVars
<1>3. CASE HandleNeighbor(w)
  <2>1. PICK nb \in worker[w].lldp :
          (nb.ip # None /\ Enqueue(nb.ip, LldpTarget(nb))) \/ UNCHANGED queueVars
    BY <1>3 DEF HandleNeighbor, Followed
  <2>2. LldpTarget(nb) \in Ids /\ nb.ip \in Ips \cup {None}
    BY <1>1, <1>3, EntryFacts, PollingFacts DEF HandleNeighbor, Polling
  <2> QED BY <2>1, <2>2 DEF queueVars
<1>4. CASE HandleCdpNeighbor(w)
  <2>1. PICK c \in worker[w].cdp :
          (c.ip # None /\ Enqueue(c.ip, None)) \/ UNCHANGED queueVars
    BY <1>4 DEF HandleCdpNeighbor
  <2>2. c.ip \in Ips \cup {None}
    BY <1>1, <1>4, EntryFacts, PollingFacts DEF HandleCdpNeighbor, Polling
  <2> QED BY <2>1, <2>2 DEF queueVars
<1> QED BY <1>2, <1>3, <1>4

LEMMA StopsNext == HoldsTrue /\ PoolInv /\ StopsInv /\ [Next]_vars => StopsInv'
<1> SUFFICES ASSUME HoldsTrue, PoolInv, StopsInv, [Next]_vars PROVE StopsInv'
  OBVIOUS
<1>1. worker \in [Workers -> WorkerStates] /\ TypeOK
  BY DEF HoldsTrue, TypeOK
<1>2. ASSUME NEW ip \in Ips, NEW cid \in Ids \cup {None}, Enqueue(ip, cid), OnlyItems
      PROVE  OnlyItems'
  <2>1. CASE UNCHANGED queue
    BY <1>2, <2>1 DEF OnlyItems
  <2>2. CASE ~UNCHANGED queue
    <3>1. /\ queue' \in Seq(Items \cup {Stop}) /\ Len(queue') = Len(queue) + 1
          /\ \A i \in 1 .. Len(queue) : queue'[i] = queue[i]
          /\ queue'[Len(queue) + 1] # Stop
      BY <1>1, <1>2, <2>2, EnqueueEffect DEF TypeOK
    <3>2. Len(queue) \in Nat /\ DOMAIN queue = 1 .. Len(queue) /\ DOMAIN queue' = 1 .. Len(queue')
      BY <3>1, QueuedFacts, LenProperties
    <3> QED BY <1>2, <3>1, <3>2 DEF OnlyItems
  <2> QED BY <2>1, <2>2
<1>3. CASE Seed
  <2>1. /\ Crawling /\ Crawling' /\ Enqueue(Head(seeds), None) /\ UNCHANGED worker /\ main' = "seeding"
        /\ seeds # <<>> /\ seeds \in Seq(Ips)
    BY <1>1, <1>3 DEF Seed, Crawling, TypeOK
  <2>2. OnlyItems'
    BY <1>2, <2>1, HeadTailProperties DEF StopsInv
  <2> QED BY <2>1, <2>2 DEF StopsInv, Going
<1>4. ASSUME UNCHANGED <<queue, worker>>, main' = main \/ (Crawling /\ Crawling' /\ main' # "stopping") \/ main' = "done"
      PROVE  StopsInv'
  BY <1>4 DEF StopsInv, Crawling, Going, OnlyItems
<1>5. CASE Start
  BY <1>4, <1>5 DEF Start, Crawling, queueVars
<1>6. CASE StopWorkers
  <2>1. CASE main' = "failed"
    BY <2>1 DEF StopsInv, Crawling
  <2>2. CASE main' # "failed"
    <3>1. /\ main' = "stopping" /\ queue' = Stops
          /\ UNCHANGED worker /\ \A w \in Workers : worker[w].step = "idle"
      BY <1>6, <2>2 DEF StopWorkers, Joined
    <3>2. {w \in Workers : Going(w)}' = Workers
      BY <3>1 DEF Going
    <3> QED BY <3>1, <3>2, StopsType DEF StopsInv, Crawling
  <2> QED BY <2>1, <2>2
<1>7. CASE ResolveCdpLinks
  BY <1>4, <1>7 DEF ResolveCdpLinks, queueVars
<1>8. CASE UNCHANGED vars
  BY <1>4, <1>8 DEF vars, queueVars
<1>9. ASSUME NEW w \in Workers, Take(w) PROVE StopsInv'
  BY <1>9, StopTaken
<1>10. ASSUME NEW w \in Workers, Asking(w) \/ Polling(w), NEW state, worker' = [worker EXCEPT ![w] = state],
              state.step # "stopped", UNCHANGED main, OnlyItems => OnlyItems'
       PROVE  StopsInv'
  <2>1. Crawling /\ Crawling' /\ OnlyItems /\ \A v \in Workers : Going(v)
    BY <1>10, BusyMeansCrawling DEF PoolInv, StopsInv, Crawling
  <2>2. \A v \in Workers : Going(v)'
    BY <1>1, <1>10, <2>1, GoingStays
  <2> QED BY <1>10, <2>1, <2>2 DEF StopsInv, Crawling
<1>11. ASSUME NEW w \in Workers, Unpollable(w) \/ Identify(w) \/ Fails(w) \/ ReadTables(w)
       PROVE  StopsInv'
  <2>1. /\ Asking(w) \/ Polling(w)
        /\ UNCHANGED <<main, queue>>
        /\ \/ worker' = [worker EXCEPT ![w] = Idle]
           \/ worker' = [worker EXCEPT ![w] = Identified(w, ChassisId(worker[w].ip, worker[w].expected))]
    BY <1>11 DEF Unpollable, Identify, Fails, ReadTables, Asking, Polling, workerUnchanged, queueVars, TaskDone
  <2>2. Idle.step # "stopped" /\ Identified(w, ChassisId(worker[w].ip, worker[w].expected)).step # "stopped"
    BY <1>1, IdleType DEF Identified, WorkerStates
  <2>3. OnlyItems => OnlyItems'
    BY <2>1 DEF OnlyItems
  <2> QED BY <1>10, <2>1, <2>2, <2>3
<1>12. ASSUME NEW w \in Workers,
              ReadNeighbors(w) \/ MarkAccessPoint(w) \/ HandleNeighbor(w) \/ HandleCdpNeighbor(w)
       PROVE  StopsInv'
  <2>1. PICK state : Polling(w) /\ UNCHANGED main /\ worker' = [worker EXCEPT ![w] = state] /\ state.step # "stopped"
    BY <1>12, WorkerMoveStep
  <2>2. OnlyItems => OnlyItems'
    BY <1>1, <1>2, <1>12, QueueMoves DEF OnlyItems
  <2> QED BY <1>10, <2>1, <2>2
<1> QED BY <1>3, <1>5, <1>6, <1>7, <1>8, <1>9, <1>11, <1>12 DEF Next, MainNext, WorkerNext

(* With a worker at all, the crawl is over or someone in it can go on,     *)
(* whatever the network, the workers and the cap: join(), the workers and  *)
(* gather() never wait for one another (crawl.py run and _worker).         *)
THEOREM CrawlNeverStuck == Spec => []NeverStuck
<1>1. HoldsTrue /\ PoolInv /\ StopsInv => NeverStuck
  <2> SUFFICES ASSUME HoldsTrue, PoolInv, StopsInv, Workers # {}, ~Over PROVE SomeoneCanGoOn
    BY DEF NeverStuck
  <2>1. main \in Mains /\ \A w \in Workers : worker[w].step \in Steps
    BY WorkerFields DEF HoldsTrue, TypeOK
  <2>2. CASE main = "seeding"
    BY <2>2 DEF SomeoneCanGoOn
  <2>3. CASE main = "joining"
    <3>1. \A w \in Workers : Going(w)
      BY <2>3 DEF StopsInv, Crawling
    <3>2. CASE \A w \in Workers : worker[w].step = "idle"
      BY <2>3, <3>2 DEF SomeoneCanGoOn, Joined
    <3>3. CASE \E w \in Workers : worker[w].step # "idle"
      BY <2>1, <3>1, <3>3 DEF SomeoneCanGoOn, Going, Polling, Steps
    <3> QED BY <3>2, <3>3
  <2>4. CASE main = "stopping"
    <3> DEFINE G == {w \in Workers : Going(w)}
    <3>1. CASE G = {}
      BY <2>4, <3>1 DEF SomeoneCanGoOn, Going
    <3>2. CASE G # {}
      <4>1. PICK w \in Workers : Going(w)
        BY <3>2
      <4>2. worker[w].step = "idle"
        BY <2>1, <2>4, <4>1 DEF PoolInv, Ends, Crawling, Going, Asking, Polling, Steps
      <4>3. IsFiniteSet(G)
        BY CrawlConstants, FS_Subset
      <4>4. Len(queue) = Cardinality(G)
        BY <2>4 DEF StopsInv
      <4> HIDE DEF G
      <4>5. Cardinality(G) # 0
        BY <3>2, <4>3, FS_EmptySet
      <4>6. queue # <<>>
        BY <4>4, <4>5
      <4> QED BY <4>2, <4>6 DEF SomeoneCanGoOn
    <3> QED BY <3>1, <3>2
  <2> QED BY <2>1, <2>2, <2>3, <2>4 DEF Mains, Over
<1>2. Init => StopsInv
  BY StopsInit
<1>3. HoldsTrue /\ PoolInv /\ StopsInv /\ [Next]_vars => StopsInv'
  BY StopsNext
<1> QED BY <1>1, <1>2, <1>3, PoolAlways, PTL DEF Spec

(* A step of one worker leaves the others where they are.                  *)
LEMMA OthersWait ==
  ASSUME worker \in [Workers -> WorkerStates], NEW w \in Workers, NEW state,
         worker' = [worker EXCEPT ![w] = state]
  PROVE  worker'[w] = state /\ \A v \in Workers \ {w} : worker'[v] = worker[v]
OBVIOUS

LEMMA OnwardNext == HoldsTrue /\ [Next]_vars => [Onward]_vars
<1> SUFFICES ASSUME HoldsTrue, Next PROVE Onward
  BY DEF vars
<1>1. TypeOK /\ WorkersOK /\ worker \in [Workers -> WorkerStates] /\ seeds \in Seq(Ips)
      /\ reserved \in Nat /\ queue \in Seq(Items \cup {Stop})
  BY DEF HoldsTrue, TypeOK
<1>2. UNCHANGED main => UNCHANGED Phase
  BY DEF Phase
<1>3. Phase' \in 0 .. 3
  BY DEF Phase
<1>4. CASE Seed
  <2>1. seeds # <<>> /\ seeds' = Tail(seeds) /\ UNCHANGED main
    BY <1>4 DEF Seed
  <2>2. Len(seeds') < Len(seeds)
    BY <1>1, <2>1, HeadTailProperties, LenProperties, EmptySeq
  <2> QED BY <1>2, <2>1, <2>2 DEF Onward
<1>5. CASE Start
  BY <1>5 DEF Start, Phase, Onward
<1>6. CASE StopWorkers
  BY <1>6 DEF StopWorkers, Phase, Onward
<1>7. CASE ResolveCdpLinks
  <2>1. main = "stopping" /\ main' = "done"
    BY <1>7 DEF ResolveCdpLinks
  <2> QED BY <2>1 DEF Phase, Onward
<1>8. ASSUME NEW w \in Workers, Take(w) PROVE Onward
  <2>1. queue # <<>> /\ queue' = Tail(queue) /\ UNCHANGED <<main, seeds, reserved>>
    BY <1>8 DEF Take
  <2>2. Len(queue') < Len(queue)
    BY <1>1, <2>1, HeadTailProperties, LenProperties, EmptySeq
  <2> QED BY <1>2, <2>1, <2>2 DEF Onward
<1>9. ASSUME NEW w \in Workers, NEW state, worker' = [worker EXCEPT ![w] = state], NearerItsEnd(w),
             UNCHANGED <<main, seeds, reserved, queue>>
      PROVE  Onward
  <2>1. \A v \in Workers \ {w} : worker'[v] = worker[v]
    BY <1>1, <1>9, OthersWait
  <2> QED BY <1>2, <1>9, <2>1 DEF Onward
<1>10. ASSUME NEW w \in Workers, Unpollable(w) \/ Identify(w) \/ ReadTables(w) \/ Fails(w)
       PROVE  Onward
  <2>1. PICK state : /\ worker' = [worker EXCEPT ![w] = state]
                     /\ \/ state.step = "idle"
                           /\ worker[w].step \in {"identify", "read", "check", "neighbors"}
                        \/ state.step = "read" /\ worker[w].step = "identify"
    <3>1. CASE TaskDone(w)
      BY <1>10, <3>1, IdleType DEF TaskDone, Unpollable, Identify, ReadTables, Fails
    <3>2. CASE ~TaskDone(w)
      <4>1. /\ worker[w].step = "identify"
            /\ worker' = [worker EXCEPT ![w] = Identified(w, ChassisId(worker[w].ip, worker[w].expected))]
        BY <1>10, <3>2 DEF Unpollable, Identify, ReadTables, Fails
      <4>2. Identified(w, ChassisId(worker[w].ip, worker[w].expected)).step = "read"
        BY <1>1 DEF Identified, WorkerStates
      <4> QED BY <4>1, <4>2
    <3> QED BY <3>1, <3>2
  <2>2. worker'[w] = state
    BY <1>1, <2>1
  <2>3. Stage(w)' > Stage(w)
    BY <2>1, <2>2 DEF Stage
  <2>4. UNCHANGED <<main, seeds, reserved, queue>>
    BY <1>10 DEF Unpollable, Identify, ReadTables, Fails, workerUnchanged, queueVars
  <2> QED BY <1>9, <2>1, <2>3, <2>4 DEF NearerItsEnd
<1>11. ASSUME NEW w \in Workers,
              ReadNeighbors(w) \/ MarkAccessPoint(w) \/ HandleNeighbor(w) \/ HandleCdpNeighbor(w)
       PROVE  Onward
  <2>1. /\ UNCHANGED <<main, seeds>> /\ NearerItsEnd(w)
        /\ \E state : worker' = [worker EXCEPT ![w] = state]
    BY <1>11, WorkerMoveStep
  <2>2. CASE UNCHANGED <<queue, reserved>>
    BY <1>9, <2>1, <2>2
  <2>3. CASE \E ip \in Ips, cid \in Ids \cup {None} : Enqueue(ip, cid)
    <3>1. PICK ip \in Ips, cid \in Ids \cup {None} : Enqueue(ip, cid)
      BY <2>3
    <3>2. UNCHANGED <<queue, reserved>> \/ reserved' = reserved + 1
      BY <1>1, <3>1, EnqueueEffect DEF TypeOK
    <3> QED BY <1>1, <1>2, <2>1, <2>2, <3>2 DEF Onward
  <2> QED BY <1>11, <2>2, <2>3, QueueMoves
<1> QED BY <1>4, <1>5, <1>6, <1>7, <1>8, <1>10, <1>11 DEF Next, MainNext, WorkerNext

(* Every step brings the crawl nearer to its end, in any network: no loop  *)
(* in what the tables say keeps it going, for reservations are never given *)
(* back, and a worker handles each entry once (crawl.py _enqueue, _poll).  *)
THEOREM CrawlGoesOnward == Spec => GoesOnward
<1>1. HoldsTrue /\ [Next]_vars => [Onward]_vars
  BY OnwardNext
<1> QED BY <1>1, HoldsTrueAlways, PTL DEF Spec, GoesOnward
=============================================================================
